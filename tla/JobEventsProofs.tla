--------------------------- MODULE JobEventsProofs ---------------------------
(***************************************************************************)
(* Theorems about JobEvents, for any number of tabs, polls and             *)
(* reconnections.                                                          *)
(***************************************************************************)
EXTENDS JobEvents, TLAPS

(* What is still to be published, what the subscriptions hold and what the *)
(* route has read are statuses the job has had.                            *)
Recorded ==
  /\ status \in committed
  /\ outbox \in Seq(committed)
  /\ \A c \in Client : inbox[c] \in Seq(committed) /\ initial[c] \in committed
  /\ ToldTheTruth

(* A sequence of statuses stays one when a status is added.                *)
LEMMA MoreStatuses ==
  ASSUME NEW S, NEW T, S \subseteq T, NEW s \in Seq(S)
  PROVE  s \in Seq(T)
  OBVIOUS

(* The steps of the worker and of those who change the status.             *)
WorkerStep == Start \/ Finish \/ Fail \/ Publish \/ FailSilently \/ Purge

(* They keep the types and what is recorded.                               *)
LEMMA WorkerTypes ==
  ASSUME TypeOK, Recorded, WorkerStep
  PROVE  TypeOK' /\ Recorded'
PROOF
  <1> USE DEF TypeOK, Recorded, Commit, Terminal, JobStatus
  <1>1. CASE Publish
    <2>1. outbox # <<>> /\ Head(outbox) \in Terminal /\ Head(outbox) \in committed
          /\ outbox' = Tail(outbox) /\ outbox' \in Seq(Terminal) /\ outbox' \in Seq(committed)
      BY <1>1 DEF Publish
    <2>2. UNCHANGED <<status, worker, committed, stream, initial, polls, attempts, told>>
      BY <1>1 DEF Publish
    <2>3. \/ UNCHANGED inbox
          \/ inbox' = [c \in Client |-> IF stream[c] = "listening" THEN Append(inbox[c], Head(outbox))
                                                                  ELSE inbox[c]]
      BY <1>1 DEF Publish
    <2>a. ASSUME NEW c \in Client
          PROVE  /\ Append(inbox[c], Head(outbox)) \in Seq(Terminal)
                 /\ Append(inbox[c], Head(outbox)) \in Seq(committed)
                 /\ inbox[c] \in Seq(Terminal) /\ inbox[c] \in Seq(committed)
      <3>1. inbox[c] \in Seq(Terminal) /\ inbox[c] \in Seq(committed)
        OBVIOUS
      <3> HIDE DEF Terminal
      <3> QED
        BY <2>1, <3>1
    <2>4. inbox' \in [Client -> Seq(Terminal)]
      <3> HIDE DEF Terminal
      <3> QED
        BY <2>3, <2>a DEF TypeOK
    <2>5. \A c \in Client : inbox'[c] \in Seq(committed)
      BY <2>3, <2>a
    <2> QED
      BY <2>1, <2>2, <2>4, <2>5 DEF ToldTheTruth
  <1>2. CASE Start \/ Finish \/ Fail \/ FailSilently \/ Purge
    <2>1. /\ committed \subseteq committed' /\ status' \in committed' /\ status' \in JobStatus
          /\ committed' \subseteq JobStatus /\ worker' \in {"idle", "running", "finished", "failed"}
          /\ UNCHANGED <<stream, initial, inbox, polls, attempts, told>>
      BY <1>2 DEF Start, Finish, Fail, FailSilently, Purge
    <2>2. outbox' \in Seq(Terminal) /\ (outbox' = outbox \/ outbox' \in Seq(committed'))
      <3>1. CASE Start \/ FailSilently \/ Purge
        BY <3>1 DEF Start, FailSilently, Purge
      <3>2. CASE Finish
        <4>1. PICK s \in Terminal \ {"failed"} : Commit(s) /\ outbox' = <<s>>
          BY <3>2 DEF Finish
        <4>2. s \in committed' /\ s \in Terminal
          BY <4>1
        <4> HIDE DEF Terminal
        <4> QED
          BY <4>1, <4>2
      <3>3. CASE Fail
        <4>1. outbox' = <<"failed", "failed">> /\ "failed" \in committed' /\ "failed" \in Terminal
          BY <3>3 DEF Fail
        <4> HIDE DEF Terminal
        <4> QED
          BY <4>1
      <3> QED
        BY <1>2, <3>1, <3>2, <3>3
    <2>3. outbox' \in Seq(committed') /\ \A c \in Client : inbox'[c] \in Seq(committed')
      BY <2>1, <2>2, MoreStatuses
    <2> QED
      BY <2>1, <2>2, <2>3 DEF ToldTheTruth
  <1> QED
    BY <1>1, <1>2 DEF WorkerStep

(* The end of a stream.                                                    *)
LEMMA StreamTypes ==
  ASSUME TypeOK, NEW c \in Client, NEW n \in 0..MaxReconnects, NEW end \in {"gaveup", "cutoff"},
         StreamEnds(c, n, end)
  PROVE  /\ stream' \in [Client -> {"connect", "opened", "listening", "stopped", "gaveup", "cutoff",
                                    "closed"}]
         /\ attempts' \in [Client -> 0..MaxReconnects]
         /\ polls' \in [Client -> 0..MaxPolls]
         /\ inbox' = [inbox EXCEPT ![c] = <<>>]
PROOF
  <1>1. n < MaxReconnects => n + 1 \in 0..MaxReconnects
    BY EventsAssumption
  <1>2. /\ stream' = [stream EXCEPT ![c] = "connect"] \/ stream' = [stream EXCEPT ![c] = end]
        /\ attempts' = [attempts EXCEPT ![c] = n] \/ (n < MaxReconnects /\ attempts' = [attempts EXCEPT ![c] = n + 1])
        /\ inbox' = [inbox EXCEPT ![c] = <<>>] /\ polls' = [polls EXCEPT ![c] = 0]
    BY DEF StreamEnds
  <1>3. 0 \in 0..MaxPolls
    BY EventsAssumption
  <1> QED
    BY <1>1, <1>2, <1>3 DEF TypeOK

(* An emptied subscription is one still.                                   *)
LEMMA Emptied ==
  ASSUME TypeOK, Recorded, NEW c \in Client, inbox' = [inbox EXCEPT ![c] = <<>>]
  PROVE  /\ inbox' \in [Client -> Seq(Terminal)]
         /\ \A d \in Client : inbox'[d] \in Seq(committed)
PROOF
  <1>1. <<>> \in Seq(Terminal) /\ <<>> \in Seq(committed)
    OBVIOUS
  <1> QED
    BY <1>1 DEF TypeOK, Recorded

(* What the tracker does with a status it receives.                        *)
LEMMA DeliverTypes ==
  ASSUME TypeOK, Recorded, NEW c \in Client, NEW s \in committed \cap Terminal, Deliver(c, s)
  PROVE  /\ stream' \in [Client -> {"connect", "opened", "listening", "stopped", "gaveup", "cutoff",
                                    "closed"}]
         /\ attempts' \in [Client -> 0..MaxReconnects]
         /\ polls' \in [Client -> 0..MaxPolls]
         /\ inbox' = [inbox EXCEPT ![c] = <<>>]
         /\ told' = told \/ told' = [told EXCEPT ![c] = s]
PROOF
  <1>0. 0 \in 0..MaxReconnects /\ 0 \in 0..MaxPolls
    BY EventsAssumption
  <1>1. CASE s \in Known
    BY <1>0, <1>1 DEF Deliver, TypeOK
  <1>2. CASE s \notin Known
    BY <1>0, <1>2, StreamTypes DEF Deliver
  <1> QED
    BY <1>1, <1>2

(* The steps of a tab and its stream.                                      *)
LEMMA ClientTypes ==
  ASSUME TypeOK, Recorded, NEW c \in Client, ClientStep(c) \/ Drop(c) \/ Unsubscribe(c)
  PROVE  TypeOK' /\ Recorded'
PROOF
  <1> USE DEF jobvars
  <1>1. CASE Open(c)
    BY <1>1 DEF Open, TypeOK, Recorded, ToldTheTruth
  <1>2. ASSUME UNCHANGED <<jobvars, initial>>, NEW s \in committed \cap Terminal, Deliver(c, s)
        PROVE  TypeOK' /\ Recorded'
    <2>1. /\ told' \in [Client -> Terminal \cup {None}]
          /\ \A d \in Client : told'[d] # None => told'[d] \in committed
      <3>1. told' = told \/ told' = [told EXCEPT ![c] = s]
        BY <1>2, DeliverTypes
      <3> QED
        BY <1>2, <3>1 DEF TypeOK, Recorded, ToldTheTruth
    <2>2. /\ inbox' \in [Client -> Seq(Terminal)]
          /\ \A d \in Client : inbox'[d] \in Seq(committed)
      BY <1>2, DeliverTypes, Emptied
    <2> QED
      BY <1>2, <2>1, <2>2, DeliverTypes DEF TypeOK, Recorded, ToldTheTruth
  <1>3. CASE AnswerAtOnce(c)
    <2>1. initial[c] \in committed \cap Terminal /\ Deliver(c, initial[c])
      BY <1>3 DEF AnswerAtOnce, Recorded
    <2> QED
      BY <1>2, <1>3, <2>1 DEF AnswerAtOnce
  <1>4. CASE Receive(c)
    <2>1. inbox[c] \in Seq(committed) /\ inbox[c] \in Seq(Terminal) /\ inbox[c] # <<>>
      BY <1>4 DEF Receive, TypeOK, Recorded
    <2>2. Head(inbox[c]) \in committed \cap Terminal /\ Deliver(c, Head(inbox[c]))
      BY <1>4, <2>1 DEF Receive
    <2> QED
      BY <1>2, <1>4, <2>2 DEF Receive
  <1>5. CASE Subscribe(c)
    BY <1>5 DEF Subscribe, TypeOK, Recorded, ToldTheTruth
  <1>6. CASE Ping(c)
    <2>1. polls[c] + 1 \in 0..MaxPolls
      BY <1>6, EventsAssumption DEF Ping, TypeOK
    <2> QED
      BY <1>6, <2>1 DEF Ping, TypeOK, Recorded, ToldTheTruth
  <1>7. CASE Expire(c) \/ Drop(c)
    <2>1. \E end \in {"gaveup", "cutoff"} : StreamEnds(c, attempts[c], end)
      BY <1>7 DEF Expire, Drop
    <2>2. attempts[c] \in 0..MaxReconnects
      BY DEF TypeOK
    <2>3. /\ stream' \in [Client -> {"connect", "opened", "listening", "stopped", "gaveup", "cutoff",
                                     "closed"}]
          /\ attempts' \in [Client -> 0..MaxReconnects]
          /\ polls' \in [Client -> 0..MaxPolls]
          /\ inbox' = [inbox EXCEPT ![c] = <<>>]
      BY <2>1, <2>2, StreamTypes
    <2>4. UNCHANGED <<jobvars, initial, told>>
      BY <1>7 DEF Expire, Drop
    <2> QED
      BY <2>3, <2>4, Emptied DEF TypeOK, Recorded, ToldTheTruth
  <1>8. CASE Unsubscribe(c)
    <2>1. stream' = [stream EXCEPT ![c] = "closed"] /\ inbox' = [inbox EXCEPT ![c] = <<>>]
          /\ UNCHANGED <<jobvars, initial, polls, attempts, told>>
      BY <1>8 DEF Unsubscribe
    <2> QED
      BY <2>1, Emptied DEF TypeOK, Recorded, ToldTheTruth
  <1> QED
    BY <1>1, <1>3, <1>4, <1>5, <1>6, <1>7, <1>8 DEF ClientStep

(* Every reachable state has the declared types, and records what is told. *)
THEOREM TypeCorrect == Spec => [](TypeOK /\ Recorded)
PROOF
  <1>1. ASSUME Init PROVE TypeOK /\ Recorded
    <2>1. <<>> \in Seq(Terminal) /\ <<>> \in Seq(committed) /\ 0 \in 0..MaxPolls /\ 0 \in 0..MaxReconnects
      BY EventsAssumption
    <2> QED
      BY <1>1, <2>1 DEF Init, TypeOK, Recorded, ToldTheTruth, JobStatus
  <1>2. TypeOK /\ Recorded /\ [Next]_vars => (TypeOK /\ Recorded)'
    <2>1. CASE UNCHANGED vars
      BY <2>1 DEF TypeOK, Recorded, ToldTheTruth, vars, jobvars
    <2> QED
      BY <2>1, WorkerTypes, ClientTypes DEF Next, WorkerStep
  <1> QED
    BY <1>1, <1>2, PTL DEF Spec

(* A tracker only ever reports a terminal status the job really had, even  *)
(* when the status changes between commit, publish, read and subscribe.    *)
THEOREM ToldTheTruthAlways == Spec => []ToldTheTruth
PROOF
  <1>1. Recorded => ToldTheTruth
    BY DEF Recorded
  <1> QED
    BY <1>1, TypeCorrect, PTL
-----------------------------------------------------------------------------
(* A tracker stops exactly when it has reported an outcome the page knows, *)
(* and one that ends without has used up its reconnections.                *)
EndsWithCause ==
  \A c \in Client :
    /\ stream[c] = "stopped" <=> told[c] # None
    /\ told[c] \in Known \cup {None}
    /\ stream[c] \in {"gaveup", "cutoff"} => attempts[c] = MaxReconnects

(* A stream that ends without an outcome is opened again while there are   *)
(* reconnections left.                                                     *)
LEMMA EndHasCause ==
  ASSUME TypeOK, EndsWithCause, NEW c \in Client, stream[c] \in {"opened", "listening"},
         NEW n \in 0..MaxReconnects, NEW end \in {"gaveup", "cutoff"},
         StreamEnds(c, n, end), UNCHANGED told
  PROVE  EndsWithCause'
PROOF
  <1>1. \A d \in Client : d # c => stream'[d] = stream[d] /\ attempts'[d] = attempts[d]
    BY DEF StreamEnds, TypeOK
  <1>2. \/ stream'[c] = "connect"
        \/ stream'[c] = end /\ attempts'[c] = n /\ n = MaxReconnects
    <2>1. n < MaxReconnects \/ n = MaxReconnects
      BY EventsAssumption
    <2> QED
      BY <2>1, EventsAssumption DEF StreamEnds, TypeOK
  <1>3. told[c] = None
    BY DEF EndsWithCause
  <1> QED
    BY <1>1, <1>2, <1>3 DEF EndsWithCause

(* A status it receives ends the tracker, or its stream.                   *)
LEMMA DeliverHasCause ==
  ASSUME TypeOK, EndsWithCause, NEW c \in Client, stream[c] \in {"opened", "listening"},
         NEW s \in Terminal, Deliver(c, s)
  PROVE  EndsWithCause'
PROOF
  <1>0. 0 \in 0..MaxReconnects /\ told[c] = None
    BY EventsAssumption DEF EndsWithCause
  <1>1. CASE s \in Known
    <2>1. /\ told' = [told EXCEPT ![c] = s] /\ stream' = [stream EXCEPT ![c] = "stopped"]
          /\ attempts' = [attempts EXCEPT ![c] = 0] /\ s # None
      BY <1>1 DEF Deliver, Known, None
    <2>2. /\ \A d \in Client : d # c => /\ told'[d] = told[d] /\ stream'[d] = stream[d]
                                        /\ attempts'[d] = attempts[d]
          /\ told'[c] = s /\ stream'[c] = "stopped"
      BY <2>1 DEF TypeOK
    <2> QED
      BY <1>0, <1>1, <2>1, <2>2 DEF EndsWithCause
  <1>2. CASE s \notin Known
    <2>1. StreamEnds(c, 0, "gaveup") /\ UNCHANGED told
      BY <1>2 DEF Deliver
    <2>2. EndsWithCause'
      BY <1>0, <2>1, EndHasCause
    <2> QED
      BY <2>1, <2>2
  <1> QED
    BY <1>1, <1>2

(* Every step preserves the invariant.                                     *)
LEMMA StepHasCause ==
  ASSUME TypeOK, EndsWithCause, [Next]_vars
  PROVE  EndsWithCause'
PROOF
  <1>1. CASE WorkerStep \/ UNCHANGED vars
    <2>1. UNCHANGED <<stream, attempts, told>>
      BY <1>1 DEF WorkerStep, Start, Finish, Fail, Publish, FailSilently, Purge, vars
    <2> QED
      BY <2>1 DEF EndsWithCause
  <1>2. ASSUME NEW c \in Client, AnswerAtOnce(c) \/ Receive(c)
        PROVE  EndsWithCause'
    <2>1. stream[c] \in {"opened", "listening"}
      BY <1>2 DEF AnswerAtOnce, Receive
    <2>2. \E s \in Terminal : Deliver(c, s)
      <3>1. CASE AnswerAtOnce(c)
        BY <3>1 DEF AnswerAtOnce
      <3>2. CASE Receive(c)
        <4>1. inbox[c] \in Seq(Terminal) /\ inbox[c] # <<>> /\ Deliver(c, Head(inbox[c]))
          BY <3>2 DEF Receive, TypeOK
        <4>2. Head(inbox[c]) \in Terminal
          <5> HIDE DEF Terminal
          <5> QED
            BY <4>1
        <4> QED
          BY <4>1, <4>2
      <3> QED
        BY <1>2, <3>1, <3>2
    <2> QED
      BY <2>1, <2>2, DeliverHasCause
  <1>3. ASSUME NEW c \in Client, Expire(c) \/ Drop(c)
        PROVE  EndsWithCause'
    <2>1. /\ stream[c] \in {"opened", "listening"} /\ UNCHANGED told
          /\ \E end \in {"gaveup", "cutoff"} : StreamEnds(c, attempts[c], end)
      BY <1>3 DEF Expire, Drop
    <2>2. attempts[c] \in 0..MaxReconnects
      BY DEF TypeOK
    <2> QED
      BY <2>1, <2>2, EndHasCause
  <1>4. ASSUME NEW c \in Client, Open(c) \/ Subscribe(c) \/ Ping(c) \/ Unsubscribe(c)
        PROVE  EndsWithCause'
    <2>1. /\ UNCHANGED <<attempts, told>> /\ stream[c] \in {"connect", "opened", "listening"}
          /\ \A d \in Client : d # c => stream'[d] = stream[d]
          /\ stream'[c] \in {"opened", "listening", "closed"}
      BY <1>4 DEF Open, Subscribe, Ping, Unsubscribe, TypeOK
    <2>2. told[c] = None
      BY <2>1 DEF EndsWithCause
    <2> QED
      BY <2>1, <2>2 DEF EndsWithCause
  <1> QED
    BY <1>1, <1>2, <1>3, <1>4 DEF Next, ClientStep, WorkerStep

(* No tracker stops without an outcome or gives up before its last         *)
(* reconnection: the safety half of TrackersEnd.                           *)
THEOREM EndsWithCauseAlways == Spec => []EndsWithCause
PROOF
  <1>1. Init => EndsWithCause
    BY DEF Init, EndsWithCause
  <1>2. TypeOK /\ EndsWithCause /\ [Next]_vars => EndsWithCause'
    BY StepHasCause
  <1> QED
    BY <1>1, <1>2, TypeCorrect, PTL DEF Spec

-----------------------------------------------------------------------------
(* The stream implements Reporter.                                         *)
Listening == {c \in Client : stream[c] \in {"connect", "opened", "listening"}}

(* A tracker that hears nothing stays or leaves.                           *)
LEMMA StaysOrLeaves ==
  ASSUME TypeOK, UNCHANGED <<committed, told>>, NEW c \in Listening,
         \E s : stream' = [stream EXCEPT ![c] = s]
  PROVE  UNCHANGED R!vars \/ R!Leave(c)
PROOF
  <1>1. \A d \in Client : d # c => stream'[d] = stream[d]
    BY DEF TypeOK
  <1>2. Listening' = Listening \/ Listening' = Listening \ {c}
    BY <1>1 DEF Listening
  <1> QED
    BY <1>2 DEF R!vars, R!Leave, Listening

(* A status it receives is heard, when the parser knows it.                *)
LEMMA DeliverReports ==
  ASSUME TypeOK, UNCHANGED committed, NEW c \in Listening, NEW s \in committed \cap Terminal, Deliver(c, s)
  PROVE  UNCHANGED R!vars \/ R!Leave(c) \/ R!Hear(c)
PROOF
  <1>1. CASE s \in Known
    <2>1. told' = [told EXCEPT ![c] = s] /\ stream' = [stream EXCEPT ![c] = "stopped"]
      BY <1>1 DEF Deliver
    <2>2. Listening' = Listening \ {c}
      BY <2>1 DEF Listening, TypeOK
    <2>3. R!Hear(c)
      BY <1>1, <2>1, <2>2 DEF R!Hear, Listening
    <2> QED
      BY <2>3
  <1>2. CASE s \notin Known
    <2>1. told' = told /\ \E e : stream' = [stream EXCEPT ![c] = e]
      BY <1>2 DEF Deliver, StreamEnds
    <2> QED
      BY <2>1, StaysOrLeaves
  <1> QED
    BY <1>1, <1>2

(* A step of a tab is its listener's step.                                 *)
LEMMA ClientReports ==
  ASSUME TypeOK, Recorded, NEW c \in Client, ClientStep(c) \/ Drop(c) \/ Unsubscribe(c)
  PROVE  UNCHANGED R!vars \/ R!Leave(c) \/ R!Hear(c)
PROOF
  <1>0. c \in Listening /\ committed' = committed
    BY DEF ClientStep, Open, AnswerAtOnce, Subscribe, Receive, Ping, Expire, Drop, Unsubscribe, Listening, jobvars
  <1>1. CASE AnswerAtOnce(c)
    <2>1. initial[c] \in committed \cap Terminal /\ Deliver(c, initial[c])
      BY <1>1 DEF AnswerAtOnce, Recorded
    <2> QED
      BY <1>0, <2>1, DeliverReports
  <1>2. CASE Receive(c)
    <2>1. /\ inbox[c] \in Seq(committed) /\ inbox[c] \in Seq(Terminal) /\ inbox[c] # <<>>
          /\ Deliver(c, Head(inbox[c]))
      BY <1>2 DEF Receive, TypeOK, Recorded
    <2>2. Head(inbox[c]) \in committed \cap Terminal
      <3> HIDE DEF Terminal
      <3> QED
        BY <2>1
    <2> QED
      BY <1>0, <2>1, <2>2, DeliverReports
  <1>3. CASE Open(c) \/ Subscribe(c) \/ Unsubscribe(c)
    <2>1. told' = told /\ \E s : stream' = [stream EXCEPT ![c] = s]
      BY <1>3 DEF Open, Subscribe, Unsubscribe
    <2> QED
      BY <1>0, <2>1, StaysOrLeaves
  <1>4. CASE Expire(c) \/ Drop(c)
    <2>1. told' = told /\ \E s : stream' = [stream EXCEPT ![c] = s]
      BY <1>4 DEF Expire, Drop, StreamEnds
    <2> QED
      BY <1>0, <2>1, StaysOrLeaves
  <1>5. CASE Ping(c)
    BY <1>0, <1>5 DEF Ping, R!vars
  <1> QED
    BY <1>1, <1>2, <1>3, <1>4, <1>5 DEF ClientStep

(* Whatever is published twice, missed, overtaken or read again by another *)
(* stream, a tracker reports one outcome at most, one the job really had,  *)
(* and is silent from then on.                                             *)
THEOREM ImplementsReporterAlways == Spec => ImplementsReporter
PROOF
  <1>1. Init => R!Init
    BY DEF Init, R!Init, JobStatus
  <1>2. TypeOK /\ Recorded /\ [Next]_vars => [R!Next]_(R!vars)
    <2>1. CASE UNCHANGED vars
      BY <2>1 DEF vars, jobvars, R!vars
    <2>2. ASSUME WorkerStep PROVE [R!Next]_(R!vars)
      <3>1. UNCHANGED <<stream, told>> /\ (committed' = committed \/ \E s \in JobStatus : Commit(s))
        BY <2>2 DEF WorkerStep, Start, Finish, Fail, Publish, FailSilently, Purge, JobStatus, Terminal
      <3> QED
        BY <3>1 DEF Commit, R!Next, R!Happen, R!vars
    <2>3. ASSUME TypeOK, Recorded, NEW c \in Client, ClientStep(c) \/ Drop(c) \/ Unsubscribe(c)
          PROVE  [R!Next]_(R!vars)
      BY <2>3, ClientReports DEF R!Next
    <2> QED
      BY <2>1, <2>2, <2>3 DEF Next, WorkerStep
  <1> QED
    BY <1>1, <1>2, TypeCorrect, PTL DEF Spec, ImplementsReporter, R!Spec
=============================================================================
