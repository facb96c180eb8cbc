--------------------------- MODULE PracticeProofs ----------------------------
(***************************************************************************)
(* Theorems about Practice, for any number of requests and questions and   *)
(* every set of disturbances.                                              *)
(***************************************************************************)
EXTENDS Practice, FiniteSetTheorems, WellFoundedInduction, TLAPS

(* A set of numbers has a least one.                                       *)
LEMMA Least ==
  ASSUME NEW S \in SUBSET Nat, S # {}
  PROVE  \E i \in S : \A k \in S : i <= k
PROOF
  <1> DEFINE R == OpToRel(<, Nat)
  <1>1. IsWellFoundedOn(R, Nat)
    BY NatLessThanWellFounded
  <1>2. \A x \in Nat : \A y \in Nat : x < y => <<x, y>> \in R
    BY DEF OpToRel
  <1> HIDE DEF R
  <1>3. PICK x \in S : \A y \in S : ~(<<y, x>> \in R)
    BY <1>1, WFMin
  <1>4. x \in Nat /\ \A k \in S : k \in Nat /\ ~(k < x)
    BY <1>2, <1>3
  <1> QED
    BY <1>4

(* The questions of a list.                                                *)
LEMMA ListTypes ==
  ASSUME NEW q \in 1..2
  PROVE  List(q) \subseteq 1..2 * Size
PROOF
  <1>1. CASE q = 1
    BY <1>1, PracticeAssumption DEF List
  <1>2. CASE q = 2
    BY <1>2, PracticeAssumption DEF List
  <1> QED
    BY <1>1, <1>2

(* The question shown is one of those still open, and 0 only when there is *)
(* none.                                                                   *)
LEMMA CurrentTypes ==
  ASSUME NEW v, NEW q \in 0..2
  PROVE  /\ Current(v, q) \in 0..2 * Size
         /\ q # 0 /\ Current(v, q) = 0 => Open(v, q) = {}
PROOF
  <1>1. CASE q = 0 \/ Open(v, q) = {}
    BY <1>1, PracticeAssumption DEF Current
  <1>2. CASE q # 0 /\ Open(v, q) # {}
    <2>1. Open(v, q) \subseteq List(q) /\ q \in 1..2
      BY <1>2 DEF Open
    <2>2. Open(v, q) \subseteq 1..2 * Size
      BY <2>1, ListTypes
    <2>3. Open(v, q) \in SUBSET Nat
      BY <2>2, PracticeAssumption
    <2>4. \E i \in Open(v, q) : \A k \in Open(v, q) : i <= k
      BY <1>2, <2>3, Least
    <2>5. Current(v, q) = CHOOSE i \in Open(v, q) : \A k \in Open(v, q) : i <= k
      BY <1>2 DEF Current
    <2>6. Current(v, q) \in Open(v, q)
      BY <2>4, <2>5
    <2> QED
      BY <2>2, <2>6, PracticeAssumption
  <1> QED
    BY <1>1, <1>2

(* So is the question on the page.                                         *)
LEMMA ShownTypes ==
  ASSUME TypeOK
  PROVE  Shown \in 0..2 * Size
PROOF
  BY CurrentTypes, PracticeAssumption DEF TypeOK, Shown

(* What another answer adds to the log.                                    *)
LEMMA AppendElements ==
  ASSUME NEW s \in Seq(Request), NEW r \in Request
  PROVE  /\ Append(s, r) \in Seq(Request) /\ Len(Append(s, r)) = Len(s) + 1 /\ Len(s) \in Nat
         /\ Elements(Append(s, r)) = Elements(s) \cup {r}
PROOF
  <1>1. Append(s, r) \in Seq(Request) /\ Len(Append(s, r)) = Len(s) + 1 /\ Len(s) \in Nat
    OBVIOUS
  <1>2. \A i \in 1..Len(s) : Append(s, r)[i] = s[i]
    OBVIOUS
  <1>3. Append(s, r)[Len(s) + 1] = r
    OBVIOUS
  <1>4. DOMAIN s = 1..Len(s) /\ DOMAIN Append(s, r) = 1..Len(s) + 1
    BY <1>1
  <1>5. 1..Len(s) + 1 = (1..Len(s)) \cup {Len(s) + 1}
    BY <1>1
  <1> QED
    BY <1>1, <1>2, <1>3, <1>4, <1>5 DEF Elements

-----------------------------------------------------------------------------
(* An answer is stored once: its request has gone past storing it.         *)
Stored ==
  /\ IsFiniteSet(Elements(log))
  /\ \A r \in Elements(log) : req[r] \in {"stored", "over"}

(* The page's steps, and what reaches it.                                  *)
PageStep ==
  \/ Query \/ FetchFails \/ Generate \/ StartRecording \/ Reload
  \/ \E r \in Request : SubmitText(r) \/ StopRecording(r) \/ Uploaded(r) \/ GiveUp(r) \/ Acknowledge(r)

(* They leave the server's rows alone; a request that begins was idle, and *)
(* one that is loaded or further stays where it is.                        *)
LEMMA PageFrame ==
  ASSUME TypeOK, PageStep
  PROVE  /\ UNCHANGED <<rowvars, scorevars, copy>>
         /\ \A r \in Request : /\ req[r] \in {"loaded", "stored", "over"} => req'[r] = req[r]
                               /\ req'[r] \in {"loaded", "stored"} => req'[r] = req[r]
                               /\ req[r] # "idle" => asked'[r] = asked[r]
PROOF
  <1> USE DEF TypeOK, scorevars, reqvars
  <1>1. CASE Query
    BY <1>1 DEF Query, Poll, ReadSession, Deliver
  <1>2. CASE FetchFails \/ Generate \/ StartRecording
    BY <1>2 DEF FetchFails, Generate, StartRecording
  <1>3. CASE Reload
    BY <1>3 DEF Reload
  <1>4. ASSUME NEW r \in Request,
               SubmitText(r) \/ StopRecording(r) \/ Uploaded(r) \/ GiveUp(r) \/ Acknowledge(r)
        PROVE  /\ UNCHANGED <<rowvars, scorevars, copy>>
               /\ req' = req \/ \E s \in {"post", "upload", "over"} :
                                  /\ req' = [req EXCEPT ![r] = s] /\ req[r] \in {"idle", "upload"}
               /\ asked' = asked \/ (req[r] = "idle" /\ \E i : asked' = [asked EXCEPT ![r] = i])
    BY <1>4 DEF SubmitText, StopRecording, Uploaded, GiveUp, Acknowledge
  <1>5. CASE \E r \in Request : SubmitText(r) \/ StopRecording(r) \/ Uploaded(r) \/ GiveUp(r) \/ Acknowledge(r)
    BY <1>4, <1>5
  <1> QED
    BY <1>1, <1>2, <1>3, <1>5 DEF PageStep

(* They keep the types.                                                    *)
LEMMA PageTypes ==
  ASSUME TypeOK, PageStep
  PROVE  TypeOK'
PROOF
  <1> USE DEF rowvars, scorevars, reqvars, queryvars, pagevars
  <1>0. Shown \in 0..2 * Size /\ UNCHANGED <<rowvars, scorevars, copy>> /\ 0 \in 0..2 * Size
    BY ShownTypes, PageFrame, PracticeAssumption
  <1>1. CASE Poll
    BY <1>1 DEF Poll, TypeOK
  <1>2. CASE ReadSession
    <2>1. IsView([log |-> log, result |-> result, loaded |-> TRUE])
      BY DEF IsView, TypeOK
    <2> QED
      BY <1>2, <2>1 DEF ReadSession, TypeOK
  <1>3. CASE Deliver
    <2>1. rec' \in 0..2 * Size
      BY <1>0, <1>3 DEF Deliver, TypeOK
    <2> QED
      BY <1>3, <2>1 DEF Deliver, TypeOK
  <1>4. CASE FetchFails
    <2>1. faults' \in 0..MaxFaults
      BY <1>4, PracticeAssumption DEF FetchFails, Disturb, TypeOK
    <2> QED
      BY <1>0, <1>4, <2>1 DEF FetchFails, TypeOK
  <1>5. CASE Generate \/ StartRecording
    BY <1>0, <1>5 DEF Generate, StartRecording, TypeOK
  <1>6. CASE Reload
    <2>1. IsView(NoView)
      BY DEF IsView, NoView, Result
    <2>2. faults' \in 0..MaxFaults
      BY <1>6, PracticeAssumption DEF Reload, Disturb, TypeOK
    <2>3. /\ req' \in [Request -> {"idle", "upload", "post", "loaded", "stored", "over"}]
          /\ reply' \in [Request -> {"none", "waiting", "ok", "error", "gone"}]
      BY <1>6 DEF Reload, TypeOK
    <2>4. /\ questions' \in 0..2 /\ view' = NoView /\ asking' \in BOOLEAN /\ answers' = {}
          /\ broken' = FALSE /\ latest' = Nobody /\ rec' = 0
          /\ UNCHANGED <<rowvars, scorevars, asked, text, copy, missed>>
      BY <1>6 DEF Reload, TypeOK
    <2> QED
      BY <1>0, <2>1, <2>2, <2>3, <2>4 DEF TypeOK
  <1>7. ASSUME NEW r \in Request, SubmitText(r) \/ StopRecording(r) \/ Uploaded(r) \/ GiveUp(r) \/ Acknowledge(r)
        PROVE  TypeOK'
    <2>1. CASE SubmitText(r)
      BY <1>0, <2>1 DEF SubmitText, TypeOK
    <2>2. CASE StopRecording(r)
      BY <1>0, <2>2 DEF StopRecording, TypeOK
    <2>3. CASE Uploaded(r)
      BY <1>0, <2>3 DEF Uploaded, TypeOK
    <2>4. CASE GiveUp(r)
      <3>1. faults' \in 0..MaxFaults
        BY <2>4, PracticeAssumption DEF GiveUp, Disturb, TypeOK
      <3> QED
        BY <2>4, <3>1 DEF GiveUp, TypeOK
    <2>5. CASE Acknowledge(r)
      BY <2>5 DEF Acknowledge, Invalidate, TypeOK
    <2> QED
      BY <1>7, <2>1, <2>2, <2>3, <2>4, <2>5
  <1> QED
    BY <1>1, <1>2, <1>3, <1>4, <1>5, <1>6, <1>7 DEF PageStep, Query

(* The server's and the worker's steps.                                    *)
ServerStep(r) == Serve(r) \/ FinishJob(r) \/ KillJob(r)

(* They keep the types, and no answer is stored twice.                     *)
LEMMA ServerTypes ==
  ASSUME TypeOK, Stored, NEW r \in Request, ServerStep(r)
  PROVE  TypeOK' /\ Stored'
PROOF
  <1> USE DEF scorevars, reqvars, queryvars, pagevars
  <1>1. CASE LoadSession(r)
    <2>1. TypeOK'
      BY <1>1 DEF LoadSession, TypeOK
    <2>2. Stored'
      BY <1>1 DEF LoadSession, TypeOK, Stored
    <2> QED
      BY <2>1, <2>2
  <1>2. CASE StoreAnswer(r)
    <2>1. /\ log' = Append(log, r) /\ req[r] = "loaded"
          /\ req' = [req EXCEPT ![r] = IF text[r] THEN "stored" ELSE "over"]
      BY <1>2 DEF StoreAnswer
    <2>2. /\ log' \in Seq(Request) /\ Len(log') = Len(log) + 1
          /\ Elements(log') = Elements(log) \cup {r}
      BY <2>1, AppendElements DEF TypeOK
    <2>3. r \notin Elements(log)
      BY <2>1 DEF Stored
    <2>4. /\ IsFiniteSet(Elements(log'))
          /\ Cardinality(Elements(log')) = Len(log')
      <3>1. IsFiniteSet(Elements(log)) /\ Cardinality(Elements(log)) = Len(log)
        BY DEF Stored, TypeOK
      <3> QED
        BY <2>2, <2>3, <3>1, FS_AddElement
    <2>5. row' \in Row /\ NoCopy \in Row
      <3>1. row \in Row /\ copy[r] \in Row
        BY DEF TypeOK
      <3> QED
        BY <1>2, <3>1 DEF StoreAnswer, Row, NoCopy, Status
    <2>6. /\ result' \in [Request -> Result] /\ copy' \in [Request -> Row]
          /\ text' \in [Request -> BOOLEAN]
          /\ req' \in [Request -> {"idle", "upload", "post", "loaded", "stored", "over"}]
      BY <1>2, <2>5 DEF StoreAnswer, TypeOK, Result
    <2>7. UNCHANGED <<mode, overlap, job, mishap, asked, reply, view, asking, answers, broken, missed,
                      questions, latest, rec, faults>>
      BY <1>2 DEF StoreAnswer
    <2>8. TypeOK'
      BY <2>2, <2>4, <2>5, <2>6, <2>7 DEF TypeOK
    <2>9. Stored'
      <3>1. Elements(log)' = Elements(log) \cup {r}
        BY <2>2 DEF Elements
      <3>2. \A q \in Elements(log) : q \in Request
        BY DEF Elements, TypeOK
      <3> QED
        BY <2>1, <2>4, <3>1, <3>2 DEF Stored, TypeOK, Elements
    <2> QED
      BY <2>8, <2>9
  <1>3. CASE EnqueueFeedback(r)
    <2>1. TypeOK'
      BY <1>3, PracticeAssumption DEF EnqueueFeedback, Disturb, TypeOK, rowvars
    <2>2. Stored'
      BY <1>3 DEF EnqueueFeedback, TypeOK, Stored, rowvars
    <2> QED
      BY <2>1, <2>2
  <1>4. CASE FinishJob(r)
    BY <1>4 DEF FinishJob, TypeOK, Result, rowvars, Stored
  <1>5. CASE KillJob(r)
    BY <1>5, PracticeAssumption DEF KillJob, Disturb, TypeOK, rowvars, Stored
  <1> QED
    BY <1>1, <1>2, <1>3, <1>4, <1>5 DEF ServerStep, Serve

(* Every reachable state has the declared types, and no answer is stored   *)
(* twice.                                                                  *)
THEOREM TypeCorrect == Spec => [](TypeOK /\ Stored)
PROOF
  <1>1. ASSUME Init PROVE TypeOK /\ Stored
    <2>1. Elements(log) = {} /\ IsFiniteSet(Elements(log)) /\ Cardinality(Elements(log)) = 0 /\ log \in Seq(Request)
      <3>1. Elements(log) = {} /\ log \in Seq(Request)
        BY <1>1 DEF Init, Elements
      <3> QED
        BY <3>1, FS_EmptySet
    <2>2. IsView(NoView) /\ NoCopy \in Row /\ row \in Row
      BY <1>1 DEF Init, IsView, NoView, Result, NoCopy, Row, Status
    <2>3. Len(log) = 0 /\ 0 \in 0..2 * Size /\ 0 \in 0..MaxFaults /\ questions \in 0..2
      BY <1>1, PracticeAssumption DEF Init
    <2>4. mode \in Modes /\ latest \in Request \cup {Nobody} /\ mishap \subseteq Request
      BY <1>1 DEF Init
    <2>5. TypeOK
      BY <1>1, <2>1, <2>2, <2>3, <2>4 DEF Init, TypeOK, Result
    <2>6. Stored
      BY <2>1 DEF Stored
    <2> QED
      BY <2>5, <2>6
  <1>2. TypeOK /\ Stored /\ [Next]_vars => (TypeOK /\ Stored)'
    <2>1. CASE UNCHANGED vars
      BY <2>1 DEF TypeOK, Stored, vars, rowvars, scorevars, reqvars, queryvars, pagevars
    <2>2. ASSUME TypeOK, Stored, PageStep PROVE Stored'
      <3>1. log' = log /\ \A r \in Request : req[r] \in {"stored", "over"} => req'[r] = req[r]
        BY <2>2, PageFrame DEF rowvars
      <3>2. Elements(log) \subseteq Request
        <4>1. log \in Seq(Request)
          BY <2>2 DEF TypeOK
        <4> QED
          BY <4>1 DEF Elements
      <3> QED
        BY <2>2, <3>1, <3>2 DEF Stored
    <2> QED
      BY <2>1, <2>2, PageTypes, ServerTypes DEF Next, PageStep, ServerStep
  <1> QED
    BY <1>1, <1>2, PTL DEF Spec

-----------------------------------------------------------------------------
(* The counter of the copies: none is ahead of the log, and without an     *)
(* overlap the one that is loaded is exact.                                *)
Counted ==
  /\ CounterIsHonest
  /\ \A r \in Request : req[r] = "loaded" => /\ copy[r].attempted <= Len(log)
                                             /\ ~overlap => copy[r].attempted = Len(log)
  /\ ~overlap => \A r \in Request : \A s \in Request : req[r] = "loaded" /\ req[s] = "loaded" => r = s

(* A step of the server or a worker keeps the counters in step.            *)
LEMMA ServerCounts ==
  ASSUME TypeOK, Counted, NEW r \in Request, ServerStep(r)
  PROVE  Counted'
PROOF
  <1>0. /\ row \in Row /\ copy \in [Request -> Row] /\ Len(log) \in Nat /\ overlap \in BOOLEAN
        /\ req \in [Request -> {"idle", "upload", "post", "loaded", "stored", "over"}]
        /\ \A q \in Request : copy[q] \in Row /\ copy[q].attempted \in Nat
    BY DEF TypeOK, Row
  <1>1. CASE LoadSession(r)
    <2>1. /\ UNCHANGED <<row, log>> /\ copy' = [copy EXCEPT ![r] = row] /\ req' = [req EXCEPT ![r] = "loaded"]
      BY <1>1 DEF LoadSession
    <2>2. ~overlap' => ~overlap /\ \A q \in Request : q # r => req[q] # "loaded"
      BY <1>1 DEF LoadSession
    <2>3. \A q \in Request : q # r => copy'[q] = copy[q] /\ req'[q] = req[q]
      BY <1>0, <2>1
    <2>4. copy'[r] = row /\ req'[r] = "loaded"
      BY <1>0, <2>1
    <2> QED
      BY <1>0, <2>1, <2>2, <2>3, <2>4 DEF Counted, CounterIsHonest
  <1>2. CASE StoreAnswer(r)
    <2>1. /\ log' = Append(log, r) /\ req[r] = "loaded" /\ overlap' = overlap
          /\ row'.attempted = copy[r].attempted + 1
          /\ req' = [req EXCEPT ![r] = IF text[r] THEN "stored" ELSE "over"]
          /\ copy' = [copy EXCEPT ![r] = NoCopy]
      BY <1>2 DEF StoreAnswer
    <2>2. Len(log') = Len(log) + 1
      BY <2>1, AppendElements DEF TypeOK
    <2>3. /\ \A q \in Request : q # r => copy'[q] = copy[q] /\ req'[q] = req[q]
          /\ req'[r] # "loaded"
      BY <1>0, <2>1
    <2>4. CounterIsHonest'
      BY <1>0, <2>1, <2>2 DEF Counted, CounterIsHonest
    <2>5. ~overlap => \A q \in Request : req'[q] # "loaded"
      BY <2>1, <2>3 DEF Counted
    <2>6. \A q \in Request : req'[q] = "loaded" => copy'[q].attempted <= Len(log')
      BY <1>0, <2>2, <2>3 DEF Counted
    <2> QED
      BY <2>1, <2>4, <2>5, <2>6 DEF Counted
  <1>3. CASE EnqueueFeedback(r) \/ FinishJob(r) \/ KillJob(r)
    <2>1. UNCHANGED <<row, log, overlap, copy>> /\ \A q \in Request : req'[q] = "loaded" => req[q] = "loaded"
      BY <1>0, <1>3 DEF EnqueueFeedback, FinishJob, KillJob, rowvars, reqvars
    <2> QED
      BY <2>1 DEF Counted, CounterIsHonest
  <1> QED
    BY <1>1, <1>2, <1>3 DEF ServerStep, Serve

(* questions_attempted never counts an answer that is not stored, and is   *)
(* exact unless two requests held the row at the same time.                *)
THEOREM CounterIsHonestAlways == Spec => []CounterIsHonest
PROOF
  <1>1. Init => Counted
    BY DEF Init, Counted, CounterIsHonest
  <1>2. TypeOK /\ Counted /\ [Next]_vars => Counted'
    <2>1. CASE UNCHANGED vars
      BY <2>1 DEF Counted, CounterIsHonest, vars, rowvars, reqvars
    <2>2. ASSUME TypeOK, Counted, PageStep PROVE Counted'
      <3>1. UNCHANGED <<row, log, overlap, copy>> /\ \A q \in Request : req'[q] = "loaded" => req[q] = "loaded"
        BY <2>2, PageFrame DEF rowvars
      <3> QED
        BY <2>2, <3>1 DEF Counted, CounterIsHonest
    <2> QED
      BY <2>1, <2>2, ServerCounts DEF Next, PageStep, ServerStep
  <1>3. Counted => CounterIsHonest
    BY DEF Counted
  <1> QED
    BY <1>1, <1>2, <1>3, TypeCorrect, PTL DEF Spec

-----------------------------------------------------------------------------
(* What the page shows, and what is on its way to it, was stored.          *)
Past ==
  /\ Elements(view.log) \subseteq Elements(log)
  /\ \A v \in answers : Elements(v.log) \subseteq Elements(log)

(* "All questions answered" is shown only when each question of the page's *)
(* list has a stored answer - in sessions for a role.                      *)
THEOREM AllAnsweredIsTrueAlways == Spec => []AllAnsweredIsTrue
PROOF
  <1>1. ASSUME Init PROVE Past
    <2>1. NoView.log = <<>> /\ Elements(<<>>) = {}
      BY DEF NoView, Elements
    <2> QED
      BY <1>1, <2>1 DEF Init, Past
  <1>2. TypeOK /\ Past /\ [Next]_vars => Past'
    <2>1. CASE UNCHANGED vars
      BY <2>1 DEF Past, Elements, vars, rowvars, queryvars
    <2>2. ASSUME TypeOK, Past, PageStep PROVE Past'
      <3>1. log' = log
        BY <2>2, PageFrame DEF rowvars
      <3>2. /\ answers' \subseteq answers \cup {[log |-> log, result |-> result, loaded |-> TRUE]}
            /\ view' \in answers \cup {view, NoView}
        BY <2>2 DEF PageStep, Query, Poll, ReadSession, Deliver, FetchFails, Generate, StartRecording, Reload,
                    SubmitText, StopRecording, Uploaded, GiveUp, Acknowledge, Invalidate, queryvars
      <3>3. Elements(NoView.log) = {}
        BY DEF NoView, Elements
      <3>4. \A v \in answers' : Elements(v.log) \subseteq Elements(log)
        BY <2>2, <3>2 DEF Past
      <3>5. Elements(view'.log) \subseteq Elements(log)
        BY <2>2, <3>2, <3>3 DEF Past
      <3> QED
        BY <3>1, <3>4, <3>5 DEF Past, Elements
    <2>3. ASSUME TypeOK, Past, NEW r \in Request, ServerStep(r) PROVE Past'
      <3>1. UNCHANGED <<view, answers>>
        BY <2>3 DEF ServerStep, Serve, LoadSession, StoreAnswer, EnqueueFeedback, FinishJob, KillJob, queryvars
      <3>2. log' = log \/ log' = Append(log, r)
        BY <2>3 DEF ServerStep, Serve, LoadSession, StoreAnswer, EnqueueFeedback, FinishJob, KillJob, rowvars
      <3>3. Elements(log) \subseteq Elements(log')
        BY <2>3, <3>2, AppendElements DEF TypeOK
      <3> QED
        BY <2>3, <3>1, <3>3 DEF Past, Elements
    <2> QED
      BY <2>1, <2>2, <2>3 DEF Next, PageStep, ServerStep
  <1>3. TypeOK /\ Past => AllAnsweredIsTrue
    <2>1. SUFFICES ASSUME TypeOK, Past, mode = "bank", view.loaded, ~broken, questions # 0, Shown = 0
                   PROVE  List(questions) \subseteq {asked[r] : r \in Elements(log)}
      BY DEF AllAnsweredIsTrue
    <2>2. Open(view, questions) = {}
      BY <2>1, CurrentTypes DEF Shown, TypeOK
    <2>3. List(questions) \subseteq {asked[r] : r \in Elements(view.log)}
      BY <2>1, <2>2 DEF Open
    <2> QED
      BY <2>1, <2>3 DEF Past
  <1> QED
    BY <1>1, <1>2, <1>3, TypeCorrect, PTL DEF Spec
-----------------------------------------------------------------------------
(* One copy of a session is not ahead of another: each answer it lists is  *)
(* on the other, and what is scored, or said not to be, stays so.          *)
Settled == {"scored", "unscored"}
Later(a, b) == a \in {"absent", b} \/ (a = "pending" /\ b \in Settled)
Behind(v, w) ==
  /\ Elements(v.log) \subseteq Elements(w.log)
  /\ \A r \in Request : Later(v.result[r], w.result[r])
Snapshot == [log |-> log, result |-> result, loaded |-> TRUE]

(* A copy that is older than one that is older than a third.               *)
LEMMA BehindTransitive ==
  ASSUME NEW u, NEW v, NEW w, Behind(u, v), Behind(v, w)
  PROVE  Behind(u, w)
PROOF
  BY DEF Behind, Later, Settled

(* An answer that waits for its score has a job that will give it one, or  *)
(* a request that will queue it, unless it was not queued or was killed.   *)
ScoreIsUnderway ==
  \A r \in Request :
    result[r] = "pending" => req[r] = "stored" \/ job[r] = "queued" \/ r \in mishap

(* The strengthening: exactly the stored answers have a result, and it is  *)
(* open as long as the job is to come.                                     *)
Consistent(v) == \A r \in Request : v.result[r] = "absent" <=> r \notin Elements(v.log)
Scoring ==
  /\ Consistent(Snapshot)
  /\ \A r \in Request : req[r] = "stored" => result[r] = "pending" /\ job[r] # "queued"
  /\ \A r \in Request : job[r] = "queued" => result[r] = "pending"
  /\ ScoreIsUnderway

(* A step of the server or a worker: the rows only advance.                *)
LEMMA ServerScores ==
  ASSUME TypeOK, Stored, Scoring, NEW r \in Request, ServerStep(r)
  PROVE  Scoring' /\ Behind(Snapshot, Snapshot') /\ Elements(log) \subseteq Elements(log')
PROOF
  <1> USE DEF Snapshot
  <1>0. /\ result \in [Request -> Result] /\ job \in [Request -> {"none", "queued", "over"}]
        /\ req \in [Request -> {"idle", "upload", "post", "loaded", "stored", "over"}]
        /\ log \in Seq(Request)
    BY DEF TypeOK
  <1>1. CASE LoadSession(r) \/ EnqueueFeedback(r) \/ KillJob(r)
    <2>1. UNCHANGED <<log, result>>
      BY <1>1 DEF LoadSession, EnqueueFeedback, KillJob, rowvars, scorevars
    <2>2. /\ \A q \in Request : q # r => req'[q] = req[q] /\ job'[q] = job[q]
          /\ mishap \subseteq mishap'
          /\ req'[r] = "stored" => req[r] = "stored" /\ job'[r] # "queued"
          /\ job'[r] = "queued" => job[r] = "queued" \/ req[r] = "stored"
          /\ \/ req'[r] = req[r] \/ req[r] # "stored"
             \/ job'[r] = "queued" \/ r \in mishap'
          /\ job'[r] = job[r] \/ r \in mishap' \/ job'[r] = "queued"
      <3>1. CASE LoadSession(r)
        BY <1>0, <3>1 DEF LoadSession, scorevars
      <3>2. CASE EnqueueFeedback(r)
        BY <1>0, <3>2 DEF EnqueueFeedback, Scoring
      <3>3. CASE KillJob(r)
        BY <1>0, <3>3 DEF KillJob, reqvars
      <3> QED
        BY <1>1, <3>1, <3>2, <3>3
    <2>3. Consistent(Snapshot)' /\ Behind(Snapshot, Snapshot') /\ Elements(log) \subseteq Elements(log')
      BY <2>1 DEF Scoring, Consistent, Behind, Later, Elements
    <2>4. \A q \in Request : req'[q] = "stored" => result'[q] = "pending" /\ job'[q] # "queued"
      BY <2>1, <2>2 DEF Scoring
    <2>5. \A q \in Request : job'[q] = "queued" => result'[q] = "pending"
      BY <2>1, <2>2 DEF Scoring
    <2>6. ScoreIsUnderway'
      BY <2>1, <2>2 DEF Scoring, ScoreIsUnderway
    <2> QED
      BY <2>3, <2>4, <2>5, <2>6 DEF Scoring
  <1>2. CASE StoreAnswer(r)
    <2>1. /\ log' = Append(log, r) /\ req[r] = "loaded" /\ UNCHANGED <<job, mishap>>
          /\ req' = [req EXCEPT ![r] = IF text[r] THEN "stored" ELSE "over"]
          /\ result' = [result EXCEPT ![r] = IF text[r] THEN "pending" ELSE "unscored"]
      BY <1>2 DEF StoreAnswer
    <2>2. Elements(log') = Elements(log) \cup {r}
      BY <1>0, <2>1, AppendElements
    <2>3. r \notin Elements(log) /\ result[r] = "absent" /\ job[r] # "queued"
      BY <2>1 DEF Stored, Scoring, Consistent
    <2>4. /\ \A q \in Request : q # r => req'[q] = req[q] /\ result'[q] = result[q]
          /\ \/ req'[r] = "stored" /\ result'[r] = "pending"
             \/ req'[r] = "over" /\ result'[r] = "unscored"
      BY <1>0, <2>1
    <2>5. Consistent(Snapshot')
      BY <2>2, <2>4 DEF Scoring, Consistent
    <2>6. Behind(Snapshot, Snapshot')
      BY <2>2, <2>3, <2>4 DEF Behind, Later
    <2>7. ScoreIsUnderway'
      BY <2>1, <2>4 DEF Scoring, ScoreIsUnderway
    <2>8. /\ \A q \in Request : req'[q] = "stored" => result'[q] = "pending" /\ job'[q] # "queued"
          /\ \A q \in Request : job'[q] = "queued" => result'[q] = "pending"
      BY <2>1, <2>3, <2>4 DEF Scoring
    <2>9. Consistent(Snapshot)'
      BY <2>5 DEF Consistent, Elements
    <2> QED
      BY <2>2, <2>6, <2>7, <2>8, <2>9 DEF Scoring
  <1>3. CASE FinishJob(r)
    <2>1. /\ UNCHANGED <<log, req, mishap>> /\ job[r] = "queued" /\ job' = [job EXCEPT ![r] = "over"]
          /\ \E v \in Settled : result' = [result EXCEPT ![r] = v]
      BY <1>3 DEF FinishJob, rowvars, reqvars, Settled
    <2>2. /\ \A q \in Request : q # r => job'[q] = job[q] /\ result'[q] = result[q]
          /\ result'[r] \in Settled /\ job'[r] = "over"
      BY <1>0, <2>1
    <2>3. result[r] = "pending" /\ req[r] # "stored"
      BY <2>1 DEF Scoring
    <2>4. Consistent(Snapshot)'
      BY <2>1, <2>2, <2>3 DEF Scoring, Consistent, Settled, Elements
    <2>5. Behind(Snapshot, Snapshot') /\ Elements(log) \subseteq Elements(log')
      BY <2>1, <2>2, <2>3 DEF Behind, Later, Elements
    <2>6. /\ \A q \in Request : req'[q] = "stored" => result'[q] = "pending" /\ job'[q] # "queued"
          /\ \A q \in Request : job'[q] = "queued" => result'[q] = "pending"
      BY <2>1, <2>2, <2>3 DEF Scoring
    <2>7. ScoreIsUnderway'
      BY <2>1, <2>2 DEF Scoring, ScoreIsUnderway, Settled
    <2> QED
      BY <2>4, <2>5, <2>6, <2>7 DEF Scoring
  <1> QED
    BY <1>1, <1>2, <1>3 DEF ServerStep, Serve

(* A step of the page leaves them.                                         *)
LEMMA PageScores ==
  ASSUME TypeOK, Scoring, PageStep
  PROVE  Scoring' /\ Snapshot' = Snapshot /\ log' = log
PROOF
  <1>1. /\ UNCHANGED <<log, result, job, mishap>>
        /\ \A r \in Request : /\ req[r] = "stored" => req'[r] = req[r]
                              /\ req'[r] = "stored" => req'[r] = req[r]
    BY PageFrame DEF rowvars, scorevars
  <1>2. Snapshot' = Snapshot
    BY <1>1 DEF Snapshot
  <1>3. Consistent(Snapshot)'
    BY <1>1 DEF Scoring, Consistent, Snapshot, Elements
  <1>4. ScoreIsUnderway'
    BY <1>1 DEF Scoring, ScoreIsUnderway
  <1> QED
    BY <1>1, <1>2, <1>3, <1>4 DEF Scoring

(* Every answer stored with something to score is scored, or will be, or   *)
(* its job was lost: the server's half of ShownAnswersSettle.              *)
THEOREM ScoringAlways == Spec => []Scoring
PROOF
  <1>1. Init => Scoring
    <2>1. ASSUME Init PROVE Elements(log) = {}
      BY <2>1 DEF Init, Elements
    <2> QED
      BY <2>1 DEF Init, Scoring, Consistent, Snapshot, ScoreIsUnderway
  <1>2. TypeOK /\ Stored /\ Scoring /\ [Next]_vars => Scoring'
    <2>1. CASE UNCHANGED vars
      BY <2>1 DEF Scoring, Consistent, Snapshot, ScoreIsUnderway, Elements, vars, rowvars, scorevars, reqvars
    <2> QED
      BY <2>1, PageScores, ServerScores DEF Next, PageStep, ServerStep
  <1> QED
    BY <1>1, <1>2, TypeCorrect, PTL DEF Spec

(* A page that has no refetch under way shows every answer it was told is  *)
(* stored, unless a refetch failed, and one that shows an answer as        *)
(* waiting for its score goes on polling: no refetch was taken that had    *)
(* been read too early.                                                    *)
PageIsCurrent ==
  /\ ~asking /\ answers = {} /\ ~missed => \A r \in Request : reply[r] = "ok" => r \in Elements(view.log)
  /\ \A r \in Request : view.result[r] = "pending" => Expected(view)

(* What the page shows is replaced by something later only: no refetch     *)
(* takes back an answer or a score.                                        *)
ViewsOnlyAdvance == [][view'.loaded => Behind(view, view')]_vars

(* The strengthening: at most one refetch is under way, and what it brings *)
(* is between what the page shows and what the server has.                 *)
Viewing ==
  /\ asking => answers = {}
  /\ \A v, w \in answers : v = w
  /\ \A v \in answers : Behind(view, v) /\ Behind(v, Snapshot) /\ Consistent(v)
  /\ Behind(view, Snapshot) /\ Consistent(view)
  /\ \A r \in Request : reply[r] = "ok" => r \in Elements(log)
  /\ \A r \in Request :
       reply[r] = "ok" /\ ~missed /\ ~asking =>
         /\ answers = {} => r \in Elements(view.log)
         /\ \A v \in answers : r \in Elements(v.log)

(* An empty page is behind every copy.                                     *)
LEMMA NoViewBehind ==
  ASSUME NEW v
  PROVE  Behind(NoView, v) /\ Consistent(NoView) /\ ~NoView.loaded
PROOF
  <1>1. Elements(NoView.log) = {} /\ (\A r \in Request : NoView.result[r] = "absent") /\ ~NoView.loaded
    BY DEF NoView, Elements
  <1> QED
    BY <1>1 DEF Behind, Later, Consistent

(* Every copy is behind itself.                                            *)
LEMMA BehindReflexive ==
  ASSUME NEW v
  PROVE  Behind(v, v)
PROOF
  BY DEF Behind, Later

(* Copies and what they hold are values: only the variables move.          *)
LEMMA Unmoved ==
  /\ view' = view => /\ Consistent(view)' <=> Consistent(view)
                     /\ \A r : r \in Elements(view.log)' <=> r \in Elements(view.log)
                     /\ \A v : Behind(view, v)' <=> Behind(view, v)
                     /\ Behind(view, Snapshot)' <=> Behind(view, Snapshot')
  /\ \A v : Consistent(v)' <=> Consistent(v)
  /\ \A v : \A r : r \in Elements(v.log)' <=> r \in Elements(v.log)
  /\ \A v : Behind(v, Snapshot)' <=> Behind(v, Snapshot')
  /\ \A r : r \in Elements(log)' <=> r \in Elements(log')
PROOF
  BY DEF Consistent, Elements, Behind

(* A step that leaves what the page shows, and the refetch under way or    *)
(* cancels it for another.                                                 *)
LEMMA SameView ==
  ASSUME Viewing, UNCHANGED <<view, missed>>, Snapshot' = Snapshot, log' = log,
         asking' => answers' = {}, answers' = answers \/ asking', asking => asking',
         \A r \in Request : reply'[r] = "ok" => reply[r] = "ok" \/ (r \in Elements(log) /\ asking')
  PROVE  Viewing'
PROOF
  <1>1. answers' \subseteq answers
    BY DEF Viewing
  <1>2. /\ \A v, w \in answers' : v = w
        /\ \A v \in answers' : Behind(view, v)' /\ Behind(v, Snapshot)' /\ Consistent(v)'
    BY <1>1, Unmoved DEF Viewing
  <1>3. Behind(view, Snapshot)' /\ Consistent(view)'
    BY Unmoved DEF Viewing
  <1>4. \A r \in Request : reply'[r] = "ok" => r \in Elements(log)'
    BY Unmoved DEF Viewing
  <1>5. ASSUME NEW r \in Request, reply'[r] = "ok", ~missed', ~asking'
        PROVE  (answers' = {} => r \in Elements(view.log)') /\ \A v \in answers' : r \in Elements(v.log)'
    <2>1. reply[r] = "ok" /\ ~missed /\ ~asking /\ answers' = answers
      BY <1>5
    <2> QED
      BY <2>1, Unmoved DEF Viewing
  <1> QED
    BY <1>2, <1>3, <1>4, <1>5 DEF Viewing

(* A step of the server only adds to what the page has yet to see.         *)
LEMMA ServerViews ==
  ASSUME TypeOK, Stored, Scoring, Viewing, NEW r \in Request, ServerStep(r)
  PROVE  Viewing' /\ view' = view
PROOF
  <1>1. UNCHANGED <<view, asking, answers, missed, reply>>
    BY DEF ServerStep, Serve, LoadSession, StoreAnswer, EnqueueFeedback, FinishJob, KillJob, queryvars
  <1>2. Behind(Snapshot, Snapshot') /\ Elements(log) \subseteq Elements(log')
    BY ServerScores
  <1>3. Behind(view, Snapshot') /\ \A v \in answers : Behind(v, Snapshot')
    BY <1>2, BehindTransitive DEF Viewing
  <1>4. /\ \A v \in answers' : Behind(view, v)' /\ Behind(v, Snapshot)' /\ Consistent(v)'
        /\ Behind(view, Snapshot)' /\ Consistent(view)'
    BY <1>1, <1>3, Unmoved DEF Viewing
  <1>5. \A q \in Request : reply'[q] = "ok" => q \in Elements(log)'
    BY <1>1, <1>2 DEF Viewing, Elements
  <1>6. \A q \in Request :
          reply'[q] = "ok" /\ ~missed' /\ ~asking' =>
            /\ answers' = {} => q \in Elements(view.log)'
            /\ \A v \in answers' : q \in Elements(v.log)'
    BY <1>1 DEF Viewing, Elements
  <1> QED
    BY <1>1, <1>4, <1>5, <1>6 DEF Viewing

(* A step of the page: what it shows now is what it showed, or the one     *)
(* refetch that was under way, or nothing.                                 *)
LEMMA PageViews ==
  ASSUME TypeOK, Scoring, Viewing, PageStep
  PROVE  Viewing' /\ (view'.loaded => Behind(view, view'))
PROOF
  <1>0. Snapshot' = Snapshot /\ log' = log
    BY PageScores
  <1>a. ASSUME NEW n \in answers \cup {view, NoView, Snapshot}
        PROVE  Behind(n, Snapshot) /\ Consistent(n)
    BY <1>a, NoViewBehind, BehindReflexive DEF Viewing, Scoring
  <1>1. CASE Poll
    <2>1. UNCHANGED <<view, answers, missed, reply>> /\ answers = {} /\ asking'
      BY <1>1 DEF Poll
    <2> QED
      BY <1>0, <2>1, SameView, BehindReflexive
  <1>2. CASE ReadSession
    <2>1. UNCHANGED <<view, missed, reply>> /\ answers = {} /\ answers' = {Snapshot} /\ ~asking'
      BY <1>2 DEF ReadSession, Viewing, Snapshot
    <2>2. Behind(view, Snapshot) /\ Behind(Snapshot, Snapshot) /\ Consistent(Snapshot)
      BY <1>a DEF Viewing
    <2>3. \A q \in Request : reply[q] = "ok" => q \in Elements(Snapshot.log)
      BY DEF Viewing, Snapshot
    <2> HIDE DEF Snapshot
    <2> QED
      BY <1>0, <2>1, <2>2, <2>3, BehindReflexive DEF Viewing, Behind, Consistent, Elements
  <1>3. CASE Deliver
    <2>1. PICK v \in answers : view' = v /\ answers' = answers \ {v} /\ UNCHANGED <<asking, missed, reply>>
      BY <1>3 DEF Deliver
    <2>2. answers' = {} /\ ~asking
      BY <2>1 DEF Viewing
    <2>3. Behind(view, v) /\ Behind(v, Snapshot) /\ Consistent(v)
      BY DEF Viewing
    <2>4. \A q \in Request : reply[q] = "ok" /\ ~missed => q \in Elements(v.log)
      BY <2>2 DEF Viewing
    <2> QED
      BY <1>0, <2>1, <2>2, <2>3, <2>4 DEF Viewing, Behind, Consistent, Elements
  <1>4. CASE FetchFails
    <2>1. UNCHANGED <<view, reply>> /\ answers' = {} /\ missed' /\ ~asking'
      BY <1>4 DEF FetchFails
    <2> QED
      BY <1>0, <2>1, BehindReflexive DEF Viewing, Behind, Consistent, Elements
  <1>5. CASE Reload
    <2>1. /\ view' = NoView /\ answers' = {} /\ asking' /\ missed' = missed
          /\ \A q \in Request : reply'[q] = "ok" => reply[q] = "ok"
      BY <1>5 DEF Reload, TypeOK
    <2>2. Behind(NoView, Snapshot) /\ Consistent(NoView) /\ ~NoView.loaded
      BY NoViewBehind
    <2> QED
      BY <1>0, <2>1, <2>2 DEF Viewing, Behind, Consistent, Elements
  <1>6. ASSUME NEW r \in Request, Acknowledge(r)
        PROVE  Viewing' /\ (view'.loaded => Behind(view, view'))
    <2>1. /\ UNCHANGED <<view, missed>> /\ answers' = {} /\ asking'
          /\ \A q \in Request : reply'[q] = "ok" => reply[q] = "ok" \/ q \in Elements(log)
      BY <1>6 DEF Acknowledge, Invalidate, TypeOK
    <2> QED
      BY <1>0, <2>1, SameView, BehindReflexive
  <1>7. ASSUME NEW r \in Request, SubmitText(r) \/ StopRecording(r) \/ Uploaded(r) \/ GiveUp(r)
        PROVE  UNCHANGED queryvars /\ \A q \in Request : reply'[q] = "ok" => reply[q] = "ok"
    BY <1>7 DEF SubmitText, StopRecording, Uploaded, GiveUp, TypeOK, queryvars
  <1>8. CASE UNCHANGED queryvars /\ \A q \in Request : reply'[q] = "ok" => reply[q] = "ok"
    <2>1. UNCHANGED <<view, asking, answers, missed>>
      BY <1>8 DEF queryvars
    <2>2. asking => answers = {}
      BY DEF Viewing
    <2> QED
      BY <1>0, <1>8, <2>1, <2>2, SameView, BehindReflexive
  <1>9. CASE Generate \/ StartRecording
    BY <1>8, <1>9 DEF Generate, StartRecording
  <1> QED
    BY <1>1, <1>2, <1>3, <1>4, <1>5, <1>6, <1>7, <1>8, <1>9 DEF PageStep, Query

(* What the page holds is consistent with the server, in every state.      *)
THEOREM ViewingAlways == Spec => []Viewing
PROOF
  <1>1. Init => Viewing
    <2> SUFFICES ASSUME Init PROVE Viewing
      OBVIOUS
    <2>1. view = NoView /\ asking /\ answers = {} /\ \A r \in Request : reply[r] = "none"
      BY DEF Init
    <2> QED
      BY <2>1, NoViewBehind DEF Viewing
  <1>2. TypeOK /\ Stored /\ Scoring /\ Viewing /\ [Next]_vars => Viewing'
    <2>1. CASE Viewing /\ UNCHANGED vars
      <3>1. UNCHANGED <<view, missed, log, result, asking, answers, reply>>
        BY <2>1 DEF vars, rowvars, scorevars, queryvars
      <3>2. Snapshot' = Snapshot /\ (asking => answers = {})
        BY <2>1, <3>1 DEF Snapshot, Viewing
      <3> QED
        BY <2>1, <3>1, <3>2, SameView
    <2> QED
      BY <2>1, PageViews, ServerViews DEF Next, PageStep, ServerStep
  <1> QED
    BY <1>1, <1>2, TypeCorrect, ScoringAlways, PTL DEF Spec

(* A page at rest shows every answer it was told is stored, and waits for  *)
(* no score without polling: the safety half of AnswersAppear.             *)
THEOREM PageIsCurrentAlways == Spec => []PageIsCurrent
PROOF
  <1>1. Viewing => PageIsCurrent
    BY DEF Viewing, PageIsCurrent, Consistent, Expected
  <1> QED
    BY <1>1, ViewingAlways, PTL

(* No refetch takes back an answer or a score the page has shown, though   *)
(* refetches overtake answers and are cancelled and repeated.              *)
THEOREM ViewsOnlyAdvanceAlways == Spec => ViewsOnlyAdvance
PROOF
  <1>1. TypeOK /\ Stored /\ Scoring /\ Viewing /\ [Next]_vars => [view'.loaded => Behind(view, view')]_vars
    BY PageViews, ServerViews, BehindReflexive DEF Next, PageStep, ServerStep
  <1> QED
    BY <1>1, TypeCorrect, ScoringAlways, ViewingAlways, PTL DEF Spec, ViewsOnlyAdvance

=============================================================================
