------------------------------ MODULE Practice ------------------------------
(***************************************************************************)
(* One practice session: the page that asks its questions (its cached copy *)
(* of the session, the refetches of that copy, the recorder), the requests *)
(* that store answers, and the worker that scores them.                    *)
(*                                                                         *)
(* Questions are numbers: list 1, kept in sessionStorage by the page that  *)
(* started the session, is 1..Size; list 2, generated by the page when it  *)
(* finds no list 1, is Size+1..2*Size.  An answer is named by the request  *)
(* that stores it.                                                         *)
(***************************************************************************)
EXTENDS Naturals, Sequences, FiniteSets

CONSTANTS
  Modes,     \* "bank": a session for a role, "jd": for a job description
  Request,   \* POST /sessions/{id}/attempts requests
  Size,      \* number of questions of a list
  Env,       \* disturbances: "timeout", "redis", "kill", "net", "reload"
  MaxFaults  \* bound: how many of them happen

ASSUME PracticeAssumption ==
  /\ Modes \subseteq {"bank", "jd"}
  /\ Size \in Nat \ {0} /\ MaxFaults \in Nat
  /\ Env \subseteq {"timeout", "redis", "kill", "net", "reload"}

Status == {"pending", "in_progress"}
Result == {"absent", "pending", "scored", "unscored"}
Nobody == "nobody"

VARIABLES
  mode,      \* "jd": the answers carry no question id
  row,       \* the practice_sessions row: status and questions_attempted
  log,       \* the stored answers in the order they were stored
  result,    \* [Request -> ai_score and ai_feedback of its answer]
  job,       \* [Request -> scoring job of its answer]
  req,       \* [Request -> progress of the request]
  asked,     \* [Request -> question it answers, as the page meant it]
  text,      \* [Request -> whether there is text to score]
  copy,      \* [Request -> the row it loaded]
  reply,     \* [Request -> what the page knows of it]
  questions, \* which list of questions the page holds, 0 for none
  view,      \* the page's cached copy of the session
  asking,    \* whether the server has yet to answer a refetch
  answers,   \* answers to refetches on their way to the page
  broken,    \* the last refetch failed: "Session not found"
  latest,    \* the request whose progress disables the submit button
  rec,       \* question the running recording belongs to, 0 for none
  faults,    \* disturbances so far
  missed,    \* history: some refetch failed
  mishap,    \* history: answers whose job was never queued or was killed
  overlap    \* history: two requests held a loaded row at the same time

rowvars   == <<mode, row, log, overlap>>
scorevars == <<result, job, mishap>>
reqvars   == <<req, asked, text, copy>>
queryvars == <<view, asking, answers, broken, missed>>
pagevars  == <<questions, latest, rec>>
vars == <<rowvars, scorevars, reqvars, reply, queryvars, pagevars, faults>>

Row  == [status : Status, attempted : Nat]
NoCopy == [status |-> "pending", attempted |-> 0]
NoView == [log |-> <<>>, result |-> [r \in Request |-> "absent"], loaded |-> FALSE]
IsView(v) ==
  /\ v.log \in Seq(Request) /\ v.result \in [Request -> Result] /\ v.loaded \in BOOLEAN
  /\ DOMAIN v = {"log", "result", "loaded"}
Elements(s) == {s[i] : i \in DOMAIN s}

TypeOK ==
  /\ mode \in Modes /\ row \in Row
  /\ log \in Seq(Request) /\ Cardinality(Elements(log)) = Len(log)
  /\ result \in [Request -> Result]
  /\ job \in [Request -> {"none", "queued", "over"}]
  /\ req \in [Request -> {"idle", "upload", "post", "loaded", "stored", "over"}]
  /\ asked \in [Request -> 0..2 * Size]
  /\ text \in [Request -> BOOLEAN]
  /\ copy \in [Request -> Row]
  /\ reply \in [Request -> {"none", "waiting", "ok", "error", "gone"}]
  /\ questions \in 0..2
  /\ IsView(view) /\ \A v \in answers : IsView(v)
  /\ asking \in BOOLEAN /\ broken \in BOOLEAN
  /\ latest \in Request \cup {Nobody}
  /\ rec \in 0..2 * Size
  /\ faults \in 0..MaxFaults
  /\ missed \in BOOLEAN /\ overlap \in BOOLEAN /\ mishap \subseteq Request

(* The page opens with the stored questions, or without if sessionStorage  *)
(* has none, and fetches the session.  A role-based session starts as      *)
(* pending, a session for a job description as in_progress.                *)
Init ==
  /\ mode \in Modes
  /\ row = [status |-> IF mode = "jd" THEN "in_progress" ELSE "pending", attempted |-> 0]
  /\ log = <<>> /\ overlap = FALSE
  /\ result = [r \in Request |-> "absent"]
  /\ job = [r \in Request |-> "none"] /\ mishap = {}
  /\ req = [r \in Request |-> "idle"]
  /\ asked = [r \in Request |-> 0]
  /\ text = [r \in Request |-> FALSE]
  /\ copy = [r \in Request |-> NoCopy]
  /\ reply = [r \in Request |-> "none"]
  /\ questions \in {0, 1}
  /\ view = NoView /\ asking = TRUE /\ answers = {}
  /\ broken = FALSE /\ missed = FALSE
  /\ latest = Nobody /\ rec = 0 /\ faults = 0

Disturb(kind) == kind \in Env /\ faults < MaxFaults /\ faults' = faults + 1

-----------------------------------------------------------------------------
(* The page's copy of the session.                                         *)

(* An answer with neither score nor feedback still expects a score.        *)
Expected(v) == \E r \in Elements(v.log) : v.result[r] = "pending"

(* Fault: polling stops with the first score.                              *)
Poll_UntilFirstScore ==
  /\ ~asking /\ answers = {}
  /\ ~view.loaded \/ (Expected(view) /\ \A r \in Request : view.result[r] # "scored")
  /\ asking' = TRUE
  /\ UNCHANGED <<rowvars, scorevars, reqvars, reply, view, answers, broken, missed, pagevars, faults>>

(* refetchInterval: while there is no session, or a score is expected.     *)
Poll ==
  /\ ~asking /\ answers = {} /\ (~view.loaded \/ Expected(view))
  /\ asking' = TRUE
  /\ UNCHANGED <<rowvars, scorevars, reqvars, reply, view, answers, broken, missed, pagevars, faults>>

(* Fault: the refetch under way is taken for the answer.                   *)
Invalidate_Join == asking' = (answers = {}) /\ UNCHANGED answers

(* An invalidation cancels the refetch under way and starts another.       *)
Invalidate == asking' = TRUE /\ answers' = {}

(* get_session reads row and attempts.                                     *)
ReadSession ==
  /\ asking
  /\ asking' = FALSE
  /\ answers' = answers \cup {[log |-> log, result |-> result, loaded |-> TRUE]}
  /\ UNCHANGED <<rowvars, scorevars, reqvars, reply, view, broken, missed, pagevars, faults>>

List(q) == (q - 1) * Size + 1 .. q * Size

(* Fault: the answers are counted on every page.                           *)
Open_ByCount(v, q) == {i \in List(q) : i > (q - 1) * Size + Len(v.log)}

(* The question the page shows, 0 for none.  Answers for a job description *)
(* carry no question id: the page counts them.                             *)
Open(v, q) ==
  IF mode = "jd"
    THEN {i \in List(q) : i > (q - 1) * Size + Len(v.log)}
    ELSE List(q) \ {asked[r] : r \in Elements(v.log)}
Current(v, q) ==
  IF q = 0 \/ Open(v, q) = {} THEN 0
  ELSE CHOOSE i \in Open(v, q) : \A k \in Open(v, q) : i <= k

(* The recorder is unmounted, and its recording lost, when nothing is left *)
(* to ask.                                                                 *)
Deliver ==
  \E v \in answers :
    /\ view' = v /\ answers' = answers \ {v} /\ broken' = FALSE
    /\ rec' = IF Current(v, questions) = 0 THEN 0 ELSE rec
    /\ UNCHANGED <<rowvars, scorevars, reqvars, reply, asking, missed, questions, latest, faults>>

(* Both tries fail; the page shows an error instead of the session.        *)
FetchFails ==
  /\ asking \/ answers # {}
  /\ Disturb("net")
  /\ asking' = FALSE /\ answers' = {} /\ broken' = TRUE /\ missed' = TRUE /\ rec' = 0
  /\ UNCHANGED <<rowvars, scorevars, reqvars, reply, view, questions, latest>>

-----------------------------------------------------------------------------
(* The session page.                                                       *)

Shown == IF view.loaded /\ ~broken THEN Current(view, questions) ELSE 0
IsPending == latest # Nobody /\ reply[latest] = "waiting"

Generate ==
  /\ view.loaded /\ ~broken /\ questions = 0
  /\ questions' = 2
  /\ UNCHANGED <<rowvars, scorevars, reqvars, reply, queryvars, latest, rec, faults>>

(* handleTextSubmit; the button is disabled while a submission is pending, *)
(* and switching to the text tab unmounts the recorder.                    *)
SubmitText(r) ==
  /\ req[r] = "idle" /\ Shown # 0 /\ ~IsPending
  /\ req' = [req EXCEPT ![r] = "post"]
  /\ asked' = [asked EXCEPT ![r] = Shown]
  /\ text' = [text EXCEPT ![r] = TRUE]
  /\ reply' = [reply EXCEPT ![r] = "waiting"]
  /\ latest' = r /\ rec' = 0
  /\ UNCHANGED <<rowvars, scorevars, copy, queryvars, questions, faults>>

StartRecording ==
  /\ Shown # 0 /\ rec = 0
  /\ rec' = Shown
  /\ UNCHANGED <<rowvars, scorevars, reqvars, reply, queryvars, questions, latest, faults>>

(* onstop calls the handler that was current when the recording started.   *)
StopRecording(r) ==
  /\ req[r] = "idle" /\ rec # 0
  /\ req' = [req EXCEPT ![r] = "upload"]
  /\ asked' = [asked EXCEPT ![r] = rec]
  /\ reply' = [reply EXCEPT ![r] = "waiting"]
  /\ rec' = 0
  /\ UNCHANGED <<rowvars, scorevars, text, copy, queryvars, questions, latest, faults>>

(* The upload is transcribed, or not, before it is answered; then the      *)
(* answer is posted.                                                       *)
Uploaded(r) ==
  /\ req[r] = "upload" /\ reply[r] = "waiting"
  /\ req' = [req EXCEPT ![r] = "post"]
  /\ \E b \in BOOLEAN : text' = [text EXCEPT ![r] = b]
  /\ latest' = r
  /\ UNCHANGED <<rowvars, scorevars, asked, copy, reply, queryvars, questions, rec, faults>>

(* Fault: the page posts the answer again when the proxy gives up.         *)
GiveUp_Retry(r) ==
  /\ reply[r] = "waiting"
  /\ Disturb("timeout")
  /\ req' = [req EXCEPT ![r] = IF @ = "upload" THEN "upload" ELSE "post"]
  /\ UNCHANGED <<rowvars, scorevars, asked, text, copy, reply, queryvars, pagevars>>

(* The proxy gives up after 30 s, or the answer is an error; what the      *)
(* server has under way goes on, but an upload is not followed by a post.  *)
GiveUp(r) ==
  /\ reply[r] = "waiting"
  /\ Disturb("timeout")
  /\ reply' = [reply EXCEPT ![r] = "error"]
  /\ req' = IF req[r] = "upload" THEN [req EXCEPT ![r] = "over"] ELSE req
  /\ UNCHANGED <<rowvars, scorevars, asked, text, copy, queryvars, pagevars>>

(* A reload, or the page opened in another tab, which has no questions.    *)
Reload ==
  /\ Disturb("reload")
  /\ questions' \in {questions, 0}
  /\ view' = NoView /\ asking' = TRUE /\ answers' = {} /\ broken' = FALSE
  /\ latest' = Nobody /\ rec' = 0
  /\ reply' = [r \in Request |-> IF reply[r] = "waiting" THEN "gone" ELSE reply[r]]
  /\ req' = [r \in Request |-> IF req[r] = "upload" THEN "over" ELSE req[r]]
  /\ UNCHANGED <<rowvars, scorevars, asked, text, copy, missed>>

-----------------------------------------------------------------------------
(* add_attempt.                                                            *)

(* Fault: the counter is set before the answer is known to be storable.    *)
LoadSession_CountFirst(r) ==
  /\ req[r] = "post"
  /\ req' = [req EXCEPT ![r] = "loaded"]
  /\ copy' = [copy EXCEPT ![r] = row]
  /\ row' = [row EXCEPT !.attempted = @ + 1]
  /\ overlap' = (overlap \/ \E s \in Request \ {r} : req[s] = "loaded")
  /\ UNCHANGED <<mode, log, scorevars, asked, text, reply, queryvars, pagevars, faults>>

LoadSession(r) ==
  /\ req[r] = "post"
  /\ req' = [req EXCEPT ![r] = "loaded"]
  /\ copy' = [copy EXCEPT ![r] = row]
  /\ overlap' = (overlap \/ \E s \in Request \ {r} : req[s] = "loaded")
  /\ UNCHANGED <<mode, row, log, scorevars, asked, text, reply, queryvars, pagevars, faults>>

(* One commit: the answer, and the columns that differ from the copy.  An  *)
(* answer without text is told at once that it cannot be scored.           *)
StoreAnswer(r) ==
  /\ req[r] = "loaded"
  /\ req' = [req EXCEPT ![r] = IF text[r] THEN "stored" ELSE "over"]
  /\ log' = Append(log, r)
  /\ result' = [result EXCEPT ![r] = IF text[r] THEN "pending" ELSE "unscored"]
  /\ row' = [status |-> IF copy[r].status = "pending" THEN "in_progress" ELSE row.status,
             attempted |-> copy[r].attempted + 1]
  /\ copy' = [copy EXCEPT ![r] = NoCopy]
  /\ text' = [text EXCEPT ![r] = FALSE]
  /\ UNCHANGED <<mode, overlap, job, mishap, asked, reply, queryvars, pagevars, faults>>

(* The job is queued after the commit; a failure to queue it is logged.    *)
EnqueueFeedback(r) ==
  /\ req[r] = "stored"
  /\ req' = [req EXCEPT ![r] = "over"]
  /\ \/ job' = [job EXCEPT ![r] = "queued"] /\ UNCHANGED <<mishap, faults>>
     \/ Disturb("redis") /\ mishap' = mishap \cup {r} /\ UNCHANGED job
  /\ UNCHANGED <<rowvars, result, asked, text, copy, reply, queryvars, pagevars>>

(* The answer reaches the page, which invalidates its copy of the session. *)
Acknowledge(r) ==
  /\ req[r] = "over" /\ reply[r] = "waiting" /\ r \in Elements(log)
  /\ reply' = [reply EXCEPT ![r] = "ok"]
  /\ Invalidate
  /\ UNCHANGED <<rowvars, scorevars, reqvars, view, broken, missed, pagevars, faults>>

-----------------------------------------------------------------------------
(* generate_feedback_job.                                                  *)

(* The score, or on any exception, a time limit included, the message that *)
(* scoring failed.                                                         *)
FinishJob(r) ==
  /\ job[r] = "queued"
  /\ job' = [job EXCEPT ![r] = "over"]
  /\ \E v \in {"scored", "unscored"} : result' = [result EXCEPT ![r] = v]
  /\ UNCHANGED <<rowvars, mishap, reqvars, reply, queryvars, pagevars, faults>>

(* The worker dies, or fails to record the failure.                        *)
KillJob(r) ==
  /\ job[r] = "queued" /\ Disturb("kill")
  /\ job' = [job EXCEPT ![r] = "over"]
  /\ mishap' = mishap \cup {r}
  /\ UNCHANGED <<rowvars, result, reqvars, reply, queryvars, pagevars>>

-----------------------------------------------------------------------------
Query == Poll \/ ReadSession \/ Deliver
Serve(r) == LoadSession(r) \/ StoreAnswer(r) \/ EnqueueFeedback(r)

Next ==
  \/ Query \/ FetchFails \/ Generate \/ StartRecording \/ Reload
  \/ \E r \in Request :
       \/ SubmitText(r) \/ StopRecording(r) \/ Uploaded(r) \/ GiveUp(r)
       \/ Serve(r) \/ Acknowledge(r) \/ FinishJob(r) \/ KillJob(r)

Spec == Init /\ [][Next]_vars

(* The page's queries run, the server serves what it received and answers  *)
(* it, workers run what is queued.  The user, reloads and disturbances are *)
(* not fair.                                                               *)
Fairness ==
  /\ WF_vars(Poll) /\ WF_vars(ReadSession) /\ WF_vars(Deliver)
  /\ \A r \in Request : WF_vars(Serve(r)) /\ WF_vars(Acknowledge(r)) /\ WF_vars(FinishJob(r))

FairSpec == Spec /\ Fairness

-----------------------------------------------------------------------------
(* questions_attempted never counts an answer that is not stored, and is   *)
(* exact unless two requests held the row at the same time (the increment  *)
(* is made on a copy).                                                     *)
CounterIsHonest ==
  /\ row.attempted <= Len(log)
  /\ ~overlap => row.attempted = Len(log)

(* "All questions answered" is shown only when each question of the page's *)
(* list has a stored answer - in sessions for a role; the page of a        *)
(* session for a job description counts, and two answers to one question   *)
(* let it skip the next.                                                   *)
AllAnsweredIsTrue ==
  mode = "bank" /\ view.loaded /\ ~broken /\ questions # 0 /\ Shown = 0
    => List(questions) \subseteq {asked[r] : r \in Elements(log)}

(* An answer the page was told is stored appears on it and stays, though   *)
(* refetches overtake each other and polling may have stopped, unless a    *)
(* refetch failed.                                                         *)
AnswersAppear ==
  \A r \in Request :
    reply[r] = "ok" ~> [](missed \/ ~view.loaded \/ r \in Elements(view.log))

(* An answer the page shows as waiting for its score stops waiting there,  *)
(* unless its job was not queued or was killed.                            *)
ShownAnswersSettle ==
  \A r \in Request :
    view.result[r] = "pending" ~> view.result[r] # "pending" \/ r \in mishap
=============================================================================
