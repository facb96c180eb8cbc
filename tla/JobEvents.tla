----------------------------- MODULE JobEvents ------------------------------
(***************************************************************************)
(* The status stream of one enrichment job: a worker commits the status    *)
(* and then publishes it on a Redis channel; GET /enrich/{id}/events reads *)
(* the status, subscribes, and streams until a terminal status, a fixed    *)
(* number of polls or an error; the browser's tracker reconnects when the  *)
(* stream ends without a status it can use.                                *)
(***************************************************************************)
EXTENDS Naturals, Sequences

CONSTANTS
  Client,         \* browser tabs that track the job
  MaxPolls,       \* MAX_STREAM_SECONDS / HEARTBEAT_SECONDS
  MaxReconnects,  \* MAX_RECONNECT_ATTEMPTS
  Env             \* a subset of EnvKind

EnvKind == {"raise",   \* the worker fails, possibly after its commit
            "silent",  \* the cleanup or an aborted request fails the job
            "purge",   \* the job is purged
            "lost",    \* Redis refuses a publish
            "drop"}    \* a stream breaks

ASSUME EventsAssumption ==
  /\ MaxPolls \in Nat \ {0}
  /\ MaxReconnects \in Nat
  /\ Env \subseteq EnvKind

Terminal == {"completed", "completed_no_data", "failed", "suppressed"}
JobStatus == Terminal \cup {"queued", "running", "purged"}

(* The statuses the browser's parser knows (VALID_STATUSES).               *)
Known == {"queued", "running", "completed", "failed", "suppressed"}
None == "none"

VARIABLES
  status,     \* the committed status
  worker,     \* progress of the execution
  outbox,     \* committed by the worker and still to be published
  committed,  \* history: every status the job has had
  stream,     \* [Client -> state of its connection]
  initial,    \* [Client -> status the route read before the stream]
  inbox,      \* [Client -> messages its subscription holds]
  polls,      \* [Client -> get_message calls of this stream]
  attempts,   \* [Client -> reconnections since the last message]
  told        \* [Client -> terminal status the tracker handled]

jobvars == <<status, worker, outbox, committed>>
vars == <<jobvars, stream, initial, inbox, polls, attempts, told>>

TypeOK ==
  /\ status \in JobStatus /\ committed \subseteq JobStatus
  /\ worker \in {"idle", "running", "finished", "failed"}
  /\ outbox \in Seq(Terminal)
  /\ stream \in [Client -> {"connect", "opened", "listening", "stopped", "gaveup", "cutoff",
                        "closed"}]
  /\ initial \in [Client -> JobStatus]
  /\ inbox \in [Client -> Seq(Terminal)]
  /\ polls \in [Client -> 0..MaxPolls]
  /\ attempts \in [Client -> 0..MaxReconnects]
  /\ told \in [Client -> Terminal \cup {None}]

Init ==
  /\ status = "queued" /\ committed = {"queued"}
  /\ worker = "idle" /\ outbox = <<>>
  /\ stream = [c \in Client |-> "connect"]
  /\ initial = [c \in Client |-> "queued"]
  /\ inbox = [c \in Client |-> <<>>]
  /\ polls = [c \in Client |-> 0]
  /\ attempts = [c \in Client |-> 0]
  /\ told = [c \in Client |-> None]

-----------------------------------------------------------------------------
(* The worker, and those who change the status without publishing          *)

Commit(s) == status' = s /\ committed' = committed \cup {s}

Start ==
  /\ worker = "idle"
  /\ Commit("running")
  /\ worker' = "running"
  /\ UNCHANGED <<outbox, stream, initial, inbox, polls, attempts, told>>

(* Fault: published before the commit, which may never come.               *)
Finish_PublishFirst ==
  /\ worker = "running"
  /\ \E s \in Terminal \ {"failed"} : outbox' = <<s>>
  /\ worker' = "finished"
  /\ UNCHANGED <<status, committed, stream, initial, inbox, polls, attempts, told>>

(* mark_status commits, then publishes.                                    *)
Finish ==
  /\ worker = "running"
  /\ \E s \in Terminal \ {"failed"} : Commit(s) /\ outbox' = <<s>>
  /\ worker' = "finished"
  /\ UNCHANGED <<stream, initial, inbox, polls, attempts, told>>

(* The except branch of execute_job: mark_status publishes, and the branch *)
(* publishes again.  After a commit it may come before that publish.       *)
Fail ==
  /\ "raise" \in Env /\ worker \in {"running", "finished"}
  /\ Commit("failed")
  /\ outbox' = <<"failed", "failed">>
  /\ worker' = "failed"
  /\ UNCHANGED <<stream, initial, inbox, polls, attempts, told>>

(* publish_job_status: to whoever is subscribed now; errors are swallowed. *)
Publish ==
  /\ outbox # <<>>
  /\ outbox' = Tail(outbox)
  /\ \/ inbox' = [c \in Client |->
                    IF stream[c] = "listening" THEN Append(inbox[c], Head(outbox))
                                               ELSE inbox[c]]
     \/ "lost" \in Env /\ UNCHANGED inbox
  /\ UNCHANGED <<status, worker, committed, stream, initial, polls, attempts, told>>

(* cleanup_orphaned_jobs and the aborted request: failed, not published.   *)
FailSilently ==
  /\ "silent" \in Env /\ status = "queued"
  /\ Commit("failed")
  /\ UNCHANGED <<worker, outbox, stream, initial, inbox, polls, attempts, told>>

Purge ==
  /\ "purge" \in Env
  /\ Commit("purged")
  /\ UNCHANGED <<worker, outbox, stream, initial, inbox, polls, attempts, told>>

-----------------------------------------------------------------------------
(* The route and stream_job_status_events, with the tracker that reads it  *)

Open(c) ==
  /\ stream[c] = "connect"
  /\ initial' = [initial EXCEPT ![c] = status]
  /\ stream' = [stream EXCEPT ![c] = "opened"]
  /\ UNCHANGED <<jobvars, inbox, polls, attempts, told>>

(* onerror after n reconnections: try again or end as given.               *)
StreamEnds(c, n, end) ==
  /\ IF n < MaxReconnects
       THEN /\ stream' = [stream EXCEPT ![c] = "connect"]
            /\ attempts' = [attempts EXCEPT ![c] = n + 1]
       ELSE /\ stream' = [stream EXCEPT ![c] = end]
            /\ attempts' = [attempts EXCEPT ![c] = n]
  /\ inbox' = [inbox EXCEPT ![c] = <<>>]
  /\ polls' = [polls EXCEPT ![c] = 0]

(* Fault: the tracker handles the status but keeps its connection.         *)
Deliver_KeepOpen(c, s) ==
  /\ told' = [told EXCEPT ![c] = IF s \in Known THEN s ELSE @]
  /\ StreamEnds(c, 0, "gaveup")

(* One data event, and the server ends the stream.  Every message resets   *)
(* the attempts; a terminal status the parser knows stops the tracker, any *)
(* other is ignored.                                                       *)
Deliver(c, s) ==
  IF s \in Known
    THEN /\ told' = [told EXCEPT ![c] = s]
         /\ stream' = [stream EXCEPT ![c] = "stopped"]
         /\ attempts' = [attempts EXCEPT ![c] = 0]
         /\ inbox' = [inbox EXCEPT ![c] = <<>>]
         /\ polls' = [polls EXCEPT ![c] = 0]
    ELSE StreamEnds(c, 0, "gaveup") /\ UNCHANGED told

(* Fault: the stream of a finished job ends without its one event.         *)
AnswerAtOnce_Silent(c) ==
  /\ stream[c] = "opened" /\ initial[c] \in Terminal
  /\ StreamEnds(c, attempts[c], "gaveup")
  /\ UNCHANGED <<jobvars, initial, told>>

AnswerAtOnce(c) ==
  /\ stream[c] = "opened" /\ initial[c] \in Terminal
  /\ Deliver(c, initial[c])
  /\ UNCHANGED <<jobvars, initial>>

(* The status is not read again after the subscription.                    *)
Subscribe(c) ==
  /\ stream[c] = "opened" /\ initial[c] \notin Terminal
  /\ stream' = [stream EXCEPT ![c] = "listening"]
  /\ UNCHANGED <<jobvars, initial, inbox, polls, attempts, told>>

Receive(c) ==
  /\ stream[c] = "listening" /\ polls[c] < MaxPolls /\ inbox[c] # <<>>
  /\ Deliver(c, Head(inbox[c]))
  /\ UNCHANGED <<jobvars, initial>>

(* Fault: one poll too many.                                               *)
Ping_OneMore(c) ==
  /\ stream[c] = "listening" /\ polls[c] <= MaxPolls /\ inbox[c] = <<>>
  /\ polls' = [polls EXCEPT ![c] = @ + 1]
  /\ UNCHANGED <<jobvars, stream, initial, inbox, attempts, told>>

Ping(c) ==
  /\ stream[c] = "listening" /\ polls[c] < MaxPolls /\ inbox[c] = <<>>
  /\ polls' = [polls EXCEPT ![c] = @ + 1]
  /\ UNCHANGED <<jobvars, stream, initial, inbox, attempts, told>>

Expire(c) ==
  /\ stream[c] = "listening" /\ polls[c] = MaxPolls
  /\ StreamEnds(c, attempts[c], "gaveup")
  /\ UNCHANGED <<jobvars, initial, told>>

Drop(c) ==
  /\ "drop" \in Env /\ stream[c] \in {"opened", "listening"}
  /\ StreamEnds(c, attempts[c], "cutoff")
  /\ UNCHANGED <<jobvars, initial, told>>

(* The page is left.                                                       *)
Unsubscribe(c) ==
  /\ stream[c] \in {"connect", "opened", "listening"}
  /\ stream' = [stream EXCEPT ![c] = "closed"]
  /\ inbox' = [inbox EXCEPT ![c] = <<>>]
  /\ UNCHANGED <<jobvars, initial, polls, attempts, told>>

ClientStep(c) ==
  \/ Open(c) \/ AnswerAtOnce(c) \/ Subscribe(c)
  \/ Receive(c) \/ Ping(c) \/ Expire(c)

Next ==
  \/ Start \/ Finish \/ Fail \/ Publish \/ FailSilently \/ Purge
  \/ \E c \in Client : ClientStep(c) \/ Drop(c) \/ Unsubscribe(c)

Spec == Init /\ [][Next]_vars

(* The worker publishes what it committed, the server and the browser go   *)
(* on; nothing forces a job to start or to finish.                         *)
FairSpec == Spec /\ WF_vars(Publish) /\ \A c \in Client : WF_vars(ClientStep(c))

-----------------------------------------------------------------------------
(* A tracker only ever reports a terminal status the job really had, even  *)
(* when the status changes between commit, publish, read and subscribe.    *)
ToldTheTruth == \A c \in Client : told[c] # None => told[c] \in committed

(* The stream as the page sees it: a tracker with a connection, or one to  *)
(* make, is a listener; the outcomes are the terminal statuses the parser  *)
(* knows.                                                                  *)
R == INSTANCE Reporter WITH
       Listener <- Client,
       Fact     <- JobStatus,
       Outcome  <- Terminal \cap Known,
       Nothing  <- None,
       had      <- committed,
       present  <- {c \in Client : stream[c] \in {"connect", "opened", "listening"}},
       heard    <- told

(* Whatever is published twice, missed, overtaken or read again by another *)
(* stream, a tracker reports one outcome at most, one the job really had,  *)
(* and is silent from then on.                                             *)
ImplementsReporter == R!Spec

(* A tracker that still has a connection to make when the job is completed,*)
(* failed or suppressed is told, whatever publishes it missed, unless the  *)
(* page is left, the job is purged or its last connection breaks: a stream *)
(* that ends without an answer is retried with a new look at the status.   *)
Finished == status \in Terminal \cap Known

Waiting(c) == \/ stream[c] = "connect"
              \/ stream[c] \in {"opened", "listening"} /\ attempts[c] < MaxReconnects

WaitingTrackersAreTold ==
  \A c \in Client :
    Finished /\ Waiting(c) ~> stream[c] \in {"stopped", "closed", "cutoff"} \/ ~Finished

(* Once the job is completed, failed or suppressed and stays so, every     *)
(* tracker comes to an end, having missed publishes or not.                *)
TrackersEnd ==
  \A c \in Client :
    <>[]Finished
      => <>(stream[c] \in {"stopped", "gaveup", "cutoff", "closed"})

=============================================================================
