----------------------------- MODULE Enrichment -----------------------------
(***************************************************************************)
(* Enrichment jobs: the API that creates them, the RQ queue, the workers   *)
(* that execute them, the fork/join of a split job (one parent, a tier1    *)
(* and a tier234 child), the orphan cleanup and the opt-out purge, all     *)
(* sharing the jobs table.                                                 *)
(*                                                                         *)
(* All jobs are about one data subject.  Postgres runs READ COMMITTED and  *)
(* the ORM sessions use expire_on_commit=False: a worker works on the copy *)
(* of a row it loaded, and an UPDATE carries only the attributes whose new *)
(* value differs from that copy.  Each task holds its copies in `own'      *)
(* (its job), `par' (the parent) and `out' (the merged row to write).      *)
(***************************************************************************)
EXTENDS Naturals, FiniteSets

CONSTANTS
  Parent,     \* split jobs: the parents
  Tier1,      \* [Parent -> job]: the child that runs tier1
  Tier234,    \* [Parent -> job]: the child that runs tiers 2, 3, 4
  Single,     \* jobs one worker executes
  Sync,       \* jobs the API executes inline (POST /enrich/sync)
  Base,       \* the metadata block every non-empty dossier carries
  Env         \* which disturbances may happen, a subset of EnvKind

EnvKind == {"enqueue",  \* enqueue raises (before or after Redis accepted the job)
            "crash",    \* the API process dies between two steps
            "raise",    \* an exception inside the try block of a task
            "db",       \* an exception that leaves the session unusable
            "kill",     \* a worker dies, or is cancelled by the RQ timeout
            "cleanup",  \* the orphan cleanup runs
            "optout",   \* the subject opts out
            "nopurge"}  \* the purge of the opt-out fails and is rolled back

Kids(p)  == {Tier1[p], Tier234[p]}
Child    == UNION {Kids(p) : p \in Parent}
ParentOf(c) == CHOOSE p \in Parent : c \in Kids(p)
Root     == Parent \cup Single \cup Sync      \* one per API request
Exec     == Child \cup Single \cup Sync       \* jobs a pipeline executes
Job      == Parent \cup Exec

ASSUME JobsAssumption ==
  /\ \A p \in Parent : Tier1[p] # Tier234[p]
  /\ \A p, q \in Parent : p # q => Kids(p) \cap Kids(q) = {}
  /\ Parent \cap Exec = {}
  /\ Child \cap (Single \cup Sync) = {}
  /\ Single \cap Sync = {}
  /\ Base \notin Job
  /\ Env \subseteq EnvKind

(***************************************************************************)
(* Rows.  A dossier is the set of jobs whose findings it holds, plus Base; *)
(* {} is the empty JSON object.  "absent" is a row not committed.          *)
(***************************************************************************)
JobStatus == {"queued", "running", "completed", "completed_no_data", "failed",
              "suppressed", "purged"}
Terminal  == {"completed", "completed_no_data", "failed", "suppressed"}

Row == [status : JobStatus \cup {"absent"}, dossier : SUBSET (Exec \cup {Base})]
NoRow == [status |-> "absent", dossier |-> {}]
NewRow(s, d) == [status |-> s, dossier |-> d]
Findings(r)  == r.dossier \ {Base}

VARIABLES
  row,       \* the committed jobs table
  payload,   \* jobs whose request_payload is still there
  fresh,     \* jobs with updated_at = created_at
  queue,     \* job ids waiting in RQ
  api,       \* progress of each API request
  pc,        \* progress of each execution
  own, par, out,
  caught,    \* children executing the except branch of _execute_child_job
  stuck,     \* what the cleanup selected and has not yet written
  swept,     \* history: children the cleanup ever selected
  optout,    \* progress of the opt-out
  suppressed,\* the subject is on the suppression list
  seen,      \* rows the purge selected
  filled,    \* those of them whose dossier was not {} when selected
  cleared,   \* history: tasks whose suppression check found nothing
  inflight   \* history: cleared, when the subject was suppressed

taskvars == <<pc, own, par, out, caught, cleared>>
cleanvars == <<stuck, swept>>
optvars  == <<optout, suppressed, seen, filled, inflight>>
vars == <<row, payload, fresh, queue, api, cleanvars, taskvars, optvars>>

ApiState  == {"idle", "unsuppressed", "suppressed", "tier1", "tier234", "abort1",
              "abort2", "rechecked", "listed", "created", "abort", "done", "dead"}
TaskState == {"idle", "lost", "loaded", "marked", "stop", "clear", "wrote",
              "merging", "joining", "joined", "failing", "recover", "recovering",
              "done", "raised", "dead"}

TypeOK ==
  /\ row \in [Job -> Row]
  /\ payload \subseteq Job /\ fresh \subseteq Job /\ stuck \subseteq Job /\ swept \subseteq Child
  /\ queue \subseteq Exec
  /\ api \in [Root -> ApiState]
  /\ pc \in [Exec -> TaskState]
  /\ own \in [Exec -> Row] /\ par \in [Exec -> Row] /\ out \in [Exec -> Row]
  /\ caught \subseteq Child
  /\ optout \in {"idle", "listed", "selected", "done"}
  /\ suppressed \in BOOLEAN
  /\ seen \subseteq Job /\ filled \subseteq seen
  /\ cleared \subseteq Exec /\ inflight \subseteq Exec

Init ==
  /\ row = [j \in Job |-> NoRow]
  /\ payload = {} /\ fresh = {} /\ queue = {} /\ stuck = {} /\ swept = {}
  /\ api = [r \in Root |-> "idle"]
  /\ pc = [j \in Exec |-> "idle"]
  /\ own = [j \in Exec |-> NoRow]
  /\ par = [j \in Exec |-> NoRow]
  /\ out = [j \in Exec |-> NoRow]
  /\ caught = {}
  /\ optout = "idle" /\ suppressed = FALSE
  /\ seen = {} /\ filled = {}
  /\ cleared = {} /\ inflight = {}

Exists(j) == row[j].status # "absent"

(* created_at and updated_at are two calls of now(): a new row may or may  *)
(* not get equal stamps.                                                   *)
Insert(new) ==
  /\ row' = [j \in Job |-> IF j \in DOMAIN new THEN new[j] ELSE row[j]]
  /\ payload' = payload \cup DOMAIN new
  /\ \E equal \in SUBSET DOMAIN new : fresh' = fresh \cup equal

(* mark_status: a blind write of the status, committed.                    *)
MarkStatus(j, s) ==
  /\ row' = [row EXCEPT ![j].status = s]
  /\ fresh' = fresh \ {j}

-----------------------------------------------------------------------------
(* The API: EnrichmentService.enrich_async and enrich_sync                 *)

GoTo(r, s) == api' = [api EXCEPT ![r] = s]

(* is_request_suppressed, the first thing enrich_async does.               *)
CheckRequest(r) ==
  /\ r \notin Sync /\ api[r] = "idle"
  /\ GoTo(r, IF suppressed THEN "suppressed" ELSE "unsuppressed")
  /\ UNCHANGED <<row, payload, fresh, queue, cleanvars, taskvars, optvars>>

(* One row, inserted as suppressed; mark_status has touched updated_at.    *)
CreateSuppressedJob(r, next) ==
  /\ row' = [row EXCEPT ![r] = NewRow("suppressed", {Base})]
  /\ payload' = payload \cup {r}
  /\ GoTo(r, next)
  /\ UNCHANGED <<fresh, queue, cleanvars, taskvars, optvars>>

RefuseRequest(r) ==
  /\ api[r] = "suppressed"
  /\ CreateSuppressedJob(r, "done")

(* enqueue_enrichment: accepted, refused, or accepted with the reply lost. *)
Enqueue(r, j, accepted, raised) ==
  /\ \/ /\ queue' = queue \cup {j}
        /\ GoTo(r, accepted)
     \/ /\ "enqueue" \in Env
        /\ queue' \in {queue, queue \cup {j}}
        /\ GoTo(r, raised)
  /\ UNCHANGED <<row, payload, fresh, cleanvars, taskvars, optvars>>

(* The split path: the parent and its children are only flushed; each      *)
(* child is enqueued as soon as it is flushed, and the commit comes last.  *)
EnqueueTier1(p) ==
  /\ p \in Parent /\ api[p] = "unsuppressed"
  /\ Enqueue(p, Tier1[p], "tier1", "abort1")

EnqueueTier234(p) ==
  /\ p \in Parent /\ api[p] = "tier1"
  /\ Enqueue(p, Tier234[p], "tier234", "abort2")

CommitSplit(p) ==
  /\ p \in Parent /\ api[p] = "tier234"
  /\ Insert([j \in {p} \cup Kids(p) |->
               NewRow(IF j = p THEN "running" ELSE "queued", {})])
  /\ GoTo(p, "done")
  /\ UNCHANGED <<queue, cleanvars, taskvars, optvars>>

(* The except branch commits the failed parent with whatever was flushed.  *)
AbortSplit(p) ==
  LET flushed == IF api[p] = "abort1" THEN {Tier1[p]} ELSE Kids(p) IN
  /\ p \in Parent /\ api[p] \in {"abort1", "abort2"}
  /\ Insert([j \in {p} \cup flushed |->
               NewRow(IF j = p THEN "failed" ELSE "queued", {})])
  /\ GoTo(p, "done")
  /\ UNCHANGED <<queue, cleanvars, taskvars, optvars>>

(* The single path: create_queued_job checks the suppression list again.   *)
RecheckRequest(s) ==
  /\ s \in Single /\ api[s] = "unsuppressed"
  /\ GoTo(s, IF suppressed THEN "listed" ELSE "rechecked")
  /\ UNCHANGED <<row, payload, fresh, queue, cleanvars, taskvars, optvars>>

CreateQueuedJob(s) ==
  /\ s \in Single
  /\ \/ /\ api[s] = "rechecked"
        /\ Insert([j \in {s} |-> NewRow("queued", {})])
        /\ GoTo(s, "created")
        /\ UNCHANGED <<queue, cleanvars, taskvars, optvars>>
     \/ /\ api[s] = "listed"
        /\ CreateSuppressedJob(s, "created")

EnqueueSingle(s) ==
  /\ s \in Single /\ api[s] = "created"
  /\ Enqueue(s, s, "done", "abort")

(* job.status = failed, without touching updated_at.                       *)
AbortSingle(s) ==
  /\ s \in Single /\ api[s] = "abort"
  /\ row' = [row EXCEPT ![s].status = "failed"]
  /\ GoTo(s, "done")
  /\ UNCHANGED <<payload, fresh, queue, cleanvars, taskvars, optvars>>

(* Pipeline.run: the row is committed as running, then executed inline.    *)
RunSync(s) ==
  /\ s \in Sync /\ api[s] = "idle"
  /\ row' = [row EXCEPT ![s] = NewRow("running", {})]
  /\ payload' = payload \cup {s}
  /\ GoTo(s, "done")
  /\ pc' = [pc EXCEPT ![s] = "marked"]
  /\ UNCHANGED <<fresh, queue, cleanvars, own, par, out, caught, cleared, optvars>>

(* The process dies: what it had not committed is gone, what it enqueued   *)
(* stays.                                                                  *)
CrashApi(r) ==
  /\ "crash" \in Env /\ r \notin Sync
  /\ api[r] \notin {"idle", "done", "dead"}
  /\ GoTo(r, "dead")
  /\ UNCHANGED <<row, payload, fresh, queue, cleanvars, taskvars, optvars>>

ApiStep(r) ==
  \/ CheckRequest(r) \/ RefuseRequest(r)
  \/ EnqueueTier1(r) \/ EnqueueTier234(r) \/ CommitSplit(r) \/ AbortSplit(r)
  \/ RecheckRequest(r) \/ CreateQueuedJob(r) \/ EnqueueSingle(r) \/ AbortSingle(r)
  \/ RunSync(r)

-----------------------------------------------------------------------------
(* The workers: run_enrichment_job, Pipeline.execute_job and               *)
(* Pipeline._execute_child_job                                             *)

At(j, s) == pc' = [pc EXCEPT ![j] = s]

(* The task returns or leaves its try block: its loaded rows are dropped.  *)
Leave(j, s) ==
  /\ At(j, s)
  /\ own' = [own EXCEPT ![j] = NoRow]
  /\ par' = [par EXCEPT ![j] = NoRow]
  /\ out' = [out EXCEPT ![j] = NoRow]
  /\ caught' = caught \ {j}

(* Load the row.  An unknown job is dropped with a warning; a purged       *)
(* request_payload does not validate, before the try block.                *)
Dequeue(j) ==
  /\ j \in queue /\ pc[j] = "idle"
  /\ queue' = queue \ {j}
  /\ IF Exists(j) /\ j \in payload
       THEN /\ At(j, "loaded")
            /\ own' = [own EXCEPT ![j] = row[j]]
            /\ UNCHANGED <<par, out, caught>>
       ELSE Leave(j, IF Exists(j) THEN "recover" ELSE "lost")
  /\ UNCHANGED <<row, payload, fresh, api, cleanvars, cleared, optvars>>

(* Whatever the status is by now, it becomes running, in the copy too.     *)
MarkRunning(j) ==
  /\ pc[j] = "loaded"
  /\ MarkStatus(j, "running")
  /\ own' = [own EXCEPT ![j].status = "running"]
  /\ At(j, "marked")
  /\ UNCHANGED <<payload, queue, api, cleanvars, par, out, caught, cleared, optvars>>

(* Fault: the task starts without looking at the suppression list.         *)
CheckSuppression_Skipped(j) ==
  /\ pc[j] = "marked"
  /\ own' = [own EXCEPT ![j] = row[j]]
  /\ At(j, "clear")
  /\ UNCHANGED <<row, payload, fresh, queue, api, cleanvars, par, out, caught, cleared, optvars>>

(* mark_status refreshes the copy; _execute checks the suppression list.   *)
CheckSuppression(j) ==
  /\ pc[j] = "marked"
  /\ own' = [own EXCEPT ![j] = row[j]]
  /\ At(j, IF suppressed THEN "stop" ELSE "clear")
  /\ cleared' = IF suppressed THEN cleared ELSE cleared \cup {j}
  /\ UNCHANGED <<row, payload, fresh, queue, api, cleanvars, par, out, caught, optvars>>

Store(j, new) ==
  /\ row' = [row EXCEPT ![j] = new]
  /\ fresh' = fresh \ {j}
  /\ own' = [own EXCEPT ![j] = new]
  /\ At(j, "wrote")
  /\ UNCHANGED <<payload, queue, api, cleanvars, par, out, caught, cleared, optvars>>

(* Fault: a status the rest of the system does not know.                   *)
StoreSuppressed_Unknown(j) ==
  /\ pc[j] = "stop"
  /\ Store(j, NewRow("opted_out", {Base}))

StoreSuppressed(j) ==
  /\ pc[j] = "stop"
  /\ Store(j, NewRow("suppressed", {Base}))

(* Fault: completed whether or not anything was found.                     *)
StoreResult_AlwaysCompleted(j) ==
  /\ pc[j] = "clear"
  /\ Store(j, NewRow("completed", {Base, j})) \/ Store(j, NewRow("completed", {Base}))

(* Fault: without findings the job is left running.                        *)
StoreResult_Unfinished(j) ==
  /\ pc[j] = "clear"
  /\ Store(j, NewRow("completed", {Base, j})) \/ Store(j, NewRow("running", {Base}))

(* Dispatch and merge take minutes; the final write rechecks nothing.      *)
StoreResult(j) ==
  /\ pc[j] = "clear"
  /\ \/ Store(j, NewRow("completed", {Base, j}))
     \/ Store(j, NewRow("completed_no_data", {Base}))

FinishJob(j) ==
  /\ j \notin Child /\ pc[j] = "wrote"
  /\ Leave(j, "done")
  /\ UNCHANGED <<row, payload, fresh, queue, api, cleanvars, cleared, optvars>>

(* The siblings as a query of this session returns them: the task's own    *)
(* row comes from its identity map, the other one from the table.          *)
Sibling(c, k) == IF k = c THEN own[c] ELSE row[k]

(* Fault: a failed or empty-handed child never counts.                     *)
AllChildrenComplete_Successful(p) ==
  \A k \in Kids(p) : Exists(k) => row[k].status = "completed"

(* Fault: any instead of all.                                              *)
AllChildrenComplete_Any(p) ==
  \E k \in Kids(p) : row[k].status \in Terminal

(* all_children_complete over the rows that exist.                         *)
AllChildrenComplete(p) ==
  \A k \in Kids(p) : Exists(k) => row[k].status \in Terminal

(* The refresh that ends mark_status, and the check right after it.        *)
CheckSiblings(c) ==
  /\ c \in Child /\ pc[c] = "wrote"
  /\ IF AllChildrenComplete(ParentOf(c))
       THEN /\ At(c, "merging")
            /\ own' = [own EXCEPT ![c] = row[c]]
            /\ UNCHANGED <<par, out, caught>>
       ELSE Leave(c, "done")
  /\ UNCHANGED <<row, payload, fresh, queue, api, cleanvars, cleared, optvars>>

LoadParent(c) ==
  /\ c \in Child /\ pc[c] = "merging"
  /\ par' = [par EXCEPT ![c] = row[ParentOf(c)]]
  /\ At(c, "joining")
  /\ UNCHANGED <<row, payload, fresh, queue, api, cleanvars, own, out, caught, cleared, optvars>>

(* Fault: only the dossiers of completed children are merged.              *)
Merged_CompletedOnly(c) ==
  LET good == {k \in Kids(ParentOf(c)) : Sibling(c, k).status = "completed"} IN
  NewRow(IF good # {} THEN "completed" ELSE "failed",
         {Base} \cup UNION {Sibling(c, k).dossier : k \in good})

(* _merge_child_dossiers and the parent's status.                          *)
Merged(c) ==
  LET kin == {k \in Kids(ParentOf(c)) : Exists(k)} IN
  NewRow(IF \E k \in kin : Sibling(c, k).status = "completed" THEN "completed" ELSE "failed",
         {Base} \cup UNION {Sibling(c, k).dossier : k \in kin})

LoadChildren(c) ==
  /\ c \in Child /\ pc[c] = "joining"
  /\ out' = [out EXCEPT ![c] = Merged(c)]
  /\ At(c, "joined")
  /\ UNCHANGED <<row, payload, fresh, queue, api, cleanvars, own, par, caught, cleared, optvars>>

(* mark_status on the parent: only what differs from the loaded copy is    *)
(* written; equal findings may still be a different document.              *)
JoinParent(c) ==
  LET p == ParentOf(c) IN
  /\ c \in Child /\ pc[c] = "joined"
  /\ \E d \in {out[c].dossier} \cup
              (IF par[c].dossier = out[c].dossier THEN {row[p].dossier} ELSE {}) :
       row' = [row EXCEPT ![p] =
                 NewRow(IF par[c].status = out[c].status THEN row[p].status
                                                         ELSE out[c].status, d)]
  /\ fresh' = fresh \ {p}
  /\ Leave(c, "done")
  /\ UNCHANGED <<payload, queue, api, cleanvars, cleared, optvars>>

TryBlock(j) == {"marked", "stop", "clear", "wrote"} \cup
               (IF j \in Child THEN {"merging", "joining", "joined"} ELSE {})

(* An exception in the try block; in the except branch it goes on to the   *)
(* recovery of _run_enrichment_job.                                        *)
Raise(j) ==
  /\ "raise" \in Env /\ j \notin Sync /\ pc[j] \in TryBlock(j)
  /\ IF j \in caught THEN Leave(j, "recover")
                     ELSE At(j, "failing") /\ UNCHANGED <<own, par, out, caught>>
  /\ UNCHANGED <<row, payload, fresh, queue, api, cleanvars, cleared, optvars>>

(* execute_job rolls back and marks the job failed.                        *)
FailJob(j) ==
  /\ j \notin Child /\ pc[j] = "failing"
  /\ MarkStatus(j, "failed")
  /\ Leave(j, "recover")
  /\ UNCHANGED <<payload, queue, api, cleanvars, cleared, optvars>>

(* _execute_child_job marks the child failed and goes on to the siblings.  *)
FailChild(c) ==
  /\ c \in Child /\ pc[c] = "failing"
  /\ MarkStatus(c, IF own[c].status = "failed" THEN row[c].status ELSE "failed")
  /\ own' = [own EXCEPT ![c].status = "failed"]
  /\ caught' = caught \cup {c}
  /\ At(c, "wrote")
  /\ UNCHANGED <<payload, queue, api, cleanvars, par, out, cleared, optvars>>

(* A database error: before the try block, or in a child, whose except     *)
(* branch uses the session without a rollback and raises again.            *)
BreakSession(j) ==
  /\ "db" \in Env /\ j \notin Sync
  /\ \/ pc[j] \in {"loaded", "failing"}
     \/ j \in Child /\ pc[j] \in TryBlock(j)
  /\ Leave(j, "recover")
  /\ UNCHANGED <<row, payload, fresh, queue, api, cleanvars, cleared, optvars>>

(* The recovery session marks the job failed if it reads it as running;    *)
(* it never looks at the parent.                                           *)
ReadForRecovery(j) ==
  /\ pc[j] = "recover"
  /\ At(j, IF row[j].status = "running" THEN "recovering" ELSE "raised")
  /\ UNCHANGED <<row, payload, fresh, queue, api, cleanvars, own, par, out, caught, cleared, optvars>>

Recover(j) ==
  /\ pc[j] = "recovering"
  /\ MarkStatus(j, "failed")
  /\ At(j, "raised")
  /\ UNCHANGED <<payload, queue, api, cleanvars, own, par, out, caught, cleared, optvars>>

(* The process dies or the coroutine is cancelled; for a Sync job also an  *)
(* exception, which nothing catches.                                       *)
Kill(j) ==
  /\ "kill" \in Env
  /\ pc[j] \notin {"idle", "lost", "done", "raised", "dead"}
  /\ Leave(j, "dead")
  /\ UNCHANGED <<row, payload, fresh, queue, api, cleanvars, cleared, optvars>>

TaskStep(j) ==
  \/ Dequeue(j) \/ MarkRunning(j) \/ CheckSuppression(j)
  \/ StoreSuppressed(j) \/ StoreResult(j) \/ FinishJob(j)
  \/ CheckSiblings(j) \/ LoadParent(j) \/ LoadChildren(j) \/ JoinParent(j)
  \/ FailJob(j) \/ FailChild(j) \/ ReadForRecovery(j) \/ Recover(j)

TaskFault(j) == Raise(j) \/ BreakSession(j) \/ Kill(j)

-----------------------------------------------------------------------------
(* worker-cleanup: cleanup_orphaned_jobs, every five minutes               *)

RequestOf(j) == IF j \in Child THEN ParentOf(j) ELSE j

(* Older than 15 minutes: the request that created the row is over.        *)
Old(j) == api[RequestOf(j)] \in {"done", "dead"}

(* Fault: queued jobs are not looked for.                                  *)
CleanupScan_RunningOnly ==
  /\ "cleanup" \in Env /\ stuck = {}
  /\ stuck' = {j \in fresh : row[j].status = "running" /\ Old(j)}
  /\ swept' = swept \cup (stuck' \cap Child)
  /\ UNCHANGED <<row, payload, fresh, queue, api, taskvars, optvars>>

CleanupScan ==
  /\ "cleanup" \in Env /\ stuck = {}
  /\ stuck' = {j \in fresh : row[j].status \in {"queued", "running"} /\ Old(j)}
  /\ swept' = swept \cup (stuck' \cap Child)
  /\ UNCHANGED <<row, payload, fresh, queue, api, taskvars, optvars>>

CleanupCommit ==
  /\ stuck # {}
  /\ row' = [j \in Job |-> IF j \in stuck THEN [row[j] EXCEPT !.status = "failed"]
                                          ELSE row[j]]
  /\ fresh' = fresh \ stuck
  /\ stuck' = {}
  /\ UNCHANGED <<payload, queue, api, swept, taskvars, optvars>>

-----------------------------------------------------------------------------
(* The opt-out: OptOutService.register and purge_identifier_data           *)

AddSuppression ==
  /\ "optout" \in Env /\ optout = "idle"
  /\ suppressed' = TRUE
  /\ inflight' = cleared
  /\ optout' = "listed"
  /\ UNCHANGED <<row, payload, fresh, queue, api, cleanvars, taskvars, seen, filled>>

SelectJobs ==
  /\ optout = "listed"
  /\ seen' = {j \in Job : Exists(j)}
  /\ filled' = {j \in seen' : row[j].dossier # {}}
  /\ optout' = "selected"
  /\ UNCHANGED <<row, payload, fresh, queue, api, cleanvars, taskvars, suppressed, inflight>>

(* A dossier that was {} when selected is not in the UPDATE.               *)
PurgeJobs ==
  /\ optout = "selected"
  /\ row' = [j \in Job |->
               IF j \in seen
                 THEN NewRow("purged", IF j \in filled THEN {} ELSE row[j].dossier)
                 ELSE row[j]]
  /\ payload' = payload \ seen
  /\ fresh' = fresh \ seen
  /\ optout' = "done"
  /\ seen' = {} /\ filled' = {}
  /\ UNCHANGED <<queue, api, cleanvars, taskvars, suppressed, inflight>>

(* The purge transaction is lost; the suppression stays.                   *)
PurgeFails ==
  /\ "nopurge" \in Env /\ optout = "selected"
  /\ optout' = "done"
  /\ seen' = {} /\ filled' = {}
  /\ UNCHANGED <<row, payload, fresh, queue, api, cleanvars, taskvars, suppressed, inflight>>

Next ==
  \/ \E r \in Root : ApiStep(r) \/ CrashApi(r)
  \/ \E j \in Exec : TaskStep(j) \/ TaskFault(j)
  \/ CleanupScan \/ CleanupCommit
  \/ AddSuppression \/ SelectJobs \/ PurgeJobs \/ PurgeFails

Spec == Init /\ [][Next]_vars

(* The event loop runs every request, RQ runs every worker it started, the *)
(* cleanup loop never ends.  Faults and opt-outs need not happen.          *)
Fairness ==
  /\ \A r \in Root : WF_vars(ApiStep(r))
  /\ \A j \in Exec : WF_vars(TaskStep(j))
  /\ WF_vars(CleanupScan) /\ WF_vars(CleanupCommit)

FairSpec == Spec /\ Fairness

-----------------------------------------------------------------------------
(* Properties *)

(* When both child tasks of a split job have run their sibling check to    *)
(* the end and both rows are terminal, the parent is terminal and its      *)
(* dossier holds everything the children found: whichever child finishes   *)
(* last sees the other one, even if both finish at the same time, one      *)
(* fails, or the enqueueing request failed.  The orphan cleanup goes by    *)
(* the stamps alone: it may fail a child that still waits in the queue,    *)
(* and its sibling then joins without it; such families promise nothing.   *)
Joined(p) ==
  (\A k \in Kids(p) : pc[k] = "done" /\ row[k].status \in Terminal)
    => /\ row[p].status \in Terminal
       /\ \A k \in Kids(p) : row[k].dossier \subseteq row[p].dossier

Swept(p) == Kids(p) \cap swept # {}

Unswept == {j \in Job : j \in Parent => ~Swept(j)}

NoLostJoin == \A p \in Parent \cap Unswept : Joined(p)

(* Findings of a task that checked the suppression list after the opt-out  *)
(* committed are in no dossier: only tasks already past the check leak.    *)
OnlyInflightLeaks ==
  suppressed => \A j \in Job : Findings(row[j]) \subseteq inflight

(* As long as nobody opts out, completed means findings and                *)
(* completed_no_data means none, for executed jobs as well as for parents  *)
(* whose children the cleanup left alone.                                  *)
StatusTellsFindings ==
  ~suppressed =>
    \A j \in Unswept :
      /\ row[j].status = "completed" => Findings(row[j]) # {}
      /\ row[j].status = "completed_no_data" => Findings(row[j]) = {}

(* As long as nobody opts out, no step takes findings away from a job: a   *)
(* late failure, the cleanup, a second join or an aborted request may      *)
(* change its status but never loses results already stored.  Only a       *)
(* parent whose child was failed in the queue can lose some: both children *)
(* may then join, one of them without what the other found.                *)
NoResultLost ==
  [][~suppressed => \A j \in Unswept : Findings(row[j]) \subseteq Findings(row'[j])]_vars

(* Every accepted request ends in a terminal status or is purged, unless a *)
(* worker dies, a job on its own breaks its session before it is running,  *)
(* or a child is not found or cannot be failed in its own session.         *)
Mishap(j) ==
  \/ pc[j] = "dead"
  \/ j \in Child /\ pc[j] \in {"lost", "recover"}
  \/ j \notin Child /\ pc[j] = "recover" /\ row[j].status = "queued"

RequestsSettle ==
  \A r \in Root :
    [](\A j \in Exec : RequestOf(j) = r => ~Mishap(j))
      => (api[r] = "done" ~> row[r].status \in Terminal \cup {"purged"})

(* Once the request is over and its tasks are at rest, without mishap, the *)
(* row is terminal or purged: nothing stays running with nobody left to    *)
(* finish it, whichever child joins and whatever was raised or swept.      *)
AtRest(j) == \/ pc[j] \in {"lost", "done", "raised", "dead"}
             \/ pc[j] = "idle" /\ j \notin queue

Mishandled(j) ==
  \/ pc[j] = "dead"
  \/ j \in Child /\ pc[j] \in {"lost", "raised"}
  \/ j \notin Child /\ pc[j] = "raised" /\ row[j].status = "queued"

SettledAtRest ==
  \A r \in Root :
    api[r] = "done" /\ (\A j \in Exec : RequestOf(j) = r => AtRest(j) /\ ~Mishandled(j))
      => row[r].status \in Terminal \cup {"purged"}

(* The cleanup fails every queued job that no worker will ever get, if its *)
(* two stamps came out equal and no purge comes first.                     *)
Orphan(s) == /\ row[s].status = "queued" /\ s \notin queue
             /\ pc[s] = "idle" /\ api[s] = "dead"

FreshOrphansFail ==
  \A s \in Single : (Orphan(s) /\ s \in fresh) ~> row[s].status \in {"failed", "purged"}

-----------------------------------------------------------------------------
(* What the repository's README says and a run refutes.                    *)

(* README.md:221: the client polls until completed, failed or suppressed.  *)
SplitJobsSettle ==
  \A p \in Parent : api[p] = "done" ~> row[p].status \in Terminal
=============================================================================
