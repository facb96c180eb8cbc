-------------------------- MODULE EnrichmentProofs --------------------------
(***************************************************************************)
(* Theorems about Enrichment, for any number of split, single and inline   *)
(* jobs and any disturbances, and that it implements ForkJoin.             *)
(***************************************************************************)
EXTENDS EnrichmentForkJoin, TLAPS

(* Every child belongs to its parent.                                      *)
LEMMA ParentOfChild ==
  ASSUME NEW c \in Child
  PROVE  ParentOf(c) \in Parent /\ c \in Kids(ParentOf(c))
PROOF
  <1>1. \E p \in Parent : c \in Kids(p)
    BY DEF Child
  <1> QED
    BY <1>1 DEF ParentOf

(* The rows the code writes are rows.                                      *)
LEMMA NewRowType ==
  ASSUME NEW s \in JobStatus, NEW d \in SUBSET (Exec \cup {Base})
  PROVE  NewRow(s, d) \in Row
PROOF
  BY DEF NewRow, Row

LEMMA NoRowType == NoRow \in Row
PROOF
  BY DEF NoRow, Row

(* Changing the status of a row keeps it a row.                            *)
LEMMA StatusType ==
  ASSUME NEW r \in Row, NEW s \in JobStatus
  PROVE  /\ [r EXCEPT !.status = s] \in Row
         /\ [r EXCEPT !.status = s].status = s
         /\ [r EXCEPT !.status = s].dossier = r.dossier
PROOF
  BY DEF Row

(* Leaving a task drops its copies.                                        *)
LEMMA LeaveType ==
  ASSUME TypeOK, NEW j \in Exec, NEW s \in TaskState, Leave(j, s)
  PROVE  /\ pc' \in [Exec -> TaskState]
         /\ own' \in [Exec -> Row] /\ par' \in [Exec -> Row] /\ out' \in [Exec -> Row]
         /\ caught' \subseteq Child
PROOF
  BY NoRowType DEF TypeOK, Leave, At

LEMMA MarkStatusType ==
  ASSUME TypeOK, NEW j \in Job, NEW s \in JobStatus \cup {"absent"}, MarkStatus(j, s)
  PROVE  row' \in [Job -> Row] /\ fresh' \subseteq Job
PROOF
  <1>1. [row[j] EXCEPT !.status = s] \in Row
    BY DEF TypeOK, Row
  <1> QED
    BY <1>1 DEF TypeOK, MarkStatus

LEMMA InsertType ==
  ASSUME TypeOK, NEW new, DOMAIN new \subseteq Job,
         \A j \in DOMAIN new : new[j] \in Row, Insert(new)
  PROVE  row' \in [Job -> Row] /\ payload' \subseteq Job /\ fresh' \subseteq Job
PROOF
  BY DEF TypeOK, Insert

(* Every step of the API preserves the types.                              *)
LEMMA ApiType ==
  ASSUME TypeOK, NEW r \in Root, ApiStep(r) \/ CrashApi(r)
  PROVE  TypeOK'
PROOF
  <1> USE DEF GoTo, ApiState, taskvars, cleanvars, optvars
  <1> \A s \in JobStatus : "absent" # s
    BY DEF JobStatus
  <1>0. Root \subseteq Job /\ Exec \subseteq Job /\ Child \subseteq Exec /\ Single \subseteq Exec
        /\ Sync \subseteq Exec
    BY DEF Root, Job, Exec
  <1>k. \A p \in Parent : Tier1[p] \in Child /\ Tier234[p] \in Child /\ Kids(p) \subseteq Child
    BY DEF Child, Kids
  <1>s. ASSUME NEW q \in Root, NEW n \in ApiState, CreateSuppressedJob(q, n)
        PROVE  TypeOK'
    <2>1. NewRow("suppressed", {Base}) \in Row
      BY DEF NewRow, Row, JobStatus
    <2> QED
      BY <1>0, <1>s, <2>1 DEF TypeOK, CreateSuppressedJob
  <1>e. ASSUME NEW q \in Root, NEW j \in Exec, NEW n \in ApiState, NEW m \in ApiState,
               Enqueue(q, j, n, m)
        PROVE  TypeOK'
    BY <1>e DEF TypeOK, Enqueue
  <1>1. CASE CheckRequest(r)
    BY <1>1 DEF TypeOK, CheckRequest
  <1>2. CASE RefuseRequest(r)
    BY <1>2, <1>s DEF RefuseRequest
  <1>3. CASE EnqueueTier1(r)
    BY <1>3, <1>0, <1>k, <1>e DEF EnqueueTier1
  <1>4. CASE EnqueueTier234(r)
    BY <1>4, <1>0, <1>k, <1>e DEF EnqueueTier234
  <1>5. CASE CommitSplit(r)
    <2> DEFINE new == [j \in {r} \cup Kids(r) |->
                         NewRow(IF j = r THEN "running" ELSE "queued", {})]
    <2>1. DOMAIN new \subseteq Job /\ \A j \in DOMAIN new : new[j] \in Row
      BY <1>5, <1>0, <1>k DEF CommitSplit, NewRow, Row, JobStatus
    <2>2. Insert(new)
      BY <1>5 DEF CommitSplit
    <2> HIDE DEF new
    <2> QED
      BY <1>5, <2>1, <2>2, InsertType DEF TypeOK, CommitSplit
  <1>6. CASE AbortSplit(r)
    <2> DEFINE flushed == IF api[r] = "abort1" THEN {Tier1[r]} ELSE Kids(r)
    <2> DEFINE new == [j \in {r} \cup flushed |->
                         NewRow(IF j = r THEN "failed" ELSE "queued", {})]
    <2>1. DOMAIN new \subseteq Job /\ \A j \in DOMAIN new : new[j] \in Row
      BY <1>6, <1>0, <1>k DEF AbortSplit, NewRow, Row, JobStatus
    <2>2. Insert(new)
      BY <1>6 DEF AbortSplit
    <2> HIDE DEF new
    <2> QED
      BY <1>6, <2>1, <2>2, InsertType DEF TypeOK, AbortSplit
  <1>7. CASE RecheckRequest(r)
    BY <1>7 DEF TypeOK, RecheckRequest
  <1>8. CASE CreateQueuedJob(r)
    <2> DEFINE new == [j \in {r} |-> NewRow("queued", {})]
    <2>1. CASE api[r] = "rechecked"
      <3>1. DOMAIN new \subseteq Job /\ \A j \in DOMAIN new : new[j] \in Row
        BY <1>0 DEF NewRow, Row, JobStatus
      <3>2. /\ Insert(new) /\ GoTo(r, "created")
            /\ UNCHANGED <<queue, cleanvars, taskvars, optvars>>
        BY <1>8, <2>1 DEF CreateQueuedJob
      <3> HIDE DEF new
      <3> QED
        BY <3>1, <3>2, InsertType DEF TypeOK
    <2>2. CASE api[r] = "listed"
      BY <1>8, <2>2, <1>s DEF CreateQueuedJob
    <2> QED
      BY <1>8, <2>1, <2>2 DEF CreateQueuedJob
  <1>9. CASE EnqueueSingle(r)
    BY <1>9, <1>0, <1>e DEF EnqueueSingle
  <1>10. CASE AbortSingle(r)
    <2>1. row[r] \in Row /\ "failed" \in JobStatus
      BY <1>0 DEF TypeOK, JobStatus
    <2>2. [row[r] EXCEPT !.status = "failed"] \in Row
      BY <2>1, StatusType
    <2> QED
      BY <1>10, <1>0, <2>2 DEF TypeOK, AbortSingle
  <1>11. CASE RunSync(r)
    <2>1. NewRow("running", {}) \in Row
      BY DEF NewRow, Row, JobStatus
    <2> QED
      BY <1>11, <1>0, <2>1 DEF TypeOK, RunSync, TaskState
  <1>12. CASE CrashApi(r)
    BY <1>12 DEF TypeOK, CrashApi
  <1> QED
    BY <1>1, <1>2, <1>3, <1>4, <1>5, <1>6, <1>7, <1>8, <1>9, <1>10, <1>11, <1>12
    DEF ApiStep

(* What the join computes is a row.                                        *)
LEMMA MergedType ==
  ASSUME TypeOK, NEW c \in Child
  PROVE  Merged(c) \in Row
PROOF
  <1>1. \A k \in Kids(ParentOf(c)) : Sibling(c, k) \in Row
    <2> SUFFICES ASSUME NEW k \in Kids(ParentOf(c)) PROVE Sibling(c, k) \in Row
      OBVIOUS
    <2>1. k \in Exec /\ k \in Job /\ c \in Exec
      BY ParentOfChild DEF Child, Exec, Job
    <2> QED
      BY <2>1 DEF TypeOK, Sibling
  <1>2. \A k \in Kids(ParentOf(c)) : Sibling(c, k).dossier \subseteq Exec \cup {Base}
    BY <1>1 DEF Row
  <1>3. {Base} \cup UNION {Sibling(c, k).dossier : k \in {k \in Kids(ParentOf(c)) : Exists(k)}}
          \subseteq Exec \cup {Base}
    BY <1>2
  <1> QED
    BY <1>3 DEF Merged, NewRow, Row, JobStatus

(* Every step of a task preserves the types.                               *)
LEMMA TaskType ==
  ASSUME TypeOK, NEW j \in Exec, TaskStep(j) \/ TaskFault(j)
  PROVE  TypeOK'
PROOF
  <1> USE DEF taskvars, cleanvars, optvars
  <1>0. Exec \subseteq Job /\ Child \subseteq Exec /\ Parent \subseteq Job
    BY DEF Job, Exec
  <1>l. ASSUME NEW s \in TaskState, Leave(j, s),
               row' \in [Job -> Row], fresh' \subseteq Job, queue' \subseteq queue,
               UNCHANGED <<payload, api, cleanvars, cleared, optvars>>
        PROVE  TypeOK'
    BY <1>l, LeaveType DEF TypeOK
  <1>s. ASSUME NEW s \in JobStatus, NEW d \in SUBSET (Exec \cup {Base}), Store(j, NewRow(s, d))
        PROVE  TypeOK'
    BY <1>0, <1>s, NewRowType DEF TypeOK, Store, At, TaskState
  <1>1. CASE Dequeue(j)
    <2>1. CASE Exists(j) /\ j \in payload
      BY <1>0, <1>1, <2>1 DEF TypeOK, Dequeue, At, TaskState
    <2>2. CASE ~(Exists(j) /\ j \in payload)
      <3>1. Leave(j, IF Exists(j) THEN "recover" ELSE "lost")
        BY <1>1, <2>2 DEF Dequeue
      <3> QED
        BY <1>1, <3>1, <1>l DEF TypeOK, Dequeue, TaskState
    <2> QED
      BY <2>1, <2>2
  <1>2. CASE MarkRunning(j)
    <2>1. row' \in [Job -> Row] /\ fresh' \subseteq Job
      BY <1>0, <1>2, MarkStatusType DEF MarkRunning, JobStatus
    <2>2. own[j] \in Row /\ "running" \in JobStatus
      BY DEF TypeOK, JobStatus
    <2>3. [own[j] EXCEPT !.status = "running"] \in Row
      BY <2>2, StatusType
    <2> QED
      BY <1>2, <2>1, <2>3 DEF TypeOK, MarkRunning, At, TaskState
  <1>3. CASE CheckSuppression(j)
    BY <1>0, <1>3 DEF TypeOK, CheckSuppression, At, TaskState
  <1>4. CASE StoreSuppressed(j)
    BY <1>4, <1>s DEF StoreSuppressed, JobStatus
  <1>5. CASE StoreResult(j)
    BY <1>5, <1>s DEF StoreResult, JobStatus
  <1>6. CASE FinishJob(j)
    BY <1>6, <1>l DEF TypeOK, FinishJob, TaskState
  <1>7. CASE CheckSiblings(j)
    <2>1. CASE AllChildrenComplete(ParentOf(j))
      BY <1>0, <1>7, <2>1 DEF TypeOK, CheckSiblings, At, TaskState
    <2>2. CASE ~AllChildrenComplete(ParentOf(j))
      BY <1>7, <2>2, <1>l DEF TypeOK, CheckSiblings, TaskState
    <2> QED
      BY <2>1, <2>2
  <1>8. CASE LoadParent(j)
    BY <1>0, <1>8, ParentOfChild DEF TypeOK, LoadParent, At, TaskState
  <1>9. CASE LoadChildren(j)
    <2>1. Merged(j) \in Row
      BY <1>9, MergedType DEF LoadChildren
    <2> QED
      BY <1>9, <2>1 DEF TypeOK, LoadChildren, At, TaskState
  <1>10. CASE JoinParent(j)
    <2> DEFINE p == ParentOf(j)
    <2>1. p \in Job /\ row[p] \in Row /\ out[j] \in Row
      BY <1>0, <1>10, ParentOfChild DEF TypeOK, JoinParent
    <2>2. PICK d \in {out[j].dossier, row[p].dossier} :
            row' = [row EXCEPT ![p] =
                      NewRow(IF par[j].status = out[j].status THEN row[p].status
                                                              ELSE out[j].status, d)]
      BY <1>10 DEF JoinParent
    <2>3. NewRow(IF par[j].status = out[j].status THEN row[p].status ELSE out[j].status, d)
            \in Row
      BY <2>1 DEF NewRow, Row
    <2>4. row' \in [Job -> Row]
      BY <2>1, <2>2, <2>3 DEF TypeOK
    <2> QED
      BY <1>10, <2>4, <1>l DEF TypeOK, JoinParent, TaskState
  <1>11. CASE FailJob(j)
    <2>1. row' \in [Job -> Row] /\ fresh' \subseteq Job
      BY <1>0, <1>11, MarkStatusType DEF FailJob, JobStatus
    <2> QED
      BY <1>11, <2>1, <1>l DEF FailJob, TaskState
  <1>12. CASE FailChild(j)
    <2>1. (IF own[j].status = "failed" THEN row[j].status ELSE "failed")
            \in JobStatus \cup {"absent"}
      BY <1>0 DEF TypeOK, Row, JobStatus
    <2>2. row' \in [Job -> Row] /\ fresh' \subseteq Job
      BY <1>0, <1>12, <2>1, MarkStatusType DEF FailChild
    <2>3. own[j] \in Row /\ "failed" \in JobStatus
      BY DEF TypeOK, JobStatus
    <2>4. [own[j] EXCEPT !.status = "failed"] \in Row
      BY <2>3, StatusType
    <2> QED
      BY <1>12, <2>2, <2>4 DEF TypeOK, FailChild, At, TaskState
  <1>13. CASE ReadForRecovery(j)
    BY <1>13 DEF TypeOK, ReadForRecovery, At, TaskState
  <1>14. CASE Recover(j)
    <2>1. row' \in [Job -> Row] /\ fresh' \subseteq Job
      BY <1>0, <1>14, MarkStatusType DEF Recover, JobStatus
    <2> QED
      BY <1>14, <2>1 DEF TypeOK, Recover, At, TaskState
  <1>15. CASE Raise(j)
    <2>1. CASE j \in caught
      BY <1>15, <2>1, <1>l DEF TypeOK, Raise, TaskState
    <2>2. CASE j \notin caught
      BY <1>15, <2>2 DEF TypeOK, Raise, At, TaskState
    <2> QED
      BY <2>1, <2>2
  <1>16. CASE BreakSession(j)
    BY <1>16, <1>l DEF TypeOK, BreakSession, TaskState
  <1>17. CASE Kill(j)
    BY <1>17, <1>l DEF TypeOK, Kill, TaskState
  <1> QED
    BY <1>1, <1>2, <1>3, <1>4, <1>5, <1>6, <1>7, <1>8, <1>9, <1>10, <1>11, <1>12, <1>13,
       <1>14, <1>15, <1>16, <1>17
    DEF TaskStep, TaskFault

(* So do the cleanup and the opt-out.                                      *)
LEMMA ServiceType ==
  ASSUME TypeOK,
         \/ CleanupScan \/ CleanupCommit
         \/ AddSuppression \/ SelectJobs \/ PurgeJobs \/ PurgeFails
  PROVE  TypeOK'
PROOF
  <1> USE DEF taskvars, cleanvars, optvars
  <1>1. CASE CleanupScan
    BY <1>1 DEF TypeOK, CleanupScan
  <1>2. CASE CleanupCommit
    <2>1. \A j \in Job : [row[j] EXCEPT !.status = "failed"] \in Row
      BY StatusType DEF TypeOK, JobStatus
    <2>2. row' \in [Job -> Row]
      BY <1>2, <2>1 DEF TypeOK, CleanupCommit
    <2> QED
      BY <1>2, <2>2 DEF TypeOK, CleanupCommit
  <1>3. CASE AddSuppression
    BY <1>3 DEF TypeOK, AddSuppression
  <1>4. CASE SelectJobs
    BY <1>4 DEF TypeOK, SelectJobs
  <1>5. CASE PurgeJobs
    <2>1. \A j \in Job : NewRow("purged", IF j \in filled THEN {} ELSE row[j].dossier) \in Row
      BY DEF TypeOK, NewRow, Row, JobStatus
    <2>2. row' \in [Job -> Row]
      BY <1>5, <2>1 DEF TypeOK, PurgeJobs
    <2> QED
      BY <1>5, <2>2 DEF TypeOK, PurgeJobs
  <1>6. CASE PurgeFails
    BY <1>6 DEF TypeOK, PurgeFails
  <1> QED
    BY <1>1, <1>2, <1>3, <1>4, <1>5, <1>6

LEMMA InitType == Init => TypeOK
PROOF
  BY NoRowType DEF Init, TypeOK, ApiState, TaskState

(* Type correctness: whatever the requests, tasks, faults, cleanup and     *)
(* opt-out do, rows, copies and progress stay within their types.          *)
THEOREM TypeCorrect == Spec => []TypeOK
PROOF
  <1>1. TypeOK /\ [Next]_vars => TypeOK'
    <2> SUFFICES ASSUME TypeOK, [Next]_vars PROVE TypeOK'
      OBVIOUS
    <2>1. CASE Next
      BY <2>1, ApiType, TaskType, ServiceType DEF Next
    <2>2. CASE UNCHANGED vars
      BY <2>2 DEF TypeOK, vars, taskvars, cleanvars, optvars
    <2> QED
      BY <2>1, <2>2
  <1> QED
    BY InitType, <1>1, PTL DEF Spec

-----------------------------------------------------------------------------
(* Only tasks past the suppression check leak                              *)

(* Findings come from tasks whose check found nothing, wherever they are   *)
(* kept, and no task passes the check once the subject is suppressed.      *)
LeakInv ==
  /\ \A j \in Job : row[j].dossier \subseteq cleared \cup {Base}
  /\ \A j \in Exec : /\ own[j].dossier \subseteq cleared \cup {Base}
                     /\ out[j].dossier \subseteq cleared \cup {Base}
                     /\ pc[j] = "clear" => j \in cleared
  /\ suppressed => cleared = inflight

(* A step that adds nothing to the history, the rows and the copies.       *)
LEMMA LeakStep ==
  ASSUME LeakInv,
         UNCHANGED <<cleared, suppressed, inflight>>,
         \A j \in Job : row'[j].dossier \subseteq cleared \cup {Base},
         \A j \in Exec : /\ own'[j].dossier \subseteq cleared \cup {Base}
                         /\ out'[j].dossier \subseteq cleared \cup {Base}
                         /\ pc'[j] = "clear" => pc[j] = "clear"
  PROVE  LeakInv'
PROOF
  BY DEF LeakInv

LEMMA LeakApi ==
  ASSUME TypeOK, LeakInv, NEW r \in Root, ApiStep(r) \/ CrashApi(r)
  PROVE  LeakInv'
PROOF
  <1> USE DEF GoTo, taskvars, cleanvars, optvars
  <1>0. Root \subseteq Job /\ Sync \subseteq Exec
    BY DEF Root, Job, Exec
  <1>i. ASSUME NEW new, \A j \in DOMAIN new : new[j].dossier = {}, Insert(new),
               UNCHANGED <<taskvars, optvars>>
        PROVE  LeakInv'
    <2>1. \A j \in Job : row'[j].dossier \subseteq cleared \cup {Base}
      BY <1>i DEF Insert, LeakInv
    <2> QED
      BY <1>i, <2>1 DEF LeakInv
  <1>s. ASSUME NEW q \in Root, NEW n, CreateSuppressedJob(q, n)
        PROVE  LeakInv'
    BY <1>0, <1>s DEF CreateSuppressedJob, NewRow, LeakInv, TypeOK
  <1>1. CASE CheckRequest(r)
    BY <1>1 DEF LeakInv, CheckRequest
  <1>2. CASE RefuseRequest(r)
    BY <1>2, <1>s DEF RefuseRequest
  <1>3. CASE EnqueueTier1(r) \/ EnqueueTier234(r) \/ EnqueueSingle(r)
    BY <1>3 DEF LeakInv, EnqueueTier1, EnqueueTier234, EnqueueSingle, Enqueue
  <1>4. CASE CommitSplit(r)
    BY <1>4, <1>i DEF CommitSplit, NewRow
  <1>5. CASE AbortSplit(r)
    <2> DEFINE flushed == IF api[r] = "abort1" THEN {Tier1[r]} ELSE Kids(r)
    <2> DEFINE new == [j \in {r} \cup flushed |->
                         NewRow(IF j = r THEN "failed" ELSE "queued", {})]
    <2>1. Insert(new) /\ UNCHANGED <<taskvars, optvars>>
      BY <1>5 DEF AbortSplit
    <2>2. \A j \in DOMAIN new : new[j].dossier = {}
      BY DEF NewRow
    <2> HIDE DEF new
    <2> QED
      BY <2>1, <2>2, <1>i
  <1>6. CASE RecheckRequest(r)
    BY <1>6 DEF LeakInv, RecheckRequest
  <1>7. CASE CreateQueuedJob(r)
    <2>1. CASE CreateSuppressedJob(r, "created")
      BY <2>1, <1>s
    <2>2. CASE ~CreateSuppressedJob(r, "created")
      BY <1>7, <2>2, <1>i DEF CreateQueuedJob, NewRow
    <2> QED
      BY <2>1, <2>2
  <1>8. CASE AbortSingle(r)
    BY <1>0, <1>8 DEF LeakInv, AbortSingle, TypeOK, Row
  <1>9. CASE RunSync(r)
    BY <1>0, <1>9 DEF LeakInv, RunSync, NewRow, TypeOK
  <1>10. CASE CrashApi(r)
    BY <1>10 DEF LeakInv, CrashApi
  <1> QED
    BY <1>1, <1>2, <1>3, <1>4, <1>5, <1>6, <1>7, <1>8, <1>9, <1>10 DEF ApiStep

LEMMA LeakTask ==
  ASSUME TypeOK, LeakInv, NEW j \in Exec, TaskStep(j) \/ TaskFault(j)
  PROVE  LeakInv'
PROOF
  <1> USE DEF taskvars, cleanvars, optvars
  <1>0. Exec \subseteq Job /\ Child \subseteq Exec /\ Parent \subseteq Job
    BY DEF Job, Exec
  <1>l. ASSUME NEW s, s # "clear", Leave(j, s),
               \A i \in Job : row'[i].dossier \subseteq cleared \cup {Base},
               UNCHANGED <<cleared, optvars>>
        PROVE  LeakInv'
    <2>1. \A i \in Exec : /\ own'[i].dossier \subseteq cleared \cup {Base}
                          /\ out'[i].dossier \subseteq cleared \cup {Base}
                          /\ pc'[i] = "clear" => pc[i] = "clear"
      BY <1>l DEF Leave, At, NoRow, LeakInv, TypeOK
    <2> QED
      BY <1>l, <2>1, LeakStep
  <1>m. ASSUME NEW i \in Job, NEW s, MarkStatus(i, s)
        PROVE  \A k \in Job : row'[k].dossier = row[k].dossier
    BY <1>m DEF MarkStatus, TypeOK, Row
  <1>s. ASSUME NEW s, NEW d \in SUBSET (cleared \cup {Base}), Store(j, NewRow(s, d))
        PROVE  LeakInv'
    BY <1>0, <1>s DEF Store, At, NewRow, LeakInv, TypeOK
  <1>1. CASE Dequeue(j)
    <2>1. CASE Exists(j) /\ j \in payload
      BY <1>0, <1>1, <2>1 DEF TypeOK, Dequeue, At, LeakInv
    <2>2. CASE ~(Exists(j) /\ j \in payload)
      BY <1>1, <2>2, <1>l DEF Dequeue, LeakInv
    <2> QED
      BY <2>1, <2>2
  <1>2. CASE MarkRunning(j)
    <2>1. \A k \in Job : row'[k].dossier = row[k].dossier
      BY <1>0, <1>2, <1>m DEF MarkRunning
    <2> QED
      BY <1>2, <2>1 DEF MarkRunning, At, LeakInv, TypeOK
  <1>3. CASE CheckSuppression(j)
    BY <1>0, <1>3 DEF TypeOK, CheckSuppression, At, LeakInv
  <1>4. CASE StoreSuppressed(j)
    BY <1>4, <1>s DEF StoreSuppressed
  <1>5. CASE StoreResult(j)
    BY <1>5, <1>s DEF StoreResult, LeakInv
  <1>6. CASE FinishJob(j)
    BY <1>6, <1>l DEF FinishJob, LeakInv
  <1>7. CASE CheckSiblings(j)
    <2>1. CASE AllChildrenComplete(ParentOf(j))
      BY <1>0, <1>7, <2>1 DEF TypeOK, CheckSiblings, At, LeakInv
    <2>2. CASE ~AllChildrenComplete(ParentOf(j))
      BY <1>7, <2>2, <1>l DEF CheckSiblings, LeakInv
    <2> QED
      BY <2>1, <2>2
  <1>8. CASE LoadParent(j)
    BY <1>8 DEF TypeOK, LoadParent, At, LeakInv
  <1>9. CASE LoadChildren(j)
    <2>1. \A k \in Kids(ParentOf(j)) : Sibling(j, k).dossier \subseteq cleared \cup {Base}
      BY <1>0, <1>9, ParentOfChild DEF LoadChildren, Sibling, LeakInv, Child, Exec, Job
    <2>2. Merged(j).dossier \subseteq cleared \cup {Base}
      BY <2>1 DEF Merged, NewRow
    <2> QED
      BY <1>9, <2>2 DEF TypeOK, LoadChildren, At, LeakInv
  <1>10. CASE JoinParent(j)
    <2> DEFINE p == ParentOf(j)
    <2>1. p \in Job
      BY <1>0, <1>10, ParentOfChild DEF JoinParent
    <2>2. PICK d \in {out[j].dossier, row[p].dossier} :
            row' = [row EXCEPT ![p] =
                      NewRow(IF par[j].status = out[j].status THEN row[p].status
                                                              ELSE out[j].status, d)]
      BY <1>10 DEF JoinParent
    <2>3. \A i \in Job : row'[i].dossier \subseteq cleared \cup {Base}
      BY <2>1, <2>2 DEF LeakInv, NewRow, TypeOK
    <2> QED
      BY <1>10, <2>3, <1>l DEF JoinParent
  <1>11. CASE FailJob(j)
    BY <1>0, <1>11, <1>m, <1>l DEF FailJob, LeakInv
  <1>12. CASE FailChild(j)
    <2>1. \A k \in Job : row'[k].dossier = row[k].dossier
      BY <1>0, <1>12, <1>m DEF FailChild
    <2>2. \A k \in Exec : own'[k].dossier = own[k].dossier
      BY <1>12 DEF FailChild, TypeOK, Row
    <2> QED
      BY <1>12, <2>1, <2>2 DEF FailChild, At, LeakInv, TypeOK
  <1>13. CASE ReadForRecovery(j)
    BY <1>13 DEF ReadForRecovery, At, LeakInv, TypeOK
  <1>14. CASE Recover(j)
    <2>1. \A k \in Job : row'[k].dossier = row[k].dossier
      BY <1>0, <1>14, <1>m DEF Recover
    <2> QED
      BY <1>14, <2>1 DEF Recover, At, LeakInv, TypeOK
  <1>15. CASE Raise(j)
    <2>1. CASE j \in caught
      BY <1>15, <2>1, <1>l DEF Raise, LeakInv
    <2>2. CASE j \notin caught
      BY <1>15, <2>2 DEF Raise, At, LeakInv, TypeOK
    <2> QED
      BY <2>1, <2>2
  <1>16. CASE BreakSession(j)
    BY <1>16, <1>l DEF BreakSession, LeakInv
  <1>17. CASE Kill(j)
    BY <1>17, <1>l DEF Kill, LeakInv
  <1> QED
    BY <1>1, <1>2, <1>3, <1>4, <1>5, <1>6, <1>7, <1>8, <1>9, <1>10, <1>11, <1>12, <1>13,
       <1>14, <1>15, <1>16, <1>17
    DEF TaskStep, TaskFault

LEMMA LeakService ==
  ASSUME TypeOK, LeakInv,
         \/ CleanupScan \/ CleanupCommit
         \/ AddSuppression \/ SelectJobs \/ PurgeJobs \/ PurgeFails
  PROVE  LeakInv'
PROOF
  <1> USE DEF taskvars, cleanvars, optvars
  <1>1. CASE CleanupScan \/ SelectJobs \/ PurgeFails
    BY <1>1 DEF LeakInv, CleanupScan, SelectJobs, PurgeFails
  <1>2. CASE CleanupCommit
    <2>1. \A j \in Job : row'[j].dossier = row[j].dossier
      BY <1>2 DEF CleanupCommit, TypeOK, Row
    <2> QED
      BY <1>2, <2>1 DEF LeakInv, CleanupCommit
  <1>3. CASE AddSuppression
    BY <1>3 DEF LeakInv, AddSuppression
  <1>4. CASE PurgeJobs
    <2>1. \A j \in Job : row'[j].dossier \subseteq row[j].dossier
      BY <1>4 DEF PurgeJobs, NewRow
    <2> QED
      BY <1>4, <2>1 DEF LeakInv, PurgeJobs
  <1> QED
    BY <1>1, <1>2, <1>3, <1>4

(* Once the subject is suppressed, no job ever holds findings of a task    *)
(* that checked the suppression list afterwards, whatever fails, retries,  *)
(* joins or is purged.                                                     *)
THEOREM OnlyInflightLeaksAlways == Spec => []OnlyInflightLeaks
PROOF
  <1>1. Init => LeakInv
    BY DEF Init, LeakInv, NoRow
  <1>2. TypeOK /\ LeakInv /\ [Next]_vars => LeakInv'
    <2> SUFFICES ASSUME TypeOK, LeakInv, [Next]_vars PROVE LeakInv'
      OBVIOUS
    <2>1. CASE Next
      BY <2>1, LeakApi, LeakTask, LeakService DEF Next
    <2>2. CASE UNCHANGED vars
      BY <2>2 DEF LeakInv, vars, taskvars, cleanvars, optvars
    <2> QED
      BY <2>1, <2>2
  <1>3. LeakInv => OnlyInflightLeaks
    BY DEF LeakInv, OnlyInflightLeaks, Findings
  <1> QED
    BY <1>1, <1>2, <1>3, TypeCorrect, PTL DEF Spec

-----------------------------------------------------------------------------
(* The rows of a split job                                                 *)

Ended(k)   == row[k].status \in Terminal
Joining(k) == pc[k] \in {"merging", "joining", "joined"}

(* The task will not store a result any more.                              *)
PastStore(k) == pc[k] \notin {"idle", "lost", "loaded", "marked", "stop", "clear"}

(* Rows of a split job appear in the transaction that ends its request,    *)
(* and the purge selects all of them or none.                              *)
RowsInv ==
  /\ \A p \in Parent : Exists(p) \/ p \in seen => api[p] = "done"
  /\ \A k \in Child : /\ Exists(k) => api[ParentOf(k)] = "done"
                      /\ pc[k] \notin {"idle", "lost"} => Exists(k)
                      /\ ParentOf(k) \in seen /\ Exists(k) => k \in seen
                      /\ k \in seen => Exists(k)
                      /\ pc[k] = "joined" => out[k].status \in Terminal

(* The cleanup only writes rows it found, and every child it ever found is *)
(* on record.                                                              *)
SweepInv ==
  /\ \A j \in stuck \cap (Parent \cup Child) : Exists(j)
  /\ stuck \cap Child \subseteq swept

(* Parents, children and the other jobs are different jobs.                *)
LEMMA Families ==
  /\ \A p \in Parent : \A k \in Kids(p) : k \in Child /\ ParentOf(k) = p
  /\ \A c \in Child : ParentOf(c) \in Parent /\ c \in Kids(ParentOf(c))
  /\ Parent \cap Child = {}
  /\ (Single \cup Sync) \cap (Parent \cup Child) = {}
PROOF
  <1>1. \A p \in Parent : \A k \in Kids(p) : k \in Child /\ ParentOf(k) = p
    <2> SUFFICES ASSUME NEW p \in Parent, NEW k \in Kids(p)
                 PROVE  k \in Child /\ ParentOf(k) = p
      OBVIOUS
    <2>1. k \in Child
      BY DEF Child
    <2>2. ParentOf(k) \in Parent /\ k \in Kids(ParentOf(k))
      BY <2>1, ParentOfChild
    <2> QED
      BY <2>1, <2>2, JobsAssumption
  <1> QED
    BY <1>1, ParentOfChild, JobsAssumption DEF Exec

(* A request that is not over has inserted no row of its family; the step  *)
(* that ends it may insert them.                                           *)
LEMMA RowsApi ==
  ASSUME TypeOK, RowsInv, SweepInv, NEW r \in Root, ApiStep(r) \/ CrashApi(r)
  PROVE  RowsInv' /\ SweepInv'
PROOF
  <1> USE DEF GoTo, taskvars, cleanvars, optvars
  <1>0. /\ r \in Parent \/ r \in Single \/ r \in Sync
        /\ Parent \subseteq Job /\ Child \subseteq Job /\ Child \subseteq Exec
        /\ Parent \subseteq Root
    BY DEF Root, Job, Exec
  <1>1. UNCHANGED <<stuck, swept, seen>>
    BY DEF ApiStep, CrashApi, CheckRequest, RefuseRequest, CreateSuppressedJob, EnqueueTier1,
       EnqueueTier234, CommitSplit, AbortSplit, RecheckRequest, CreateQueuedJob,
       EnqueueSingle, Enqueue, AbortSingle, RunSync
  <1>2. CASE r \notin Parent
    <2>1. /\ \A p \in Parent : row'[p] = row[p] /\ api'[p] = api[p]
          /\ \A k \in Child : row'[k] = row[k] /\ pc'[k] = pc[k]
          /\ UNCHANGED out
      BY <1>0, <1>2, Families
      DEF ApiStep, CrashApi, CheckRequest, RefuseRequest, CreateSuppressedJob, EnqueueTier1,
          EnqueueTier234, CommitSplit, AbortSplit, RecheckRequest, CreateQueuedJob, Insert,
          EnqueueSingle, Enqueue, AbortSingle, RunSync, TypeOK
    <2> QED
      BY <1>1, <2>1, Families DEF RowsInv, SweepInv, Exists
  <1>3. CASE r \in Parent
    <2>0. r \notin Single /\ r \notin Sync
      BY <1>3, Families
    <2>1. /\ api[r] # "done" /\ UNCHANGED <<pc, out>>
          /\ \A q \in Parent : q # r => api'[q] = api[q]
      BY <1>0, <1>3, <2>0
      DEF ApiStep, CrashApi, CheckRequest, RefuseRequest, CreateSuppressedJob, EnqueueTier1,
          EnqueueTier234, CommitSplit, AbortSplit, RecheckRequest, CreateQueuedJob,
          EnqueueSingle, Enqueue, AbortSingle, RunSync, TypeOK
    <2>2. \/ row' = row
          \/ api'[r] = "done" /\ \A j \in Job : j \notin {r} \cup Kids(r) => row'[j] = row[j]
      BY <1>0, <1>3, <2>0
      DEF ApiStep, CrashApi, CheckRequest, RefuseRequest, CreateSuppressedJob, EnqueueTier1,
          EnqueueTier234, CommitSplit, AbortSplit, RecheckRequest, CreateQueuedJob, Insert,
          EnqueueSingle, Enqueue, AbortSingle, RunSync, Kids, TypeOK
    <2>3. ~Exists(r) /\ r \notin seen
      BY <1>3, <2>1 DEF RowsInv
    <2>4. \A k \in Child : ParentOf(k) = r => ~Exists(k) /\ k \notin seen /\ pc[k] \in {"idle", "lost"}
      BY <2>1 DEF RowsInv
    <2>5. r \notin stuck /\ \A k \in Child : ParentOf(k) = r => k \notin stuck
      BY <1>3, <2>3, <2>4 DEF SweepInv
    <2>6. \A k \in Child : ParentOf(k) # r => k \notin {r} \cup Kids(r)
      BY <1>3, Families
    <2>7. /\ \A q \in Parent : q # r => (Exists(q)' <=> Exists(q))
          /\ \A k \in Child : ParentOf(k) # r => (Exists(k)' <=> Exists(k))
          /\ Exists(r)' \/ (\E k \in Child : ParentOf(k) = r /\ Exists(k)') => api'[r] = "done"
      BY <1>0, <1>3, <2>2, <2>3, <2>4, <2>6, Families DEF Exists
    <2>8. RowsInv'
      BY <1>1, <1>3, <2>1, <2>3, <2>4, <2>7, Families DEF RowsInv
    <2> QED
      BY <1>1, <2>5, <2>7, <2>8, Families DEF SweepInv
  <1> QED
    BY <1>2, <1>3

(* A task inserts no row and removes none.                                 *)
LEMMA RowsTask ==
  ASSUME TypeOK, RowsInv, SweepInv, NEW j \in Exec, TaskStep(j) \/ TaskFault(j)
  PROVE  RowsInv' /\ SweepInv'
PROOF
  <1> USE DEF taskvars, cleanvars, optvars
  <1>0. Exec \subseteq Job /\ Child \subseteq Exec /\ Parent \subseteq Job /\ j \notin Parent
        /\ "absent" \notin JobStatus
    BY JobsAssumption DEF Job, Exec, JobStatus
  <1>1. /\ UNCHANGED <<api, seen, stuck, swept>>
        /\ \A k \in Exec : k # j => pc'[k] = pc[k] /\ out'[k] = out[k]
    BY DEF TaskStep, TaskFault, Dequeue, MarkRunning, CheckSuppression,
       StoreSuppressed, StoreResult, Store, FinishJob, CheckSiblings, LoadParent,
       LoadChildren, JoinParent, FailJob, FailChild, ReadForRecovery, Recover, Raise,
       BreakSession, Kill, Leave, At, TypeOK
  <1>2. CASE j \notin Child
    <2>1. \A i \in Job : i # j => row'[i] = row[i]
      BY <1>0, <1>2
      DEF TaskStep, TaskFault, Dequeue, MarkRunning, MarkStatus, CheckSuppression,
          StoreSuppressed, StoreResult, Store, FinishJob, CheckSiblings, LoadParent,
          LoadChildren, JoinParent, FailJob, FailChild, ReadForRecovery, Recover, Raise,
          BreakSession, Kill, TypeOK
    <2> QED
      BY <1>0, <1>1, <1>2, <2>1, Families DEF RowsInv, SweepInv, Exists
  <1>3. CASE j \in Child
    <2> DEFINE p == ParentOf(j)
    <2>0. /\ p \in Parent /\ p \in Job /\ j \in Job /\ j # p
          /\ pc[j] \notin {"idle", "lost"} => Exists(j)
      BY <1>0, <1>3, Families DEF RowsInv
    <2>1. \A i \in Job : i \notin {j, p} => row'[i] = row[i]
      BY <1>0, <1>3, <2>0
      DEF TaskStep, TaskFault, Dequeue, MarkRunning, MarkStatus, CheckSuppression,
          StoreSuppressed, StoreResult, Store, FinishJob, CheckSiblings, LoadParent,
          LoadChildren, JoinParent, FailJob, FailChild, ReadForRecovery, Recover, Raise,
          BreakSession, Kill, TypeOK
    <2>2. /\ Exists(j)' <=> Exists(j)
          /\ Exists(p) => Exists(p)'
          /\ row'[p] # row[p] => Exists(j)
          /\ pc'[j] \notin {"idle", "lost"} => Exists(j)
      <3>1. CASE Dequeue(j) \/ CheckSuppression(j) \/ CheckSiblings(j) \/ LoadParent(j)
                   \/ LoadChildren(j) \/ ReadForRecovery(j) \/ TaskFault(j)
        <4>1. row' = row
          BY <3>1 DEF Dequeue, CheckSuppression, CheckSiblings, LoadParent, LoadChildren,
                      ReadForRecovery, TaskFault, Raise, BreakSession, Kill
        <4>2. pc'[j] \notin {"idle", "lost"} => Exists(j)
          BY <2>0, <3>1
          DEF Dequeue, CheckSuppression, CheckSiblings, LoadParent, LoadChildren,
              ReadForRecovery, TaskFault, Raise, BreakSession, Kill, Leave, At, TryBlock, TypeOK
        <4> QED
          BY <4>1, <4>2 DEF Exists
      <3>2. CASE MarkRunning(j) \/ FailChild(j) \/ Recover(j)
        <4>1. Exists(j)
          BY <2>0, <3>2 DEF MarkRunning, FailChild, Recover
        <4>2. PICK s \in {"running", "failed", row[j].status} : row' = [row EXCEPT ![j].status = s]
          BY <3>2 DEF MarkRunning, FailChild, Recover, MarkStatus
        <4>3. row'[j].status = s /\ row'[p] = row[p]
          BY <2>0, <4>2 DEF TypeOK, Row
        <4> QED
          BY <4>1, <4>3 DEF Exists
      <3>3. CASE StoreSuppressed(j) \/ StoreResult(j)
        <4>1. Exists(j)
          BY <2>0, <3>3 DEF StoreSuppressed, StoreResult
        <4>2. PICK s \in {"suppressed", "completed", "completed_no_data"}, d \in {{Base}, {Base, j}} :
                row' = [row EXCEPT ![j] = NewRow(s, d)]
          BY <3>3 DEF StoreSuppressed, StoreResult, Store
        <4>3. row'[j].status = s /\ row'[p] = row[p]
          BY <2>0, <4>2 DEF TypeOK, NewRow
        <4> QED
          BY <4>1, <4>3 DEF Exists
      <3>4. CASE JoinParent(j)
        <4>1. Exists(j) /\ row'[j] = row[j]
          BY <2>0, <3>4 DEF JoinParent, TypeOK
        <4>2. row'[p].status \in {row[p].status, out[j].status}
          BY <2>0, <3>4 DEF JoinParent, NewRow, TypeOK
        <4>3. Exists(p) => Exists(p)'
          BY <1>3, <3>4, <4>2 DEF JoinParent, RowsInv, Exists, Terminal
        <4> QED
          BY <4>1, <4>3 DEF Exists
      <3> QED
        BY <1>3, <3>1, <3>2, <3>3, <3>4 DEF TaskStep, FinishJob, FailJob
    <2>3. pc'[j] = "joined" => out'[j].status \in Terminal
      <3> SUFFICES ASSUME pc'[j] = "joined" PROVE out'[j].status \in Terminal
        OBVIOUS
      <3>1. LoadChildren(j)
        BY <1>0, <1>3
        DEF TaskStep, TaskFault, Dequeue, MarkRunning, CheckSuppression,
            StoreSuppressed, StoreResult, Store, FinishJob, CheckSiblings, LoadParent,
            JoinParent, FailJob, FailChild, ReadForRecovery, Recover, Raise,
            BreakSession, Kill, Leave, At, TypeOK
      <3>2. out'[j] = Merged(j)
        BY <3>1 DEF LoadChildren, TypeOK
      <3> QED
        BY <3>2 DEF Merged, NewRow, Terminal
    <2>4. \A k \in Parent \cup Child : Exists(k) => Exists(k)'
      BY <1>0, <2>1, <2>2 DEF Exists
    <2>5. SweepInv'
      BY <1>1, <2>4 DEF SweepInv
    <2>6. \A q \in Parent : Exists(q)' \/ q \in seen' => api'[q] = "done"
      <3>1. \A q \in Parent : q # p => (Exists(q)' <=> Exists(q))
        BY <1>0, <1>3, <2>1, Families DEF Exists
      <3>2. Exists(p)' => Exists(p) \/ Exists(j)
        BY <2>2 DEF Exists
      <3> QED
        BY <1>1, <1>3, <3>1, <3>2 DEF RowsInv
    <2>7. \A k \in Child : k # j => (Exists(k)' <=> Exists(k)) /\ pc'[k] = pc[k] /\ out'[k] = out[k]
      BY <1>0, <1>1, <2>0, <2>1, Families DEF Exists
    <2>8. RowsInv'
      BY <1>1, <1>3, <2>2, <2>3, <2>6, <2>7 DEF RowsInv
    <2> QED
      BY <2>5, <2>8
  <1> QED
    BY <1>2, <1>3

(* The cleanup and the purge write rows they found.                        *)
LEMMA RowsService ==
  ASSUME TypeOK, RowsInv, SweepInv,
         \/ CleanupScan \/ CleanupCommit
         \/ AddSuppression \/ SelectJobs \/ PurgeJobs \/ PurgeFails
  PROVE  RowsInv' /\ SweepInv'
PROOF
  <1> USE DEF taskvars, cleanvars, optvars
  <1>0. /\ Parent \subseteq Job /\ Child \subseteq Job
        /\ UNCHANGED <<api, pc, out>>
    BY DEF Job, Exec, CleanupScan, CleanupCommit, AddSuppression, SelectJobs, PurgeJobs, PurgeFails
  <1>1. CASE CleanupScan
    <2>1. \A j \in stuck' : Exists(j)
      BY <1>1 DEF CleanupScan, Exists
    <2> QED
      BY <1>0, <1>1, <2>1 DEF CleanupScan, RowsInv, SweepInv, Exists
  <1>2. CASE CleanupCommit
    <2>1. \A j \in Parent \cup Child : Exists(j)' <=> Exists(j)
      <3> SUFFICES ASSUME NEW j \in Parent \cup Child PROVE Exists(j)' <=> Exists(j)
        OBVIOUS
      <3>1. CASE j \in stuck
        <4>1. row[j] \in Row /\ "failed" \in JobStatus
          BY <1>0 DEF TypeOK, JobStatus
        <4>2. row'[j].status = "failed"
          BY <1>0, <1>2, <3>1, <4>1, StatusType DEF CleanupCommit
        <4> QED
          BY <3>1, <4>2 DEF SweepInv, Exists
      <3>2. CASE j \notin stuck
        BY <1>0, <1>2, <3>2 DEF CleanupCommit, Exists
      <3> QED
        BY <3>1, <3>2
    <2>2. seen' = seen /\ stuck' = {}
      BY <1>2 DEF CleanupCommit
    <2> QED
      BY <1>0, <2>1, <2>2 DEF RowsInv, SweepInv
  <1>3. CASE AddSuppression
    BY <1>0, <1>3 DEF AddSuppression, RowsInv, SweepInv, Exists
  <1>4. CASE SelectJobs \/ PurgeFails
    <2>1. /\ UNCHANGED <<row, stuck, swept>>
          /\ seen' = {} \/ seen' = {j \in Job : Exists(j)}
      BY <1>4 DEF SelectJobs, PurgeFails
    <2> QED
      BY <1>0, <2>1 DEF RowsInv, SweepInv, Exists
  <1>5. CASE PurgeJobs
    <2>1. /\ UNCHANGED <<stuck, swept>> /\ seen' = {}
          /\ \A j \in Job : IF j \in seen THEN row'[j].status = "purged" ELSE row'[j] = row[j]
      BY <1>5 DEF PurgeJobs, NewRow
    <2>2. \A k \in Child : Exists(k)' <=> Exists(k)
      BY <1>0, <2>1 DEF Exists, RowsInv
    <2>3. \A p \in Parent : /\ Exists(p) => Exists(p)'
                            /\ Exists(p)' => Exists(p) \/ p \in seen
      BY <1>0, <2>1 DEF Exists
    <2> QED
      BY <1>0, <2>1, <2>2, <2>3 DEF RowsInv, SweepInv
  <1> QED
    BY <1>1, <1>2, <1>3, <1>4, <1>5

LEMMA RowsStep ==
  ASSUME TypeOK, RowsInv, SweepInv, [Next]_vars
  PROVE  RowsInv' /\ SweepInv'
PROOF
  <1>1. CASE Next
    BY <1>1, RowsApi, RowsTask, RowsService DEF Next
  <1>2. CASE UNCHANGED vars
    BY <1>2 DEF vars, taskvars, cleanvars, optvars, RowsInv, SweepInv, Exists
  <1> QED
    BY <1>1, <1>2

-----------------------------------------------------------------------------
(* The join                                                                *)

(* The families the cleanup has never selected a child of.                 *)
CalmParent == {p \in Parent : ~Swept(p)}
Calm       == {k \in Child : ParentOf(k) \in CalmParent}

(* A child is final before it looks at its sibling, and whoever joins does *)
(* so after every child is final.                                          *)
StoreInv ==
  /\ \A k \in Calm : Ended(k) => PastStore(k)
  /\ \A c, k \in Calm :
       Joining(c) /\ ParentOf(c) = ParentOf(k) /\ Exists(k) => PastStore(k)

(* What a joining child holds covers what the children's rows hold.        *)
HeldInv ==
  /\ \A c \in Calm : Joining(c) => row[c].dossier \subseteq own[c].dossier
  /\ \A c, k \in Calm :
       pc[c] = "joined" /\ ParentOf(c) = ParentOf(k) /\ Exists(k)
         => row[k].dossier \subseteq out[c].dossier

(* The parent never falls behind the copy a joining child has of it,       *)
(* unless a purge took the child as well.                                  *)
CopyInv ==
  \A c \in Calm :
    pc[c] \in {"joining", "joined"} /\ Ended(c) =>
      /\ par[c].status \in Terminal => Ended(ParentOf(c))
      /\ \/ par[c].dossier \subseteq row[ParentOf(c)].dossier
         \/ \A k \in Calm : ParentOf(c) = ParentOf(k) /\ Exists(k)
              => row[k].dossier \subseteq row[ParentOf(c)].dossier

CalmJoined == \A p \in CalmParent : Joined(p)

JoinInv == RowsInv /\ SweepInv /\ StoreInv /\ HeldInv /\ CopyInv /\ CalmJoined

LEMMA CalmFamilies ==
  /\ CalmParent \subseteq Parent /\ Calm \subseteq Child
  /\ \A p \in CalmParent : \A k \in Kids(p) : k \in Calm /\ ParentOf(k) = p
  /\ \A c \in Calm : ParentOf(c) \in CalmParent /\ c \in Kids(ParentOf(c)) /\ c \notin swept
  /\ CalmParent \cap Calm = {}
PROOF
  BY Families DEF Calm, CalmParent, Swept

LEMMA StaysCalm ==
  ASSUME UNCHANGED swept
  PROVE  Calm' = Calm /\ CalmParent' = CalmParent
PROOF
  BY DEF Calm, CalmParent, Swept

(* The invariant looks at calm families only, and allows their parent any  *)
(* write that keeps its dossier and does not reopen it.                    *)
LEMMA JoinFrame ==
  ASSUME JoinInv, RowsInv', SweepInv', UNCHANGED swept,
         \A p \in CalmParent : /\ row'[p].dossier = row[p].dossier
                               /\ Ended(p) => Ended(p)',
         \A k \in Calm : /\ row'[k] = row[k] /\ pc'[k] = pc[k]
                         /\ own'[k] = own[k] /\ par'[k] = par[k] /\ out'[k] = out[k]
  PROVE  JoinInv'
PROOF
  <1>0. Calm' = Calm /\ CalmParent' = CalmParent
    BY StaysCalm
  <1>1. StoreInv'
    BY <1>0 DEF JoinInv, StoreInv, Ended, PastStore, Joining, Exists
  <1>2. HeldInv'
    BY <1>0 DEF JoinInv, HeldInv, Joining, Exists
  <1>3. CopyInv'
    BY <1>0, CalmFamilies DEF JoinInv, CopyInv, Ended, Exists
  <1>4. CalmJoined'
    BY <1>0, CalmFamilies DEF JoinInv, CalmJoined, Joined, Ended
  <1> QED
    BY <1>1, <1>2, <1>3, <1>4 DEF JoinInv

(* The last step of a request inserts its rows; no child has started.      *)
LEMMA JoinInsert ==
  ASSUME JoinInv, RowsInv', SweepInv', NEW p \in Parent, api[p] # "done",
         UNCHANGED <<pc, own, par, out, swept>>,
         \A j \in Job : j \notin {p} \cup Kids(p) => row'[j] = row[j],
         \A k \in Kids(p) : row'[k].status \notin Terminal
  PROVE  JoinInv'
PROOF
  <1>0. /\ Parent \subseteq Job /\ Child \subseteq Job
        /\ Calm' = Calm /\ CalmParent' = CalmParent
    BY StaysCalm DEF Job, Exec
  <1>1. \A k \in Kids(p) : ~Exists(k) /\ pc[k] \in {"idle", "lost"}
    BY Families DEF JoinInv, RowsInv
  <1>2. \A q \in Parent : q # p => row'[q] = row[q] /\ \A k \in Kids(q) : row'[k] = row[k]
    BY <1>0, Families
  <1>3. \A k \in Calm : ParentOf(k) # p => row'[k] = row[k] /\ row'[ParentOf(k)] = row[ParentOf(k)]
    BY <1>0, Families, CalmFamilies
  <1>4. \A k \in Calm : ParentOf(k) = p => ~Exists(k) /\ pc[k] \in {"idle", "lost"} /\ ~Ended(k)'
    BY <1>1, Families, CalmFamilies DEF Ended
  <1>5. StoreInv'
    BY <1>0, <1>3, <1>4 DEF JoinInv, StoreInv, Ended, PastStore, Joining, Exists
  <1>6. HeldInv'
    BY <1>0, <1>3, <1>4 DEF JoinInv, HeldInv, Joining, Exists
  <1>7. CopyInv'
    BY <1>0, <1>3, <1>4 DEF JoinInv, CopyInv, Ended, Exists
  <1>8. CalmJoined'
    <2> SUFFICES ASSUME NEW q \in CalmParent PROVE Joined(q)'
      BY <1>0 DEF CalmJoined
    <2>1. CASE q = p
      BY <2>1 DEF Joined, Kids
    <2>2. CASE q # p
      BY <1>2, <2>2, CalmFamilies DEF JoinInv, CalmJoined, Joined, Kids
    <2> QED
      BY <2>1, <2>2
  <1> QED
    BY <1>5, <1>6, <1>7, <1>8 DEF JoinInv

LEMMA JoinApi ==
  ASSUME TypeOK, JoinInv, RowsInv', SweepInv', NEW r \in Root, ApiStep(r) \/ CrashApi(r)
  PROVE  JoinInv'
PROOF
  <1> USE DEF GoTo, taskvars, cleanvars, optvars
  <1>0. /\ r \in Parent \/ r \in Single \/ r \in Sync
        /\ Parent \subseteq Job /\ Child \subseteq Job /\ Child \subseteq Exec
        /\ Parent \subseteq Root
    BY DEF Root, Job, Exec
  <1>1. CASE r \notin Parent
    <2>1. /\ UNCHANGED <<swept, own, par, out>>
          /\ \A p \in Parent : row'[p] = row[p]
          /\ \A k \in Child : row'[k] = row[k] /\ pc'[k] = pc[k]
      BY <1>0, <1>1, Families
      DEF ApiStep, CrashApi, CheckRequest, RefuseRequest, CreateSuppressedJob, EnqueueTier1,
          EnqueueTier234, CommitSplit, AbortSplit, RecheckRequest, CreateQueuedJob, Insert,
          EnqueueSingle, Enqueue, AbortSingle, RunSync, TypeOK
    <2> QED
      BY <2>1, CalmFamilies, JoinFrame DEF Ended
  <1>2. CASE r \in Parent
    <2>0. r \notin Single /\ r \notin Sync
      BY <1>2, Families
    <2>1. CASE CheckRequest(r) \/ EnqueueTier1(r) \/ EnqueueTier234(r) \/ CrashApi(r)
      <3>1. UNCHANGED <<row, pc, own, par, out, swept>>
        BY <2>1 DEF CheckRequest, EnqueueTier1, EnqueueTier234, CrashApi, Enqueue
      <3> QED
        BY <3>1, JoinFrame DEF Ended
    <2>2. CASE RefuseRequest(r)
      <3>1. \A k \in Kids(r) : k \in Child /\ k # r /\ k \in Job
        BY <1>0, <1>2, Families
      <3>2. /\ api[r] # "done" /\ UNCHANGED <<pc, own, par, out, swept>>
            /\ \A j \in Job : j # r => row'[j] = row[j]
        BY <1>0, <1>2, <2>2 DEF RefuseRequest, CreateSuppressedJob, TypeOK
      <3>3. \A k \in Kids(r) : row'[k].status \notin Terminal
        BY <1>2, <3>1, <3>2, Families DEF JoinInv, RowsInv, Exists, Terminal
      <3> QED
        BY <1>2, <3>2, <3>3, JoinInsert
    <2>3. CASE CommitSplit(r) \/ AbortSplit(r)
      <3>1. PICK flushed \in SUBSET Kids(r), s \in {"running", "failed"} :
              Insert([j \in {r} \cup flushed |-> NewRow(IF j = r THEN s ELSE "queued", {})])
        <4>1. CASE CommitSplit(r)
          BY <4>1 DEF CommitSplit
        <4>2. CASE AbortSplit(r)
          BY <4>2 DEF AbortSplit, Kids
        <4> QED
          BY <2>3, <4>1, <4>2
      <3>2. api[r] # "done" /\ UNCHANGED <<pc, own, par, out, swept>>
        BY <1>0, <1>2, <2>3 DEF CommitSplit, AbortSplit, TypeOK
      <3>3. \A k \in Kids(r) : k \in Job /\ k # r /\ ~Exists(k)
        BY <1>0, <1>2, <3>2, Families DEF JoinInv, RowsInv
      <3>4. \A j \in Job : j \notin {r} \cup Kids(r) => row'[j] = row[j]
        BY <3>1 DEF Insert
      <3>5. \A k \in Kids(r) : row'[k].status \in {"queued", "absent"}
        BY <3>1, <3>3 DEF Insert, NewRow, Exists
      <3>6. \A k \in Kids(r) : row'[k].status \notin Terminal
        BY <3>5 DEF Terminal
      <3> QED
        BY <1>2, <3>2, <3>4, <3>6, JoinInsert
    <2> QED
      BY <1>0, <2>0, <2>1, <2>2, <2>3 DEF ApiStep, RecheckRequest, CreateQueuedJob,
         EnqueueSingle, AbortSingle, RunSync
  <1> QED
    BY <1>1, <1>2

(* A step of one child that is not a step of the join.                     *)
LEMMA JoinOther ==
  ASSUME TypeOK, JoinInv, RowsInv', SweepInv', NEW j \in Calm,
         UNCHANGED swept,
         \A i \in Job : i # j => row'[i] = row[i],
         \A k \in Calm : k # j => /\ pc'[k] = pc[k] /\ own'[k] = own[k]
                                  /\ par'[k] = par[k] /\ out'[k] = out[k],
         Exists(j)' <=> Exists(j),
         row'[j].dossier = row[j].dossier \/ ~PastStore(j),
         PastStore(j) => PastStore(j)',
         Ended(j)' => PastStore(j)',
         ~Joining(j)',
         pc'[j] = "done" => \E k \in Kids(ParentOf(j)) : ~Ended(k)'
  PROVE  JoinInv'
PROOF
  <1>0. /\ CalmParent \subseteq Job /\ Calm \subseteq Job
        /\ Calm' = Calm /\ CalmParent' = CalmParent
    BY CalmFamilies, StaysCalm DEF Job, Exec
  <1>3. \A p \in CalmParent : row'[p] = row[p]
    BY <1>0, CalmFamilies
  <1>1. \A k \in Calm : Exists(k)' <=> Exists(k)
    BY <1>0 DEF Exists
  <1>2. \A c, k \in Calm :
          Joining(c)' /\ ParentOf(c) = ParentOf(k) /\ Exists(k)'
            => /\ Joining(c) /\ c # j /\ PastStore(k) /\ row'[k].dossier = row[k].dossier
    BY <1>0, <1>1 DEF JoinInv, StoreInv, Joining
  <1>4. StoreInv'
    BY <1>0, <1>2 DEF JoinInv, StoreInv, Ended, PastStore
  <1>5. HeldInv'
    <2>1. \A c \in Calm : Joining(c)' => row'[c].dossier \subseteq own'[c].dossier
      BY <1>0 DEF JoinInv, HeldInv, Joining
    <2>3. \A c, k \in Calm :
            pc'[c] = "joined" /\ ParentOf(c) = ParentOf(k) /\ Exists(k)'
              => row'[k].dossier \subseteq out'[c].dossier
      BY <1>1, <1>2 DEF JoinInv, HeldInv, Joining
    <2> QED
      BY <1>0, <2>1, <2>3 DEF HeldInv
  <1>6. CopyInv'
    <2> SUFFICES ASSUME NEW c \in Calm, (pc[c] \in {"joining", "joined"} /\ Ended(c))'
                 PROVE  /\ par'[c].status \in Terminal => Ended(ParentOf(c))'
                        /\ \/ par'[c].dossier \subseteq row'[ParentOf(c)].dossier
                           \/ \A k \in Calm : ParentOf(c) = ParentOf(k) /\ Exists(k)'
                                => row'[k].dossier \subseteq row'[ParentOf(c)].dossier
      BY <1>0 DEF CopyInv
    <2>1. Joining(c)' /\ c # j
      BY DEF Joining
    <2>2. /\ row'[c] = row[c] /\ row'[ParentOf(c)] = row[ParentOf(c)]
          /\ pc'[c] = pc[c] /\ par'[c] = par[c]
      BY <1>0, <1>3, <2>1, CalmFamilies
    <2>3. \A k \in Calm : ParentOf(c) = ParentOf(k) /\ Exists(k)'
            => Exists(k) /\ row'[k].dossier = row[k].dossier
      BY <1>1, <1>2, <2>1
    <2> QED
      BY <2>2, <2>3 DEF JoinInv, CopyInv, Ended
  <1>7. CalmJoined'
    <2> SUFFICES ASSUME NEW p \in CalmParent,
                        \A k \in Kids(p) : pc'[k] = "done" /\ row'[k].status \in Terminal
                 PROVE  /\ row'[p].status \in Terminal
                        /\ \A k \in Kids(p) : row'[k].dossier \subseteq row'[p].dossier
      BY <1>0 DEF CalmJoined, Joined, Kids
    <2>1. j \notin Kids(p)
      BY CalmFamilies DEF Ended
    <2>2. \A k \in Kids(p) : row'[k] = row[k] /\ pc'[k] = pc[k]
      BY <1>0, <2>1, CalmFamilies
    <2> QED
      BY <1>3, <2>2 DEF JoinInv, CalmJoined, Joined
  <1> QED
    BY <1>4, <1>5, <1>6, <1>7 DEF JoinInv

(* The steps of the join up to the write: only the child's copies change.  *)
LEMMA JoinCopies ==
  ASSUME TypeOK, JoinInv, RowsInv', SweepInv', NEW j \in Calm,
         \/ CheckSiblings(j) /\ AllChildrenComplete(ParentOf(j))
         \/ LoadParent(j)
         \/ LoadChildren(j)
  PROVE  JoinInv'
PROOF
  <1> USE DEF taskvars, cleanvars, optvars
  <1>0. /\ UNCHANGED <<row, swept>>
        /\ j \in Exec /\ j \in Child /\ Calm' = Calm /\ CalmParent' = CalmParent
        /\ \A k \in Calm : k # j => /\ pc'[k] = pc[k] /\ own'[k] = own[k]
                                    /\ par'[k] = par[k] /\ out'[k] = out[k]
        /\ pc'[j] \in {"merging", "joining", "joined"}
        /\ pc[j] \in {"wrote", "merging", "joining"}
    BY CalmFamilies, StaysCalm DEF CheckSiblings, LoadParent, LoadChildren, At, TypeOK, Exec
  <1>2. StoreInv'
    <2>1. \A k \in Calm : ParentOf(k) = ParentOf(j) /\ Exists(k) => PastStore(k)
      <3>1. CASE CheckSiblings(j) /\ AllChildrenComplete(ParentOf(j))
        BY <3>1, CalmFamilies DEF AllChildrenComplete, JoinInv, StoreInv, Ended
      <3>2. CASE LoadParent(j) \/ LoadChildren(j)
        BY <3>2 DEF LoadParent, LoadChildren, JoinInv, StoreInv, Joining
      <3> QED
        BY <3>1, <3>2
    <2> QED
      BY <1>0, <2>1 DEF JoinInv, StoreInv, Ended, PastStore, Joining, Exists
  <1>3. HeldInv'
    <2>1. row[j].dossier \subseteq own'[j].dossier
      BY <1>0 DEF CheckSiblings, LoadParent, LoadChildren, JoinInv, HeldInv, Joining, TypeOK
    <2>2. CASE ~LoadChildren(j)
      <3>1. pc'[j] # "joined"
        BY <1>0, <2>2 DEF CheckSiblings, LoadParent, At, TypeOK
      <3> QED
        BY <1>0, <2>1, <3>1 DEF JoinInv, HeldInv, Joining, Exists
    <2>3. CASE LoadChildren(j)
      <3>1. out'[j] = Merged(j) /\ own'[j] = own[j]
        BY <1>0, <2>3 DEF LoadChildren, TypeOK
      <3>2. Merged(j).status \in Terminal
        BY DEF Merged, NewRow, Terminal
      <3>3. \A k \in Calm : ParentOf(j) = ParentOf(k) /\ Exists(k)
              => row[k].dossier \subseteq Merged(j).dossier
        <4> SUFFICES ASSUME NEW k \in Calm, ParentOf(j) = ParentOf(k), Exists(k)
                     PROVE  row[k].dossier \subseteq Merged(j).dossier
          OBVIOUS
        <4>1. row[k].dossier \subseteq Sibling(j, k).dossier
          BY <2>1, <3>1 DEF Sibling
        <4>2. k \in Kids(ParentOf(j))
          BY CalmFamilies
        <4> QED
          BY <4>1, <4>2 DEF Merged, NewRow
      <3> QED
        BY <1>0, <2>1, <3>1, <3>2, <3>3 DEF JoinInv, HeldInv, Joining, Exists
    <2> QED
      BY <2>2, <2>3
  <1>4. CopyInv'
    <2>1. CASE CheckSiblings(j)
      <3>1. pc'[j] \notin {"joining", "joined"}
        BY <1>0, <2>1 DEF CheckSiblings, Leave, At, TypeOK
      <3> QED
        BY <1>0, <3>1 DEF JoinInv, CopyInv, Ended, Exists
    <2>2. CASE LoadParent(j)
      <3>1. par'[j] = row[ParentOf(j)]
        BY <1>0, <2>2 DEF LoadParent, TypeOK
      <3> QED
        BY <1>0, <3>1 DEF JoinInv, CopyInv, Ended, Exists
    <2>3. CASE LoadChildren(j)
      <3>1. par'[j] = par[j] /\ pc[j] = "joining"
        BY <2>3 DEF LoadChildren
      <3> QED
        BY <1>0, <3>1 DEF JoinInv, CopyInv, Ended, Exists
    <2> QED
      BY <2>1, <2>2, <2>3
  <1>5. CalmJoined'
    BY <1>0, CalmFamilies DEF JoinInv, CalmJoined, Joined
  <1> QED
    BY <1>2, <1>3, <1>4, <1>5 DEF JoinInv

(* The write of the join.                                                  *)
LEMMA JoinWrite ==
  ASSUME TypeOK, JoinInv, RowsInv', SweepInv', NEW j \in Calm, JoinParent(j)
  PROVE  JoinInv'
PROOF
  <1> DEFINE p == ParentOf(j)
  <1>0. /\ p \in CalmParent /\ p \notin Calm /\ p \in Job /\ j \in Exec
        /\ Calm \subseteq Job /\ CalmParent \subseteq Job
        /\ j \in Child /\ pc[j] = "joined" /\ Joining(j) /\ Exists(j)
        /\ Calm' = Calm /\ CalmParent' = CalmParent
    BY CalmFamilies, StaysCalm DEF JoinParent, cleanvars, Joining, Job, Exec, JoinInv, RowsInv
  <1>1. /\ UNCHANGED swept
        /\ \A i \in Job : i # p => row'[i] = row[i]
        /\ \A k \in Calm : row'[k] = row[k]
        /\ \A k \in Calm : k # j => /\ pc'[k] = pc[k] /\ own'[k] = own[k]
                                    /\ par'[k] = par[k] /\ out'[k] = out[k]
        /\ pc'[j] = "done"
    BY <1>0, CalmFamilies DEF JoinParent, Leave, At, TypeOK, cleanvars
  (* The parent keeps or gets a terminal status, and what its row holds    *)
  (* is the merged dossier or what was there.                              *)
  <1>3. /\ row'[p].status = row[p].status \/ row'[p].status \in Terminal
        /\ Ended(j) => row'[p].status \in Terminal
    BY <1>0 DEF JoinParent, NewRow, TypeOK, JoinInv, RowsInv, CopyInv, Ended
  <1>4. \/ \A k \in Calm : ParentOf(k) = p /\ Exists(k) => row[k].dossier \subseteq row'[p].dossier
        \/ row'[p].dossier = row[p].dossier
    <2>1. row'[p].dossier \in {out[j].dossier, row[p].dossier}
      BY <1>0 DEF JoinParent, NewRow, TypeOK
    <2> QED
      BY <1>0, <2>1 DEF JoinInv, HeldInv
  <1>5. Ended(j) => \A k \in Calm : ParentOf(k) = p /\ Exists(k)
                      => row[k].dossier \subseteq row'[p].dossier
    <2>1. \/ row'[p].dossier = out[j].dossier
          \/ row'[p].dossier = row[p].dossier /\ par[j].dossier = out[j].dossier
      BY <1>0 DEF JoinParent, NewRow, TypeOK
    <2>2. \A k \in Calm : ParentOf(k) = p /\ Exists(k) => row[k].dossier \subseteq out[j].dossier
      BY <1>0 DEF JoinInv, HeldInv
    <2> QED
      BY <1>0, <2>1, <2>2 DEF JoinInv, CopyInv
  <1>7. StoreInv' /\ HeldInv'
    BY <1>0, <1>1 DEF JoinInv, StoreInv, HeldInv, Ended, PastStore, Joining, Exists
  <1>8. CopyInv'
    <2> SUFFICES ASSUME NEW c \in Calm, (pc[c] \in {"joining", "joined"} /\ Ended(c))'
                 PROVE  /\ par'[c].status \in Terminal => Ended(ParentOf(c))'
                        /\ \/ par'[c].dossier \subseteq row'[ParentOf(c)].dossier
                           \/ \A k \in Calm : ParentOf(c) = ParentOf(k) /\ Exists(k)'
                                => row'[k].dossier \subseteq row'[ParentOf(c)].dossier
      BY <1>0 DEF CopyInv
    <2>1. c # j /\ pc'[c] = pc[c] /\ par'[c] = par[c] /\ row'[c] = row[c] /\ ParentOf(c) \in Job
      BY <1>0, <1>1, CalmFamilies
    <2>2. CASE ParentOf(c) # p
      <3>1. row'[ParentOf(c)] = row[ParentOf(c)]
        BY <1>1, <2>1, <2>2
      <3> QED
        BY <1>1, <2>1, <3>1 DEF JoinInv, CopyInv, Ended, Exists
    <2>3. CASE ParentOf(c) = p
      BY <1>1, <1>3, <1>4, <2>1, <2>3 DEF JoinInv, CopyInv, Ended, Exists
    <2> QED
      BY <2>2, <2>3
  <1>9. CalmJoined'
    <2> SUFFICES ASSUME NEW q \in CalmParent,
                        \A k \in Kids(q) : pc'[k] = "done" /\ row'[k].status \in Terminal
                 PROVE  /\ row'[q].status \in Terminal
                        /\ \A k \in Kids(q) : row'[k].dossier \subseteq row'[q].dossier
      BY <1>0 DEF CalmJoined, Joined, Kids
    <2>1. CASE q # p
      <3>1. row'[q] = row[q] /\ \A k \in Kids(q) : row'[k] = row[k] /\ pc'[k] = pc[k]
        BY <1>0, <1>1, <2>1, CalmFamilies
      <3> QED
        BY <3>1 DEF JoinInv, CalmJoined, Joined
    <2>2. CASE q = p
      <3>1. Ended(j) /\ \A k \in Kids(p) : k \in Calm /\ ParentOf(k) = p /\ Exists(k)
        BY <1>0, <1>1, <2>2, CalmFamilies DEF Ended, Exists, Terminal
      <3> QED
        BY <1>1, <1>3, <1>5, <2>2, <3>1
    <2> QED
      BY <2>1, <2>2
  <1> QED
    BY <1>7, <1>8, <1>9 DEF JoinInv

LEMMA JoinTask ==
  ASSUME TypeOK, JoinInv, RowsInv', SweepInv', NEW j \in Exec, TaskStep(j) \/ TaskFault(j)
  PROVE  JoinInv'
PROOF
  <1> USE DEF taskvars, cleanvars, optvars
  <1>0. /\ Exec \subseteq Job /\ Child \subseteq Exec /\ Parent \subseteq Job
        /\ Calm \subseteq Child /\ CalmParent \subseteq Parent
    BY CalmFamilies DEF Job, Exec
  (* A task of a family the cleanup has touched, or of no family.          *)
  <1>1. CASE j \notin Calm
    <2>0. j \notin Parent
      BY JobsAssumption
    <2>1. /\ UNCHANGED swept
          /\ \A k \in Exec : k # j => /\ pc'[k] = pc[k] /\ own'[k] = own[k]
                                      /\ par'[k] = par[k] /\ out'[k] = out[k]
      BY DEF TaskStep, TaskFault, Dequeue, MarkRunning, CheckSuppression,
          StoreSuppressed, StoreResult, Store, FinishJob, CheckSiblings, LoadParent,
          LoadChildren, JoinParent, FailJob, FailChild, ReadForRecovery, Recover, Raise,
          BreakSession, Kill, Leave, At, TypeOK
    <2>2. \A i \in Job : i # j /\ (j \in Child => i # ParentOf(j)) => row'[i] = row[i]
      BY <1>0
      DEF TaskStep, TaskFault, Dequeue, MarkRunning, MarkStatus, CheckSuppression,
          StoreSuppressed, StoreResult, Store, FinishJob, CheckSiblings, LoadParent,
          LoadChildren, JoinParent, FailJob, FailChild, ReadForRecovery, Recover, Raise,
          BreakSession, Kill, TypeOK
    <2>3. j \in Child => ParentOf(j) \notin CalmParent /\ ParentOf(j) \notin Calm
      BY <1>1, Families, CalmFamilies DEF Calm
    <2> QED
      BY <1>0, <1>1, <2>0, <2>1, <2>2, <2>3, JoinFrame DEF Ended
  <1>2. CASE j \in Calm
    <2>0. j \in Child /\ (pc[j] \notin {"idle", "lost"} => Exists(j))
      BY <1>0, <1>2 DEF JoinInv, RowsInv
    (* Leaving the task or moving on without writing.                      *)
    <2>l. ASSUME NEW s, pc' = [pc EXCEPT ![j] = s], row' = row,
                 \A k \in Calm : k # j => /\ own'[k] = own[k] /\ par'[k] = par[k]
                                          /\ out'[k] = out[k],
                 UNCHANGED swept,
                 s \notin {"merging", "joining", "joined"},
                 PastStore(j) => s \notin {"idle", "lost", "loaded", "marked", "stop", "clear"},
                 s = "done" => ~AllChildrenComplete(ParentOf(j))
          PROVE  JoinInv'
      <3>1. pc'[j] = s /\ \A k \in Calm : k # j => pc'[k] = pc[k]
        BY <1>0, <1>2, <2>l DEF TypeOK
      <3>2. Ended(j)' => PastStore(j)'
        BY <1>2, <2>l, <3>1 DEF JoinInv, StoreInv, Ended, PastStore
      <3>3. pc'[j] = "done" => \E k \in Kids(ParentOf(j)) : ~Ended(k)'
        BY <2>l, <3>1 DEF AllChildrenComplete, Ended
      <3> QED
        BY <1>2, <2>l, <3>1, <3>2, <3>3, JoinOther DEF Exists, PastStore, Joining
    (* Writing the child's own row, in a task that works on it.            *)
    <2>w. ASSUME NEW s, NEW new \in Row, pc' = [pc EXCEPT ![j] = s], row' = [row EXCEPT ![j] = new],
                 \A k \in Calm : k # j => /\ own'[k] = own[k] /\ par'[k] = par[k]
                                          /\ out'[k] = out[k],
                 UNCHANGED swept,
                 pc[j] \notin {"idle", "lost"},
                 s \in {"marked", "wrote", "raised"},
                 s = "marked" => ~PastStore(j) /\ new.status \notin Terminal,
                 new.status # "absent",
                 new.dossier = row[j].dossier \/ ~PastStore(j)
          PROVE  JoinInv'
      <3>1. /\ pc'[j] = s /\ \A k \in Calm : k # j => pc'[k] = pc[k]
            /\ row'[j] = new /\ \A i \in Job : i # j => row'[i] = row[i]
        BY <1>0, <1>2, <2>w DEF TypeOK
      <3>2. Exists(j) /\ Exists(j)'
        BY <2>0, <2>w, <3>1 DEF Exists
      <3>3. Ended(j)' => PastStore(j)'
        BY <2>w, <3>1 DEF Ended, PastStore
      <3>4. (PastStore(j) => PastStore(j)') /\ ~Joining(j)' /\ pc'[j] # "done"
        BY <2>w, <3>1 DEF PastStore, Joining
      <3> QED
        BY <1>2, <2>w, <3>1, <3>2, <3>3, <3>4, JoinOther
    <2>s. ASSUME NEW d \in SUBSET (Exec \cup {Base}), NEW s \in JobStatus, Store(j, NewRow(s, d)),
                 pc[j] \in {"stop", "clear"}
          PROVE  JoinInv'
      <3>1. /\ NewRow(s, d) \in Row /\ NewRow(s, d).status # "absent"
            /\ pc' = [pc EXCEPT ![j] = "wrote"] /\ row' = [row EXCEPT ![j] = NewRow(s, d)]
        BY <2>s, NewRowType DEF Store, At, NewRow, JobStatus
      <3>2. UNCHANGED swept /\ ~PastStore(j) /\ pc[j] \notin {"idle", "lost"}
        BY <2>s DEF Store, PastStore
      <3>3. \A k \in Calm : k # j => own'[k] = own[k] /\ par'[k] = par[k] /\ out'[k] = out[k]
        BY <1>0, <2>s DEF Store, TypeOK
      <3> QED
        BY <3>1, <3>2, <3>3, <2>w
    (* Writing its status only.                                            *)
    <2>m. ASSUME NEW t, NEW s \in JobStatus, MarkStatus(j, s), pc' = [pc EXCEPT ![j] = t],
                 \A k \in Calm : k # j => /\ own'[k] = own[k] /\ par'[k] = par[k]
                                          /\ out'[k] = out[k],
                 UNCHANGED swept,
                 pc[j] \notin {"idle", "lost"},
                 t \in {"marked", "wrote", "raised"},
                 t = "marked" => ~PastStore(j) /\ s \notin Terminal
          PROVE  JoinInv'
      <3> DEFINE new == [row[j] EXCEPT !.status = s]
      <3>1. row[j] \in Row
        BY <1>0 DEF TypeOK
      <3>2. new \in Row /\ new.status = s /\ new.dossier = row[j].dossier /\ s # "absent"
        <4>1. new \in Row /\ new.status = s /\ new.dossier = row[j].dossier
          BY <2>m, <3>1, StatusType
        <4>2. s # "absent"
          BY <2>m DEF JobStatus
        <4> QED
          BY <4>1, <4>2
      <3>3. row' = [row EXCEPT ![j] = new]
        BY <2>m DEF MarkStatus
      <3> HIDE DEF new
      <3> QED
        BY <2>m, <3>2, <3>3, <2>w
    <2>1. CASE Dequeue(j)
      <3> DEFINE s == IF Exists(j) /\ j \in payload THEN "loaded"
                      ELSE IF Exists(j) THEN "recover" ELSE "lost"
      <3>1. /\ pc' = [pc EXCEPT ![j] = s] /\ row' = row /\ UNCHANGED swept
            /\ \A k \in Calm : k # j => own'[k] = own[k] /\ par'[k] = par[k] /\ out'[k] = out[k]
        BY <1>0, <2>1 DEF Dequeue, Leave, At, TypeOK
      <3>2. ~PastStore(j) /\ (s \notin {"idle", "lost"} => Exists(j))
            /\ s \notin {"merging", "joining", "joined", "done"}
        BY <2>1 DEF Dequeue, PastStore
      <3> HIDE DEF s
      <3> QED
        BY <3>1, <3>2, <2>l
    <2>2. CASE MarkRunning(j)
      <3>1. MarkStatus(j, "running") /\ "running" \in JobStatus /\ "running" \notin Terminal
        BY <2>2 DEF MarkRunning, JobStatus, Terminal
      <3>2. ~PastStore(j) /\ pc[j] = "loaded" /\ pc' = [pc EXCEPT ![j] = "marked"]
        BY <2>2 DEF MarkRunning, PastStore, At
      <3>3. /\ UNCHANGED swept
            /\ \A k \in Calm : k # j => own'[k] = own[k] /\ par'[k] = par[k] /\ out'[k] = out[k]
        BY <1>0, <2>2 DEF MarkRunning, TypeOK
      <3> QED
        BY <3>1, <3>2, <3>3, <2>m
    <2>3. CASE CheckSuppression(j)
      <3>1. PICK s \in {"stop", "clear"} : pc' = [pc EXCEPT ![j] = s]
        BY <2>3 DEF CheckSuppression, At
      <3>2. /\ row' = row /\ UNCHANGED swept
            /\ \A k \in Calm : k # j => own'[k] = own[k] /\ par'[k] = par[k] /\ out'[k] = out[k]
        BY <1>0, <2>3 DEF CheckSuppression, TypeOK
      <3>3. ~PastStore(j) /\ Exists(j)
        BY <2>0, <2>3 DEF CheckSuppression, PastStore
      <3> QED
        BY <3>1, <3>2, <3>3, <2>l
    <2>4. CASE StoreSuppressed(j)
      BY <2>4, <2>s DEF StoreSuppressed, JobStatus
    <2>5. CASE StoreResult(j)
      BY <2>5, <2>s DEF StoreResult, JobStatus
    <2>6. CASE CheckSiblings(j)
      <3>1. CASE AllChildrenComplete(ParentOf(j))
        BY <1>2, <2>6, <3>1, JoinCopies
      <3>2. CASE ~AllChildrenComplete(ParentOf(j))
        <4>1. Leave(j, "done") /\ row' = row /\ UNCHANGED swept /\ pc[j] = "wrote"
          BY <2>6, <3>2 DEF CheckSiblings
        <4>2. \A k \in Calm : k # j => own'[k] = own[k] /\ par'[k] = par[k] /\ out'[k] = out[k]
          BY <1>0, <4>1 DEF Leave, TypeOK
        <4> QED
          BY <2>0, <3>2, <4>1, <4>2, <2>l DEF Leave, At
      <3> QED
        BY <3>1, <3>2
    <2>7. CASE LoadParent(j) \/ LoadChildren(j)
      BY <1>2, <2>7, JoinCopies
    <2>8. CASE JoinParent(j)
      BY <1>2, <2>8, JoinWrite
    <2>9. CASE FailChild(j)
      <3> DEFINE s == IF own[j].status = "failed" THEN row[j].status ELSE "failed"
      <3>1. MarkStatus(j, s) /\ s \in JobStatus
        BY <1>0, <2>0, <2>9 DEF FailChild, TypeOK, Row, JobStatus, Exists
      <3>2. /\ pc' = [pc EXCEPT ![j] = "wrote"] /\ pc[j] = "failing"
            /\ UNCHANGED swept
            /\ \A k \in Calm : k # j => own'[k] = own[k] /\ par'[k] = par[k] /\ out'[k] = out[k]
        BY <1>0, <2>9 DEF FailChild, At, TypeOK
      <3> HIDE DEF s
      <3> QED
        BY <3>1, <3>2, <2>m
    <2>10. CASE ReadForRecovery(j)
      <3>1. PICK s \in {"recovering", "raised"} : pc' = [pc EXCEPT ![j] = s]
        BY <2>10 DEF ReadForRecovery, At
      <3> QED
        BY <2>0, <2>10, <3>1, <2>l DEF ReadForRecovery
    <2>11. CASE Recover(j)
      <3>1. MarkStatus(j, "failed") /\ "failed" \in JobStatus
        BY <2>11 DEF Recover, JobStatus
      <3>2. pc[j] = "recovering" /\ pc' = [pc EXCEPT ![j] = "raised"]
            /\ UNCHANGED <<own, par, out, swept>>
        BY <2>11 DEF Recover, At
      <3> QED
        BY <3>1, <3>2, <2>m
    <2>12. CASE TaskFault(j)
      <3>1. PICK s \in {"failing", "recover", "dead"} : pc' = [pc EXCEPT ![j] = s]
        BY <2>12 DEF TaskFault, Raise, BreakSession, Kill, Leave, At
      <3>2. /\ row' = row /\ UNCHANGED swept /\ pc[j] \notin {"idle", "lost"}
            /\ \A k \in Calm : k # j => own'[k] = own[k] /\ par'[k] = par[k] /\ out'[k] = out[k]
        BY <1>0, <2>12 DEF TaskFault, Raise, BreakSession, Kill, Leave, TypeOK, TryBlock
      <3> QED
        BY <2>0, <3>1, <3>2, <2>l
    <2> QED
      BY <2>0, <2>1, <2>2, <2>3, <2>4, <2>5, <2>6, <2>7, <2>8, <2>9, <2>10, <2>11, <2>12
      DEF TaskStep, FinishJob, FailJob
  <1> QED
    BY <1>1, <1>2


(* The purge writes a parent and its children together.                    *)
LEMMA JoinPurge ==
  ASSUME TypeOK, JoinInv, RowsInv', SweepInv', PurgeJobs
  PROVE  JoinInv'
PROOF
  <1> USE DEF taskvars, cleanvars, optvars
  <1>0. /\ CalmParent \subseteq Job /\ Calm \subseteq Job /\ Calm \subseteq Child
        /\ UNCHANGED <<pc, own, par, out>>
        /\ Calm' = Calm /\ CalmParent' = CalmParent
    BY CalmFamilies, StaysCalm DEF Job, Exec, PurgeJobs
  <1>1. \A j \in Job : /\ j \in seen => row'[j].status = "purged"
                       /\ j \notin seen => row'[j] = row[j]
                       /\ row'[j].dossier \subseteq row[j].dossier
    BY DEF PurgeJobs, NewRow
  <1>2. \A j \in Job : row'[j].status \in Terminal => j \notin seen
    BY <1>1 DEF Terminal
  <1>3. \A k \in Calm : Ended(k)' => /\ k \notin seen /\ Ended(k) /\ Exists(k)
                                     /\ row'[k] = row[k]
                                     /\ ParentOf(k) \notin seen
                                     /\ row'[ParentOf(k)] = row[ParentOf(k)]
    <2> SUFFICES ASSUME NEW k \in Calm, Ended(k)'
                 PROVE  /\ k \notin seen /\ Ended(k) /\ Exists(k) /\ row'[k] = row[k]
                        /\ ParentOf(k) \notin seen /\ row'[ParentOf(k)] = row[ParentOf(k)]
      OBVIOUS
    <2>1. k \notin seen /\ row'[k] = row[k] /\ row[k].status \in Terminal
      BY <1>0, <1>1, <1>2 DEF Ended
    <2>2. Exists(k)
      BY <2>1 DEF Exists, Terminal
    <2>3. ParentOf(k) \notin seen
      BY <1>0, <2>1, <2>2 DEF JoinInv, RowsInv
    <2> QED
      BY <1>0, <1>1, <2>1, <2>2, <2>3, CalmFamilies DEF Ended
  <1>4. \A k \in Calm : Exists(k)' <=> Exists(k)
    BY <1>0, <1>1 DEF Exists, JoinInv, RowsInv
  <1>6. StoreInv'
    BY <1>0, <1>3, <1>4 DEF JoinInv, StoreInv, PastStore, Joining
  <1>7. HeldInv'
    <2>1. \A k \in Calm : row'[k].dossier \subseteq row[k].dossier
      BY <1>0, <1>1
    <2>2. \A c \in Calm : Joining(c)' => row'[c].dossier \subseteq own'[c].dossier
      BY <1>0, <2>1 DEF JoinInv, HeldInv, Joining
    <2>3. \A c, k \in Calm : pc'[c] = "joined" /\ ParentOf(c) = ParentOf(k) /\ Exists(k)'
            => row'[k].dossier \subseteq out'[c].dossier
      BY <1>0, <1>4, <2>1 DEF JoinInv, HeldInv
    <2> QED
      BY <1>0, <2>2, <2>3 DEF JoinInv, HeldInv
  <1>8. CopyInv'
    <2> SUFFICES ASSUME NEW c \in Calm, (pc[c] \in {"joining", "joined"} /\ Ended(c))'
                 PROVE  /\ par'[c].status \in Terminal => Ended(ParentOf(c))'
                        /\ \/ par'[c].dossier \subseteq row'[ParentOf(c)].dossier
                           \/ \A k \in Calm : ParentOf(c) = ParentOf(k) /\ Exists(k)'
                                => row'[k].dossier \subseteq row'[ParentOf(c)].dossier
      BY <1>0 DEF CopyInv
    <2>1. Ended(c) /\ row'[ParentOf(c)] = row[ParentOf(c)]
      BY <1>3
    <2>2. \A k \in Calm : row'[k].dossier \subseteq row[k].dossier
      BY <1>0, <1>1
    <2> QED
      BY <1>0, <1>4, <2>1, <2>2 DEF JoinInv, CopyInv, Ended
  <1>9. CalmJoined'
    <2> SUFFICES ASSUME NEW p \in CalmParent,
                        \A k \in Kids(p) : pc'[k] = "done" /\ row'[k].status \in Terminal
                 PROVE  /\ row'[p].status \in Terminal
                        /\ \A k \in Kids(p) : row'[k].dossier \subseteq row'[p].dossier
      BY <1>0 DEF CalmJoined, Joined, Kids
    <2>1. \A k \in Kids(p) : row'[k] = row[k] /\ row'[p] = row[p]
      BY <1>3, CalmFamilies DEF Ended
    <2>2. row'[p] = row[p]
      BY <2>1 DEF Kids
    <2> QED
      BY <1>0, <2>1, <2>2 DEF JoinInv, CalmJoined, Joined
  <1> QED
    BY <1>6, <1>7, <1>8, <1>9 DEF JoinInv

(* The cleanup may only take a family out of the calm ones, or write to    *)
(* the parent of a calm one.                                               *)
LEMMA JoinCleanup ==
  ASSUME TypeOK, JoinInv, RowsInv', SweepInv', CleanupScan \/ CleanupCommit
  PROVE  JoinInv'
PROOF
  <1> USE DEF taskvars, cleanvars, optvars
  <1>0. /\ CalmParent \subseteq Job /\ Calm \subseteq Job /\ Calm \subseteq Child
        /\ UNCHANGED <<pc, own, par, out>>
    BY CalmFamilies DEF Job, Exec, CleanupScan, CleanupCommit
  <1>1. CASE CleanupScan
    <2>1. Calm' \subseteq Calm /\ CalmParent' \subseteq CalmParent /\ UNCHANGED row
      BY <1>1 DEF CleanupScan, Calm, CalmParent, Swept
    <2> QED
      BY <1>0, <2>1 DEF JoinInv, StoreInv, HeldInv, CopyInv, CalmJoined, Joined, Ended, PastStore,
                        Joining, Exists
  <1>2. CASE CleanupCommit
    <2>1. UNCHANGED swept
      BY <1>2 DEF CleanupCommit
    <2>2. \A k \in Calm : k \notin stuck
      BY <1>0, CalmFamilies DEF JoinInv, SweepInv
    <2>3. \A k \in Calm : row'[k] = row[k]
      BY <1>0, <1>2, <2>2 DEF CleanupCommit
    <2>4. \A p \in CalmParent : row'[p].dossier = row[p].dossier /\ (Ended(p) => Ended(p)')
      <3> SUFFICES ASSUME NEW p \in CalmParent
                   PROVE  row'[p].dossier = row[p].dossier /\ (Ended(p) => Ended(p)')
        OBVIOUS
      <3>1. row[p] \in Row /\ "failed" \in JobStatus /\ "failed" \in Terminal
        BY <1>0 DEF TypeOK, JobStatus, Terminal
      <3>2. row'[p] = row[p] \/ row'[p] = [row[p] EXCEPT !.status = "failed"]
        BY <1>0, <1>2 DEF CleanupCommit
      <3>3. [row[p] EXCEPT !.status = "failed"].dossier = row[p].dossier
            /\ [row[p] EXCEPT !.status = "failed"].status = "failed"
        BY <3>1, StatusType
      <3> QED
        BY <3>1, <3>2, <3>3 DEF Ended
    <2> QED
      BY <1>0, <2>1, <2>3, <2>4, JoinFrame
  <1> QED
    BY <1>1, <1>2

LEMMA JoinService ==
  ASSUME TypeOK, JoinInv, RowsInv', SweepInv',
         \/ CleanupScan \/ CleanupCommit
         \/ AddSuppression \/ SelectJobs \/ PurgeJobs \/ PurgeFails
  PROVE  JoinInv'
PROOF
  <1>1. CASE AddSuppression \/ SelectJobs \/ PurgeFails
    <2>1. UNCHANGED <<row, pc, own, par, out, swept>>
      BY <1>1 DEF AddSuppression, SelectJobs, PurgeFails, taskvars, cleanvars
    <2> QED
      BY <2>1, JoinFrame DEF Ended
  <1> QED
    BY <1>1, JoinPurge, JoinCleanup

LEMMA JoinInvStep ==
  ASSUME TypeOK, JoinInv, [Next]_vars
  PROVE  JoinInv'
PROOF
  <1>0. RowsInv' /\ SweepInv'
    BY RowsStep DEF JoinInv
  <1>1. CASE Next
    BY <1>0, <1>1, JoinApi, JoinTask, JoinService DEF Next
  <1>2. CASE UNCHANGED vars
    BY <1>0, <1>2, JoinFrame DEF vars, taskvars, cleanvars, Ended
  <1> QED
    BY <1>1, <1>2

(* The invariant of the join, with all disturbances.                       *)
THEOREM JoinInvAlways == Spec => [](TypeOK /\ JoinInv)
PROOF
  <1>1. Init => JoinInv
    <2> SUFFICES ASSUME Init PROVE JoinInv
      OBVIOUS
    <2>1. /\ \A k \in Child : row[k] = NoRow /\ pc[k] = "idle"
          /\ \A p \in Parent : row[p] = NoRow
          /\ stuck = {} /\ seen = {} /\ CalmParent \subseteq Parent /\ Calm \subseteq Child
      BY CalmFamilies DEF Init, Job, Exec
    <2>2. NoRow.status = "absent" /\ "absent" \notin Terminal
      BY DEF NoRow, Terminal
    <2> QED
      BY <2>1, <2>2, CalmFamilies
      DEF JoinInv, RowsInv, SweepInv, StoreInv, HeldInv, CopyInv, CalmJoined, Joined, Ended,
          PastStore, Joining, Exists, Kids
  <1>2. TypeOK /\ JoinInv /\ [Next]_vars => JoinInv'
    BY JoinInvStep
  <1> QED
    BY <1>1, <1>2, TypeCorrect, PTL DEF Spec

(* Both children of a split job having run to the end of their sibling     *)
(* check means that the parent is terminal and holds what they found, for  *)
(* any number of split jobs, whatever is raised, killed, enqueued twice,   *)
(* swept elsewhere, opted out or purged in between: unless the cleanup     *)
(* itself has selected one of the two children.                            *)
THEOREM NoLostJoinAlways == Spec => []NoLostJoin
PROOF
  <1>1. JoinInv => NoLostJoin
    BY DEF JoinInv, CalmJoined, CalmParent, NoLostJoin, Unswept
  <1> QED
    BY <1>1, JoinInvAlways, PTL

-----------------------------------------------------------------------------
(* The calm families are a fork and a join                                 *)

(* Until the opt-out nothing is refused or purged, a child that is not     *)
(* final has no findings, and whoever joins does so when all parts are     *)
(* closed, with what is in their rows.                                     *)
ForkInv ==
  /\ ~suppressed /\ optout = "idle"
  /\ \A p \in CalmParent : api[p] # "suppressed" /\ (~Exists(p) => Findings(row[p]) = {})
  /\ \A k \in Calm : ~Ended(k) => Findings(row[k]) = {}
  /\ \A c \in Calm : Joining(c) => /\ own[c].dossier = row[c].dossier
                                   /\ \A k \in Kids(ParentOf(c)) : Closed(k)
  /\ \A c \in Calm :
       pc[c] = "joined"
         => Findings(out[c]) = UNION {Findings(row[k]) : k \in Kids(ParentOf(c))}

(* What a step of the table may do to the calm families: parts that close  *)
(* do so with their findings or empty-handed and the others keep what they *)
(* have, or the whole of closed parts becomes the union of their findings. *)
CalmClose ==
  /\ \A k \in Calm : /\ Closed(k) => Closed(k)' /\ Findings(row'[k]) = Findings(row[k])
                     /\ ~Closed(k) => Findings(row'[k]) \in {{}, {k}}
  /\ \A p \in CalmParent : Findings(row'[p]) = Findings(row[p])

CalmJoin(p) ==
  /\ \A k \in Kids(p) : Closed(k)
  /\ \A k \in Calm : (Closed(k)' <=> Closed(k)) /\ row'[k] = row[k]
  /\ \A q \in CalmParent : q # p => row'[q] = row[q]
  /\ Findings(row'[p]) = UNION {Findings(row[k]) : k \in Kids(p)}

CalmFork == CalmClose \/ \E p \in CalmParent : CalmJoin(p)

(* A step that leaves the calm families alone, but for a parent's status.  *)
LEMMA ForkFrame ==
  ASSUME ForkInv, UNCHANGED <<suppressed, optout, swept>>,
         \A p \in CalmParent : /\ row'[p].dossier = row[p].dossier /\ (Exists(p) => Exists(p)')
                               /\ api'[p] = api[p],
         \A k \in Calm : row'[k] = row[k] /\ pc'[k] = pc[k] /\ own'[k] = own[k] /\ out'[k] = out[k]
  PROVE  ForkInv' /\ CalmFork
PROOF
  <1>c. Calm' = Calm /\ CalmParent' = CalmParent
    BY StaysCalm
  <1>1. \A k \in Calm : Closed(k)' <=> Closed(k)
    BY CalmFamilies DEF Closed, Exists
  <1>2. CalmFork
    <2>1. \A k \in Calm : ~Closed(k) => Findings(row'[k]) = {}
      BY DEF ForkInv, Closed, Ended
    <2> QED
      BY <1>1, <2>1 DEF CalmFork, CalmClose, Findings
  <1>3. \A c \in Calm : {Findings(row[k])' : k \in Kids(ParentOf(c))} = {Findings(row[k]) : k \in Kids(ParentOf(c))}
    BY CalmFamilies DEF Findings
  <1>4. ForkInv'
    <2>1. \A p \in CalmParent : api'[p] # "suppressed" /\ (~Exists(p)' => Findings(row'[p]) = {})
      BY DEF ForkInv, Findings
    <2>2. \A c \in Calm : Joining(c)' => /\ own'[c].dossier = row'[c].dossier
                                         /\ \A k \in Kids(ParentOf(c)) : Closed(k)'
      BY <1>1, CalmFamilies DEF ForkInv, Joining
    <2>3. \A k \in Calm : ~Ended(k)' => Findings(row'[k]) = {}
      BY DEF ForkInv, Ended
    <2>4. \A c \in Calm : pc'[c] = "joined"
             => Findings(out'[c]) = UNION {Findings(row'[k]) : k \in Kids(ParentOf(c))}
      BY <1>3 DEF ForkInv, Findings
    <2> QED
      BY <1>c, <2>1, <2>2, <2>3, <2>4 DEF ForkInv, Findings
  <1> QED
    BY <1>2, <1>4

(* A request still under way changes its progress, or ends with the rows   *)
(* of its family inserted or left out.                                     *)
LEMMA ForkRequest ==
  ASSUME TypeOK, JoinInv, ForkInv, NEW p \in CalmParent, api[p] \notin {"done", "dead"},
         UNCHANGED <<pc, own, out, suppressed, optout, swept>>,
         \A q \in CalmParent : q # p => api'[q] = api[q],
         api'[p] # "suppressed",
         \A j \in Job : j \notin {p} \cup Kids(p) => row'[j] = row[j],
         \A j \in {p} \cup Kids(p) : Findings(row'[j]) = {},
         \A k \in Kids(p) : row'[k].status \notin Terminal
  PROVE  ForkInv' /\ CalmFork
PROOF
  <1>c. Calm' = Calm /\ CalmParent' = CalmParent
    BY StaysCalm
  <1>0. CalmParent \subseteq Job /\ Calm \subseteq Job
    BY CalmFamilies DEF Job, Exec
  <1>1. ~Exists(p) /\ \A k \in Kids(p) : ~Exists(k) /\ ~Joining(k)
    BY CalmFamilies DEF JoinInv, RowsInv, Joining
  <1>2. \A k \in Calm : ParentOf(k) # p => row'[k] = row[k] /\ k \notin Kids(p)
    BY <1>0, CalmFamilies
  <1>3. \A k \in Calm : k \in Kids(p) => ParentOf(k) = p /\ ~Ended(k) /\ ~Ended(k)' /\ ~Closed(k)
    BY <1>1, CalmFamilies DEF Ended, Closed, Exists, Terminal
  <1>4. \A k \in Calm : ParentOf(k) # p => (Closed(k)' <=> Closed(k))
    BY <1>2, CalmFamilies DEF Closed, Exists
  <1>5. \A k \in Calm : k \in Kids(p) \/ ParentOf(k) # p
    BY CalmFamilies
  <1>6. CalmFork
    <2>1. \A k \in Calm : /\ Closed(k) => Closed(k)' /\ Findings(row'[k]) = Findings(row[k])
                          /\ ~Closed(k) => Findings(row'[k]) \in {{}, {k}}
      <3> SUFFICES ASSUME NEW k \in Calm
                   PROVE  /\ Closed(k) => Closed(k)' /\ Findings(row'[k]) = Findings(row[k])
                          /\ ~Closed(k) => Findings(row'[k]) \in {{}, {k}}
        OBVIOUS
      <3>1. CASE k \in Kids(p)
        BY <1>3, <3>1
      <3>2. CASE ParentOf(k) # p
        BY <1>2, <1>4, <3>2 DEF ForkInv, Closed, Ended
      <3> QED
        BY <1>5, <3>1, <3>2
    <2>2. \A q \in CalmParent : Findings(row'[q]) = Findings(row[q])
      <3>1. \A q \in CalmParent : q # p => row'[q] = row[q]
        BY <1>0, CalmFamilies
      <3> QED
        BY <1>1, <3>1 DEF ForkInv
    <2> QED
      BY <2>1, <2>2 DEF CalmFork, CalmClose
  <1>7. ForkInv'
    <2>1. \A q \in CalmParent : api'[q] # "suppressed" /\ (~Exists(q)' => Findings(row'[q]) = {})
      <3>1. \A q \in CalmParent : q # p => row'[q] = row[q]
        BY <1>0, CalmFamilies
      <3> QED
        BY <3>1 DEF ForkInv, Exists
    <2>2. \A k \in Calm : ~Ended(k)' => Findings(row'[k]) = {}
      BY <1>2, <1>5 DEF ForkInv, Ended
    <2>3. \A c \in Calm : Joining(c) => c \notin Kids(p) /\ ParentOf(c) # p
                             /\ \A k \in Kids(ParentOf(c)) : k \in Calm /\ ParentOf(k) # p
      BY <1>1, CalmFamilies
    <2>4. \A c \in Calm : Joining(c)' =>
             /\ own'[c].dossier = row'[c].dossier
             /\ \A k \in Kids(ParentOf(c)) : Closed(k)'
      BY <1>2, <1>4, <2>3 DEF ForkInv, Joining
    <2>5. \A c \in Calm : pc'[c] = "joined"
             => Findings(out'[c]) = UNION {Findings(row'[k]) : k \in Kids(ParentOf(c))}
      <3> SUFFICES ASSUME NEW c \in Calm, pc'[c] = "joined"
                   PROVE  Findings(out'[c]) = UNION {Findings(row'[k]) : k \in Kids(ParentOf(c))}
        OBVIOUS
      <3>1. \A k \in Kids(ParentOf(c)) : row'[k] = row[k]
        BY <1>2, <2>3 DEF Joining
      <3>2. {Findings(row'[k]) : k \in Kids(ParentOf(c))} = {Findings(row[k]) : k \in Kids(ParentOf(c))}
        BY <3>1
      <3> QED
        BY <3>2 DEF ForkInv
    <2> QED
      BY <1>c, <2>1, <2>2, <2>4, <2>5 DEF ForkInv, Findings
  <1> QED
    BY <1>6, <1>7

(* A step of a child that does not join: a final row keeps its dossier,    *)
(* one that becomes final has its own findings or none.                    *)
LEMMA ForkOther ==
  ASSUME TypeOK, JoinInv, ForkInv, NEW j \in Calm,
         UNCHANGED <<api, suppressed, optout, swept>>,
         \A i \in Job : i # j => row'[i] = row[i],
         \A k \in Calm : k # j => pc'[k] = pc[k] /\ own'[k] = own[k] /\ out'[k] = out[k],
         Exists(j)' <=> Exists(j),
         Ended(j) => Ended(j)' /\ row'[j].dossier = row[j].dossier,
         ~Ended(j) => Findings(row'[j]) \in {{}, {j}},
         ~Ended(j)' => Findings(row'[j]) = {},
         ~Joining(j)'
  PROVE  ForkInv' /\ CalmFork
PROOF
  <1>c. Calm' = Calm /\ CalmParent' = CalmParent
    BY StaysCalm
  <1>0. CalmParent \subseteq Job /\ Calm \subseteq Job
    BY CalmFamilies DEF Job, Exec
  <1>1. \A p \in CalmParent : row'[p] = row[p]
    BY <1>0, CalmFamilies
  <1>2. \A k \in Calm : Closed(k) => Closed(k)' /\ Findings(row'[k]) = Findings(row[k])
    <2> SUFFICES ASSUME NEW k \in Calm, Closed(k)
                 PROVE  Closed(k)' /\ Findings(row'[k]) = Findings(row[k])
      OBVIOUS
    <2>1. CASE k # j
      BY <1>0, <2>1 DEF Closed, Exists
    <2>2. CASE k = j /\ Ended(j)
      BY <2>2 DEF Closed, Ended, Findings
    <2>3. CASE k = j /\ ~Ended(j)
      <3>1. ~Exists(j) /\ ~Exists(j)' /\ ~Ended(j)' /\ Closed(j)'
        BY <2>3 DEF Closed, Ended, Exists, Terminal
      <3>2. Findings(row[j]) = {} /\ Findings(row'[j]) = {}
        BY <2>3, <3>1 DEF ForkInv
      <3> QED
        BY <2>3, <3>1, <3>2
    <2> QED
      BY <2>1, <2>2, <2>3
  <1>3. \A k \in Calm : k # j => row'[k] = row[k]
    BY <1>0
  <1>4. CalmFork
    <2>1. \A k \in Calm : ~Closed(k) => Findings(row'[k]) \in {{}, {k}}
      BY <1>3 DEF ForkInv, Closed, Ended
    <2> QED
      BY <1>1, <1>2, <2>1 DEF CalmFork, CalmClose
  <1>5. \A p \in CalmParent : api'[p] # "suppressed" /\ (~Exists(p)' => Findings(row'[p]) = {})
    BY <1>1 DEF ForkInv, Exists
  <1>6. \A k \in Calm : ~Ended(k)' => Findings(row'[k]) = {}
    BY <1>3 DEF ForkInv, Ended
  <1>7. \A c \in Calm : Joining(c)' => /\ c # j /\ Joining(c) /\ own'[c].dossier = row'[c].dossier
                                       /\ \A k \in Kids(ParentOf(c)) : Closed(k)'
    <2> SUFFICES ASSUME NEW c \in Calm, Joining(c)'
                 PROVE  /\ c # j /\ Joining(c) /\ own'[c].dossier = row'[c].dossier
                        /\ \A k \in Kids(ParentOf(c)) : Closed(k)'
      OBVIOUS
    <2>1. c # j /\ Joining(c)
      BY DEF Joining
    <2>2. \A k \in Kids(ParentOf(c)) : k \in Calm /\ Closed(k)
      BY <2>1, CalmFamilies DEF ForkInv
    <2> QED
      BY <1>2, <1>3, <2>1, <2>2 DEF ForkInv
  <1>8. \A c \in Calm : pc'[c] = "joined"
           => Findings(out'[c]) = UNION {Findings(row'[k]) : k \in Kids(ParentOf(c))}
    <2> SUFFICES ASSUME NEW c \in Calm, pc'[c] = "joined"
                 PROVE  Findings(out'[c]) = UNION {Findings(row'[k]) : k \in Kids(ParentOf(c))}
      OBVIOUS
    <2>1. c # j /\ Joining(c) /\ pc[c] = "joined"
      BY DEF Joining
    <2>2. \A k \in Kids(ParentOf(c)) : Findings(row'[k]) = Findings(row[k])
      BY <1>2, <2>1, CalmFamilies DEF ForkInv
    <2>3. {Findings(row'[k]) : k \in Kids(ParentOf(c))} = {Findings(row[k]) : k \in Kids(ParentOf(c))}
      BY <2>2
    <2> QED
      BY <2>1, <2>3 DEF ForkInv
  <1>9. ForkInv'
    BY <1>c, <1>5, <1>6, <1>7, <1>8 DEF ForkInv, Findings
  <1> QED
    BY <1>4, <1>9

(* A child looks at its siblings and loads what it joins.                  *)
LEMMA ForkCopies ==
  ASSUME TypeOK, JoinInv, ForkInv, NEW j \in Calm,
         \/ CheckSiblings(j) /\ AllChildrenComplete(ParentOf(j))
         \/ LoadParent(j)
         \/ LoadChildren(j)
  PROVE  ForkInv' /\ CalmFork
PROOF
  <1> USE DEF taskvars, cleanvars, optvars
  <1>0. /\ UNCHANGED <<row, api, suppressed, optout, swept>> /\ j \in Exec
        /\ \A k \in Calm : k # j => pc'[k] = pc[k] /\ own'[k] = own[k] /\ out'[k] = out[k]
        /\ pc'[j] \in {"merging", "joining", "joined"}
    BY CalmFamilies DEF CheckSiblings, LoadParent, LoadChildren, At, TypeOK, Exec
  <1>c. Calm' = Calm /\ CalmParent' = CalmParent
    BY <1>0, StaysCalm
  <1>1. \A k \in Calm : Closed(k)' <=> Closed(k)
    BY <1>0 DEF Closed, Exists
  <1>2. CalmFork
    BY <1>0, <1>1 DEF CalmFork, CalmClose, ForkInv, Closed, Ended
  <1>3. own'[j].dossier = row'[j].dossier
    <2>1. CASE CheckSiblings(j) /\ AllChildrenComplete(ParentOf(j))
      BY <1>0, <2>1 DEF CheckSiblings, TypeOK
    <2>2. CASE LoadParent(j) \/ LoadChildren(j)
      BY <2>2 DEF LoadParent, LoadChildren, ForkInv, Joining
    <2> QED
      BY <2>1, <2>2
  <1>4. \A k \in Kids(ParentOf(j)) : Closed(k)
    <2>1. CASE CheckSiblings(j) /\ AllChildrenComplete(ParentOf(j))
      <3>1. api[ParentOf(j)] = "done"
        BY <2>1 DEF CheckSiblings, JoinInv, RowsInv
      <3> SUFFICES ASSUME NEW k \in Kids(ParentOf(j)) PROVE Closed(k)
        OBVIOUS
      <3>2. ParentOf(k) = ParentOf(j)
        BY CalmFamilies
      <3> QED
        BY <2>1, <3>1, <3>2 DEF AllChildrenComplete, Closed
    <2>2. CASE LoadParent(j) \/ LoadChildren(j)
      BY <2>2 DEF LoadParent, LoadChildren, ForkInv, Joining
    <2> QED
      BY <2>1, <2>2
  <1>5. pc'[j] = "joined" => Findings(out'[j]) = UNION {Findings(row[k]) : k \in Kids(ParentOf(j))}
    <2> SUFFICES ASSUME pc'[j] = "joined"
                 PROVE  Findings(out'[j]) = UNION {Findings(row[k]) : k \in Kids(ParentOf(j))}
      OBVIOUS
    <2>1. LoadChildren(j)
      BY <1>0 DEF CheckSiblings, LoadParent, At, TypeOK
    <2>2. own[j].dossier = row[j].dossier
      BY <2>1 DEF LoadChildren, ForkInv, Joining
    <2> DEFINE kin == {k \in Kids(ParentOf(j)) : Exists(k)}
    <2>3. out'[j].dossier = {Base} \cup UNION {Sibling(j, k).dossier : k \in kin}
      BY <1>0, <2>1 DEF LoadChildren, TypeOK, Merged, NewRow
    <2>4. \A k \in kin : Sibling(j, k).dossier = row[k].dossier
      BY <2>2 DEF Sibling
    <2>5. \A k \in Kids(ParentOf(j)) : k \notin kin => Findings(row[k]) = {}
      BY CalmFamilies DEF ForkInv, Ended, Exists, Terminal
    <2> QED
      BY <2>3, <2>4, <2>5 DEF Findings
  <1>6. \A c \in Calm : {Findings(row'[k]) : k \in Kids(ParentOf(c))} = {Findings(row[k]) : k \in Kids(ParentOf(c))}
    BY <1>0
  <1>7. \A c \in Calm : Joining(c)' => /\ own'[c].dossier = row'[c].dossier
                                       /\ \A k \in Kids(ParentOf(c)) : Closed(k)'
    <2> SUFFICES ASSUME NEW c \in Calm, Joining(c)'
                 PROVE  /\ own'[c].dossier = row'[c].dossier
                        /\ \A k \in Kids(ParentOf(c)) : Closed(k)'
      OBVIOUS
    <2>1. \A k \in Kids(ParentOf(c)) : Closed(k)
      BY <1>0, <1>4 DEF ForkInv, Joining
    <2>2. own'[c].dossier = row'[c].dossier
      BY <1>0, <1>3 DEF ForkInv, Joining
    <2> QED
      BY <1>1, <2>1, <2>2, CalmFamilies
  <1>8. \A c \in Calm : pc'[c] = "joined"
           => Findings(out'[c]) = UNION {Findings(row'[k]) : k \in Kids(ParentOf(c))}
    BY <1>0, <1>5, <1>6 DEF ForkInv
  <1>9. /\ \A p \in CalmParent : api'[p] # "suppressed" /\ (~Exists(p)' => Findings(row'[p]) = {})
        /\ \A k \in Calm : ~Ended(k)' => Findings(row'[k]) = {}
    BY <1>0 DEF ForkInv, Exists, Ended
  <1> QED
    BY <1>c, <1>0, <1>2, <1>7, <1>8, <1>9 DEF ForkInv, Findings

(* A child writes what it merged to the parent: the union of all findings, *)
(* or, if its copy equals that, possibly nothing.                          *)
LEMMA ForkWrite ==
  ASSUME TypeOK, JoinInv, ForkInv, NEW j \in Calm, JoinParent(j)
  PROVE  ForkInv' /\ CalmFork
PROOF
  <1> DEFINE p == ParentOf(j)
  <1>0. /\ p \in CalmParent /\ p \notin Calm /\ p \in Job /\ j \in Exec
        /\ Calm \subseteq Job /\ CalmParent \subseteq Job
        /\ pc[j] = "joined" /\ Joining(j) /\ Exists(j) /\ out[j].status \in Terminal
    BY CalmFamilies DEF JoinParent, Joining, Job, Exec, JoinInv, RowsInv
  <1>1. /\ UNCHANGED <<api, suppressed, optout, swept>>
        /\ \A i \in Job : i # p => row'[i] = row[i]
        /\ \A k \in Calm : row'[k] = row[k]
        /\ \A k \in Calm : k # j => pc'[k] = pc[k] /\ own'[k] = own[k] /\ out'[k] = out[k]
        /\ pc'[j] = "done"
    BY <1>0, CalmFamilies DEF JoinParent, Leave, At, TypeOK, optvars, cleanvars, Exec
  <1>c. Calm' = Calm /\ CalmParent' = CalmParent
    BY <1>0, <1>1, StaysCalm
  <1>2. \A k \in Kids(p) : Closed(k)
    BY <1>0 DEF ForkInv
  <1>3. Ended(j)
    BY <1>0, <1>2, CalmFamilies DEF Closed, Ended
  <1>4. \A k \in Calm : Closed(k)' <=> Closed(k)
    BY <1>1 DEF Closed, Exists
  <1>5. row'[p].status \in Terminal
    BY <1>0, <1>3 DEF JoinParent, NewRow, TypeOK, JoinInv, CopyInv, Ended
  <1>6. CalmFork
    <2>1. row'[p].dossier \in {out[j].dossier, row[p].dossier}
      BY <1>0 DEF JoinParent, NewRow, TypeOK
    <2>2. CASE row'[p].dossier = out[j].dossier
      <3>1. Findings(row'[p]) = UNION {Findings(row[k]) : k \in Kids(p)}
        BY <1>0, <2>2 DEF ForkInv, Findings
      <3>2. \A q \in CalmParent : q # p => row'[q] = row[q]
        BY <1>0, <1>1
      <3> QED
        BY <1>0, <1>1, <1>2, <1>4, <3>1, <3>2 DEF CalmFork, CalmJoin
    <2>3. CASE row'[p].dossier = row[p].dossier
      <3>1. \A q \in CalmParent : Findings(row'[q]) = Findings(row[q])
        BY <1>0, <1>1, <2>3 DEF Findings
      <3>2. \A k \in Calm : ~Closed(k) => Findings(row'[k]) \in {{}, {k}}
        BY <1>1 DEF ForkInv, Closed, Ended
      <3> QED
        BY <1>1, <1>4, <3>1, <3>2 DEF CalmFork, CalmClose
    <2> QED
      BY <2>1, <2>2, <2>3
  <1>7. \A c \in Calm : Joining(c)' => /\ own'[c].dossier = row'[c].dossier
                                       /\ \A k \in Kids(ParentOf(c)) : Closed(k)'
    BY <1>1, <1>4, CalmFamilies DEF ForkInv, Joining
  <1>8. \A c \in Calm : pc'[c] = "joined"
           => Findings(out'[c]) = UNION {Findings(row'[k]) : k \in Kids(ParentOf(c))}
    <2> SUFFICES ASSUME NEW c \in Calm, pc'[c] = "joined"
                 PROVE  Findings(out'[c]) = UNION {Findings(row'[k]) : k \in Kids(ParentOf(c))}
      OBVIOUS
    <2>1. {Findings(row'[k]) : k \in Kids(ParentOf(c))} = {Findings(row[k]) : k \in Kids(ParentOf(c))}
      BY <1>1, CalmFamilies
    <2> QED
      BY <1>1, <2>1 DEF ForkInv
  <1>9. /\ \A q \in CalmParent : api'[q] # "suppressed" /\ (~Exists(q)' => Findings(row'[q]) = {})
        /\ \A k \in Calm : ~Ended(k)' => Findings(row'[k]) = {}
    BY <1>0, <1>1, <1>5 DEF ForkInv, Exists, Ended, Terminal
  <1> QED
    BY <1>c, <1>1, <1>6, <1>7, <1>8, <1>9 DEF ForkInv, Findings

(* The steps of the requests.                                              *)
LEMMA ForkApi ==
  ASSUME TypeOK, JoinInv, ForkInv, NEW r \in Root, ApiStep(r) \/ CrashApi(r)
  PROVE  ForkInv' /\ CalmFork
PROOF
  <1> USE DEF GoTo, taskvars, cleanvars, optvars
  <1>0. /\ r \in Parent \/ r \in Single \/ r \in Sync
        /\ CalmParent \subseteq Job /\ Calm \subseteq Job /\ Calm \subseteq Exec
        /\ CalmParent \subseteq Root
    BY CalmFamilies DEF Root, Job, Exec
  <1>1. CASE r \notin CalmParent
    <2>1. /\ UNCHANGED <<suppressed, optout, swept, own, out>>
          /\ \A p \in CalmParent : row'[p] = row[p] /\ api'[p] = api[p]
          /\ \A k \in Calm : row'[k] = row[k] /\ pc'[k] = pc[k]
      <3>1. CASE r \in Parent
        <4>1. r \notin Single /\ r \notin Sync
          BY <3>1, Families
        <4>2. /\ \A p \in CalmParent : p # r /\ p \notin Kids(r)
              /\ \A k \in Calm : k # r /\ k \notin Kids(r)
          BY <1>1, <3>1, Families, CalmFamilies
        <4> QED
          BY <1>0, <3>1, <4>1, <4>2
          DEF ApiStep, CrashApi, CheckRequest, RefuseRequest, CreateSuppressedJob, EnqueueTier1,
              EnqueueTier234, CommitSplit, AbortSplit, RecheckRequest, CreateQueuedJob, Insert,
              EnqueueSingle, Enqueue, AbortSingle, RunSync, TypeOK, Kids
      <3>2. CASE r \notin Parent
        BY <1>0, <3>2, Families, CalmFamilies
        DEF ApiStep, CrashApi, CheckRequest, RefuseRequest, CreateSuppressedJob, EnqueueTier1,
            EnqueueTier234, CommitSplit, AbortSplit, RecheckRequest, CreateQueuedJob, Insert,
            EnqueueSingle, Enqueue, AbortSingle, RunSync, TypeOK
      <3> QED
        BY <3>1, <3>2
    <2> QED
      BY <2>1, ForkFrame DEF Exists
  <1>2. CASE r \in CalmParent
    <2>0. r \in Parent /\ r \notin Single /\ r \notin Sync
      BY <1>2, Families, CalmFamilies
    <2>k. \A k \in Kids(r) : k \in Calm /\ k \in Job /\ k # r
      BY <1>0, <1>2, CalmFamilies
    <2>1. CASE CheckRequest(r) \/ EnqueueTier1(r) \/ EnqueueTier234(r) \/ CrashApi(r)
      <3>1. /\ api[r] \notin {"done", "dead"} /\ api'[r] # "suppressed"
            /\ UNCHANGED <<row, pc, own, out, suppressed, optout, swept>>
            /\ \A q \in CalmParent : q # r => api'[q] = api[q]
        BY <1>0, <1>2, <2>1
        DEF CheckRequest, EnqueueTier1, EnqueueTier234, CrashApi, Enqueue, TypeOK, ForkInv
      <3>2. ~Exists(r) /\ \A k \in Kids(r) : ~Exists(k) /\ ~Ended(k)
        BY <1>2, <2>k, <3>1, CalmFamilies DEF JoinInv, RowsInv, Exists, Ended, Terminal
      <3>3. \A j \in {r} \cup Kids(r) : Findings(row'[j]) = {}
        BY <1>2, <2>k, <3>1, <3>2 DEF ForkInv
      <3> QED
        BY <1>2, <3>1, <3>2, <3>3, ForkRequest DEF Ended
    <2>2. ~RefuseRequest(r)
      BY <1>2 DEF RefuseRequest, ForkInv
    <2>3. CASE CommitSplit(r) \/ AbortSplit(r)
      <3>1. PICK flushed \in SUBSET Kids(r), s \in {"running", "failed"} :
              Insert([j \in {r} \cup flushed |-> NewRow(IF j = r THEN s ELSE "queued", {})])
        <4>1. CASE CommitSplit(r)
          BY <4>1 DEF CommitSplit
        <4>2. CASE AbortSplit(r)
          BY <4>2 DEF AbortSplit, Kids
        <4> QED
          BY <2>3, <4>1, <4>2
      <3>2. /\ api[r] \notin {"done", "dead"} /\ api'[r] = "done"
            /\ UNCHANGED <<pc, own, out, suppressed, optout, swept>>
            /\ \A q \in CalmParent : q # r => api'[q] = api[q]
        BY <1>0, <1>2, <2>3 DEF CommitSplit, AbortSplit, TypeOK
      <3>3. \A k \in Kids(r) : ~Exists(k) /\ Findings(row[k]) = {}
        BY <1>2, <2>k, <3>2, CalmFamilies DEF JoinInv, RowsInv, ForkInv, Exists, Ended, Terminal
      <3>4. \A j \in Job : j \notin {r} \cup Kids(r) => row'[j] = row[j]
        BY <3>1 DEF Insert
      <3>5. \A k \in Kids(r) : row'[k].status \in {"queued", "absent"}
        BY <2>k, <3>1, <3>3 DEF Insert, NewRow, Exists
      <3>6. \A j \in {r} \cup Kids(r) : Findings(row'[j]) = {}
        BY <1>0, <1>2, <2>k, <3>1, <3>3 DEF Insert, NewRow, Findings
      <3>7. \A k \in Kids(r) : row'[k].status \notin Terminal
        BY <3>5 DEF Terminal
      <3> QED
        BY <1>2, <3>2, <3>4, <3>6, <3>7, ForkRequest
    <2> QED
      BY <1>0, <2>0, <2>1, <2>2, <2>3 DEF ApiStep, RecheckRequest, CreateQueuedJob,
         EnqueueSingle, AbortSingle, RunSync
  <1> QED
    BY <1>1, <1>2

(* The steps of the tasks.                                                 *)
LEMMA ForkTask ==
  ASSUME TypeOK, JoinInv, ForkInv, NEW j \in Exec, TaskStep(j) \/ TaskFault(j)
  PROVE  ForkInv' /\ CalmFork
PROOF
  <1> USE DEF taskvars, cleanvars, optvars
  <1>0. /\ Exec \subseteq Job /\ Child \subseteq Exec /\ Parent \subseteq Job
        /\ Calm \subseteq Child /\ CalmParent \subseteq Parent
    BY CalmFamilies DEF Job, Exec
  <1>1. CASE j \notin Calm
    <2>0. j \notin Parent
      BY JobsAssumption
    <2>3. j \in Child => ParentOf(j) \notin CalmParent /\ ParentOf(j) \notin Calm
      BY <1>1, Families, CalmFamilies DEF Calm
    <2>1. /\ UNCHANGED <<api, suppressed, optout, swept>>
          /\ \A i \in Job : i # j /\ (j \in Child => i # ParentOf(j)) => row'[i] = row[i]
          /\ \A k \in Exec : k # j => pc'[k] = pc[k] /\ own'[k] = own[k] /\ out'[k] = out[k]
      BY <1>0, <1>1
      DEF TaskStep, TaskFault, Dequeue, MarkRunning, MarkStatus, CheckSuppression,
          StoreSuppressed, StoreResult, Store, FinishJob, CheckSiblings, LoadParent,
          LoadChildren, JoinParent, FailJob, FailChild, ReadForRecovery, Recover, Raise,
          BreakSession, Kill, Leave, At, TypeOK
    <2> QED
      BY <1>0, <1>1, <2>0, <2>1, <2>3, ForkFrame DEF Exists
  <1>2. CASE j \in Calm
    <2>0. j \in Child /\ (pc[j] \notin {"idle", "lost"} => Exists(j))
      BY <1>0, <1>2 DEF JoinInv, RowsInv
    <2>e. Ended(j) => PastStore(j)
      BY <1>2 DEF JoinInv, StoreInv
    (* Leaving the task or moving on without writing.                      *)
    <2>l. ASSUME row' = row, UNCHANGED <<api, suppressed, optout, swept>>,
                 \A k \in Calm : k # j => pc'[k] = pc[k] /\ own'[k] = own[k] /\ out'[k] = out[k],
                 ~Joining(j)'
          PROVE  ForkInv' /\ CalmFork
      <3>1. ~Ended(j) => Findings(row'[j]) = {}
        BY <1>2, <2>l DEF ForkInv
      <3>2. (Ended(j)' <=> Ended(j)) /\ (Exists(j)' <=> Exists(j))
        BY <2>l DEF Ended, Exists
      <3> QED
        BY <1>2, <2>l, <3>1, <3>2, ForkOther
    (* Writing the row's status only, which does not reopen it.            *)
    <2>m. ASSUME NEW s \in JobStatus, MarkStatus(j, s), Ended(j) => s \in Terminal, Exists(j),
                 UNCHANGED <<api, suppressed, optout, swept>>,
                 \A k \in Calm : k # j => pc'[k] = pc[k] /\ own'[k] = own[k] /\ out'[k] = out[k],
                 ~Joining(j)'
          PROVE  ForkInv' /\ CalmFork
      <3>1. row[j] \in Row
        BY <1>0 DEF TypeOK
      <3>2. /\ row'[j].status = s /\ row'[j].dossier = row[j].dossier
            /\ \A i \in Job : i # j => row'[i] = row[i]
        BY <1>0, <2>m, <3>1, StatusType DEF MarkStatus, TypeOK
      <3>3. s # "absent"
        BY DEF JobStatus
      <3>4. ~Ended(j) => Findings(row'[j]) = {}
        BY <1>2, <3>2 DEF ForkInv, Findings
      <3>5. (Ended(j) => Ended(j)') /\ Exists(j)'
        BY <2>m, <3>2, <3>3 DEF Ended, Exists
      <3> QED
        BY <1>2, <2>m, <3>2, <3>4, <3>5, ForkOther
    (* Storing the result.                                                 *)
    <2>s. ASSUME NEW d \in SUBSET (Exec \cup {Base}), NEW s \in Terminal, Store(j, NewRow(s, d)),
                 d \ {Base} \in {{}, {j}}, pc[j] \in {"stop", "clear"}
          PROVE  ForkInv' /\ CalmFork
      <3>1. /\ row'[j].status = s /\ row'[j].dossier = d
            /\ \A i \in Job : i # j => row'[i] = row[i]
            /\ \A k \in Calm : k # j => pc'[k] = pc[k] /\ own'[k] = own[k] /\ out'[k] = out[k]
            /\ UNCHANGED <<api, suppressed, optout, swept>> /\ pc'[j] = "wrote"
        BY <1>0, <2>s DEF Store, At, NewRow, TypeOK
      <3>2. ~Ended(j) /\ Ended(j)' /\ Exists(j) /\ Exists(j)'
        BY <2>0, <2>e, <2>s, <3>1 DEF PastStore, Ended, Exists, Terminal
      <3>3. Findings(row'[j]) \in {{}, {j}}
        BY <2>s, <3>1 DEF Findings
      <3> QED
        BY <1>2, <3>1, <3>2, <3>3, ForkOther DEF Joining
    <2>1. CASE Dequeue(j) \/ CheckSuppression(j) \/ ReadForRecovery(j) \/ TaskFault(j)
      <3>1. row' = row /\ UNCHANGED <<api, suppressed, optout, swept>>
        BY <2>1 DEF Dequeue, CheckSuppression, ReadForRecovery, TaskFault, Raise, BreakSession, Kill
      <3>2. \A k \in Calm : k # j => pc'[k] = pc[k] /\ own'[k] = own[k] /\ out'[k] = out[k]
        BY <1>0, <2>1 DEF Dequeue, CheckSuppression, ReadForRecovery, TaskFault, Raise, BreakSession,
                          Kill, Leave, At, TypeOK
      <3>3. ~Joining(j)'
        BY <1>0, <2>1 DEF Dequeue, CheckSuppression, ReadForRecovery, TaskFault, Raise, BreakSession,
                          Kill, Leave, At, TypeOK, Joining
      <3> QED
        BY <3>1, <3>2, <3>3, <2>l
    <2>2. CASE MarkRunning(j)
      <3>1. MarkStatus(j, "running") /\ "running" \in JobStatus
        BY <2>2 DEF MarkRunning, JobStatus
      <3>2. ~Ended(j) /\ Exists(j)
        BY <2>0, <2>e, <2>2 DEF MarkRunning, PastStore
      <3>3. /\ UNCHANGED <<api, suppressed, optout, swept>> /\ ~Joining(j)'
            /\ \A k \in Calm : k # j => pc'[k] = pc[k] /\ own'[k] = own[k] /\ out'[k] = out[k]
        BY <1>0, <2>2 DEF MarkRunning, At, TypeOK, Joining
      <3> QED
        BY <3>1, <3>2, <3>3, <2>m
    <2>3. CASE StoreSuppressed(j) \/ StoreResult(j)
      <3>1. PICK s \in Terminal, d \in {{Base}, {Base, j}} : Store(j, NewRow(s, d)) /\ pc[j] \in {"stop", "clear"}
        BY <2>3 DEF StoreSuppressed, StoreResult, Terminal
      <3>2. d \ {Base} \in {{}, {j}} /\ d \in SUBSET (Exec \cup {Base})
        <4>1. j # Base
          BY <1>0, JobsAssumption
        <4> QED
          BY <4>1
      <3> QED
        BY <3>1, <3>2, <2>s
    <2>4. CASE CheckSiblings(j)
      <3>1. CASE AllChildrenComplete(ParentOf(j))
        BY <1>2, <2>4, <3>1, ForkCopies
      <3>2. CASE ~AllChildrenComplete(ParentOf(j))
        <4>1. Leave(j, "done") /\ row' = row /\ UNCHANGED <<api, suppressed, optout, swept>>
          BY <2>4, <3>2 DEF CheckSiblings
        <4>2. /\ \A k \in Calm : k # j => pc'[k] = pc[k] /\ own'[k] = own[k] /\ out'[k] = out[k]
              /\ ~Joining(j)'
          BY <1>0, <4>1 DEF Leave, At, TypeOK, Joining
        <4> QED
          BY <4>1, <4>2, <2>l
      <3> QED
        BY <3>1, <3>2
    <2>5. CASE LoadParent(j) \/ LoadChildren(j)
      BY <1>2, <2>5, ForkCopies
    <2>6. CASE JoinParent(j)
      BY <1>2, <2>6, ForkWrite
    <2>7. CASE FailChild(j)
      <3> DEFINE s == IF own[j].status = "failed" THEN row[j].status ELSE "failed"
      <3>1. Exists(j) /\ MarkStatus(j, s) /\ s \in JobStatus /\ (Ended(j) => s \in Terminal)
        BY <1>0, <2>0, <2>7 DEF FailChild, TypeOK, Row, JobStatus, Exists, Ended, Terminal
      <3>2. /\ UNCHANGED <<api, suppressed, optout, swept>> /\ ~Joining(j)'
            /\ \A k \in Calm : k # j => pc'[k] = pc[k] /\ own'[k] = own[k] /\ out'[k] = out[k]
        BY <1>0, <2>7 DEF FailChild, At, TypeOK, Joining
      <3> HIDE DEF s
      <3> QED
        BY <3>1, <3>2, <2>m
    <2>8. CASE Recover(j)
      <3>1. Exists(j) /\ MarkStatus(j, "failed") /\ "failed" \in JobStatus /\ "failed" \in Terminal
        BY <2>0, <2>8 DEF Recover, JobStatus, Terminal
      <3>2. /\ UNCHANGED <<api, suppressed, optout, swept>> /\ ~Joining(j)'
            /\ \A k \in Calm : k # j => pc'[k] = pc[k] /\ own'[k] = own[k] /\ out'[k] = out[k]
        BY <1>0, <2>8 DEF Recover, At, TypeOK, Joining
      <3> QED
        BY <3>1, <3>2, <2>m
    <2> QED
      BY <2>0, <2>1, <2>2, <2>3, <2>4, <2>5, <2>6, <2>7, <2>8 DEF TaskStep, FinishJob, FailJob
  <1> QED
    BY <1>1, <1>2

(* The cleanup takes families out of the calm ones, or gives the parent of *)
(* a calm one another status.                                              *)
LEMMA ForkCleanup ==
  ASSUME TypeOK, JoinInv, ForkInv, CleanupScan \/ CleanupCommit
  PROVE  ForkInv' /\ CalmFork
PROOF
  <1> USE DEF taskvars, cleanvars, optvars
  <1>0. /\ CalmParent \subseteq Job /\ Calm \subseteq Job /\ Calm \subseteq Child
        /\ CalmParent \subseteq Parent
        /\ UNCHANGED <<api, pc, own, out, suppressed, optout>>
    BY CalmFamilies DEF Job, Exec, CleanupScan, CleanupCommit
  <1>1. CASE CleanupScan
    <2>1. Calm' \subseteq Calm /\ CalmParent' \subseteq CalmParent /\ UNCHANGED row
      BY <1>1 DEF CleanupScan, Calm, CalmParent, Swept
    <2>2. \A k \in Calm : Closed(k)' <=> Closed(k)
      BY <1>0, <2>1 DEF Closed, Exists
    <2>3. CalmFork
      BY <2>1, <2>2 DEF CalmFork, CalmClose, ForkInv, Closed, Ended
    <2>4. \A c \in Calm : \A k \in Kids(ParentOf(c)) : Closed(k)' <=> Closed(k)
      BY <2>2, CalmFamilies
    <2>5. ForkInv'
      BY <1>0, <2>1, <2>4 DEF ForkInv, Ended, Joining, Exists, Findings
    <2> QED
      BY <2>3, <2>5
  <1>2. CASE CleanupCommit
    <2>1. UNCHANGED swept
      BY <1>2 DEF CleanupCommit
    <2>2. \A k \in Calm : row'[k] = row[k]
      BY <1>0, <1>2, CalmFamilies DEF CleanupCommit, JoinInv, SweepInv
    <2>3. \A p \in CalmParent : row'[p].dossier = row[p].dossier /\ (Exists(p) => Exists(p)')
      <3> SUFFICES ASSUME NEW p \in CalmParent
                   PROVE  row'[p].dossier = row[p].dossier /\ (Exists(p) => Exists(p)')
        OBVIOUS
      <3>1. row[p] \in Row /\ "failed" \in JobStatus
        BY <1>0 DEF TypeOK, JobStatus
      <3>2. row'[p] = row[p] \/ row'[p] = [row[p] EXCEPT !.status = "failed"]
        BY <1>0, <1>2 DEF CleanupCommit
      <3>3. [row[p] EXCEPT !.status = "failed"].dossier = row[p].dossier
            /\ [row[p] EXCEPT !.status = "failed"].status = "failed"
        BY <3>1, StatusType
      <3> QED
        BY <3>2, <3>3 DEF Exists
    <2> QED
      BY <1>0, <2>1, <2>2, <2>3, ForkFrame
  <1> QED
    BY <1>1, <1>2

LEMMA ForkStep ==
  ASSUME TypeOK, JoinInv, ForkInv, [Next]_vars, ~AddSuppression
  PROVE  ForkInv' /\ CalmFork
PROOF
  <1>1. CASE Next
    <2>1. ~SelectJobs /\ ~PurgeJobs /\ ~PurgeFails
      BY DEF SelectJobs, PurgeJobs, PurgeFails, ForkInv
    <2> QED
      BY <1>1, <2>1, ForkApi, ForkTask, ForkCleanup DEF Next
  <1>2. CASE UNCHANGED vars
    BY <1>2, ForkFrame DEF vars, taskvars, cleanvars, optvars, Exists
  <1> QED
    BY <1>1, <1>2

LEMMA ForkInit ==
  ASSUME Init
  PROVE  ForkInv
PROOF
  <1>1. /\ \A k \in Calm : row[k] = NoRow /\ pc[k] = "idle"
        /\ \A p \in CalmParent : row[p] = NoRow /\ api[p] = "idle"
        /\ ~suppressed /\ optout = "idle"
    BY CalmFamilies DEF Init, Job, Exec, Root
  <1>2. NoRow.status \notin Terminal /\ Findings(NoRow) = {}
    BY DEF NoRow, Terminal, Findings
  <1> QED
    BY <1>1, <1>2 DEF ForkInv, Joining, Ended

-----------------------------------------------------------------------------
(* The refinement of ForkJoin                                              *)

(* The parts of the abstract specification are the children.               *)
LEMMA Parts == FJ!Part = Child
PROOF
  BY DEF FJ!Part, Child

(* Parts that close do so with their findings or empty-handed, and the     *)
(* others keep what they have.                                             *)
LEMMA CloseStep ==
  ASSUME \A k \in Child : /\ Closed(k) => Closed(k)' /\ Findings(row'[k]) = Findings(row[k])
                          /\ ~Closed(k) => Findings(row'[k]) \in {{}, {k}},
         \A p \in Parent : Findings(row'[p]) = Findings(row[p])
  PROVE  FJ!Next
PROOF
  <1> DEFINE some  == {k \in Child : Closed(k)' /\ ~Closed(k)}
             lucky == {k \in some : Findings(row'[k]) = {k}}
             found == [k \in Child |-> IF Closed(k) THEN Findings(row[k]) ELSE {}]
  <1>1. /\ some \in SUBSET (FJ!Part \ {k \in Child : Closed(k)})
        /\ {k \in Child : Closed(k)}' = {k \in Child : Closed(k)} \cup some
    BY Parts
  <1>2. lucky \in SUBSET some
    OBVIOUS
  <1>3. found' = [k \in Child |-> IF k \in lucky THEN {k} ELSE found[k]]
    <2> SUFFICES ASSUME NEW k \in Child
                 PROVE  (IF Closed(k)' THEN Findings(row'[k]) ELSE {})
                          = IF k \in lucky THEN {k} ELSE IF Closed(k) THEN Findings(row[k]) ELSE {}
      BY DEF Findings
    <2>1. CASE Closed(k)
      BY <2>1
    <2>2. CASE ~Closed(k)
      BY <2>2
    <2> QED
      BY <2>1, <2>2
  <1>4. [p \in Parent |-> Findings(row[p])]' = [p \in Parent |-> Findings(row[p])]
    BY DEF Findings
  <1> HIDE DEF some, lucky
  <1>5. FJ!Close
    BY <1>1, <1>2, <1>3, <1>4, Parts DEF FJ!Close
  <1> QED
    BY <1>5 DEF FJ!Next

(* When all parts are closed the whole becomes the union of their findings.*)
LEMMA JoinStep ==
  ASSUME NEW p \in Parent, \A k \in Kids(p) : Closed(k),
         \A k \in Child : (Closed(k)' <=> Closed(k)) /\ row'[k] = row[k],
         \A q \in Parent : q # p => row'[q] = row[q],
         Findings(row'[p]) = UNION {Findings(row[k]) : k \in Kids(p)}
  PROVE  FJ!Next
PROOF
  <1> DEFINE found == [k \in Child |-> IF Closed(k) THEN Findings(row[k]) ELSE {}]
             whole == [q \in Parent |-> Findings(row[q])]
  <1>0. Kids(p) \subseteq Child
    BY Families
  <1>1. {k \in Child : Closed(k)}' = {k \in Child : Closed(k)}
    OBVIOUS
  <1>2. found' = found
    BY DEF Findings
  <1>3. Kids(p) \subseteq {k \in Child : Closed(k)}
    BY <1>0
  <1>4. UNION {found[k] : k \in Kids(p)} = UNION {Findings(row[k]) : k \in Kids(p)}
    BY <1>0
  <1>5. whole' = [whole EXCEPT ![p] = UNION {found[k] : k \in Kids(p)}]
    BY <1>4 DEF Findings
  <1>6. FJ!Join(p)
    BY <1>1, <1>2, <1>3, <1>5 DEF FJ!Join
  <1> QED
    BY <1>6 DEF FJ!Next

(* While the cleanup has touched no family, all families are calm.         *)
LEMMA AllCalm ==
  ASSUME swept = {}
  PROVE  Calm = Child /\ CalmParent = Parent
PROOF
  BY Families DEF Calm, CalmParent, Swept

(* Then a step of the calm families is a step of the abstract fork/join.   *)
LEMMA CalmForkJoins ==
  ASSUME CalmFork, swept = {}
  PROVE  FJ!Next
PROOF
  <1>0. Calm = Child /\ CalmParent = Parent
    BY AllCalm
  <1>1. CASE CalmClose
    <2>1. \A k \in Child : /\ Closed(k) => Closed(k)' /\ Findings(row'[k]) = Findings(row[k])
                           /\ ~Closed(k) => Findings(row'[k]) \in {{}, {k}}
      BY <1>0, <1>1 DEF CalmClose
    <2>2. \A p \in Parent : Findings(row'[p]) = Findings(row[p])
      BY <1>0, <1>1 DEF CalmClose
    <2> QED
      BY <2>1, <2>2, CloseStep
  <1>2. ASSUME NEW p \in CalmParent, CalmJoin(p) PROVE FJ!Next
    BY <1>0, <1>2, JoinStep DEF CalmJoin
  <1> QED
    BY <1>1, <1>2 DEF CalmFork

(* At the start all parts are open and empty.                              *)
LEMMA ForkJoinInit ==
  ASSUME Init
  PROVE  FJ!Init
PROOF
  <1>1. /\ \A k \in Child : row[k] = NoRow /\ ParentOf(k) \in Parent
        /\ \A p \in Parent : row[p] = NoRow /\ api[p] = "idle"
    BY Families DEF Init, Job, Exec, Root
  <1>2. NoRow.status \notin Terminal /\ Findings(NoRow) = {}
    BY DEF NoRow, Terminal, Findings
  <1>3. \A k \in Child : ~Closed(k)
    BY <1>1, <1>2 DEF Closed
  <1>4. /\ {k \in Child : Closed(k)} = {}
        /\ [k \in Child |-> IF Closed(k) THEN Findings(row[k]) ELSE {}] = [k \in Child |-> {}]
        /\ [p \in Parent |-> Findings(row[p])] = [p \in Parent |-> {}]
    BY <1>1, <1>2, <1>3
  <1> QED
    BY <1>4, Parts DEF FJ!Init

(* Without the cleanup nothing is ever selected for it.                    *)
LEMMA NothingSwept ==
  ASSUME [Next]_vars, stuck = {}, swept = {}, "cleanup" \notin Env
  PROVE  stuck' = {} /\ swept' = {}
PROOF
  <1> USE DEF taskvars, cleanvars, optvars
  <1>1. ASSUME NEW r \in Root, ApiStep(r) \/ CrashApi(r) PROVE UNCHANGED cleanvars
    BY <1>1 DEF ApiStep, CrashApi, CheckRequest, RefuseRequest, CreateSuppressedJob, EnqueueTier1,
       EnqueueTier234, CommitSplit, AbortSplit, RecheckRequest, CreateQueuedJob, EnqueueSingle,
       Enqueue, AbortSingle, RunSync
  <1>2. ASSUME NEW j \in Exec, TaskStep(j) \/ TaskFault(j) PROVE UNCHANGED cleanvars
    BY <1>2 DEF TaskStep, TaskFault, Dequeue, MarkRunning, CheckSuppression,
       StoreSuppressed, StoreResult, Store, FinishJob, CheckSiblings, LoadParent,
       LoadChildren, JoinParent, FailJob, FailChild, ReadForRecovery, Recover, Raise,
       BreakSession, Kill
  <1>3. ASSUME AddSuppression \/ SelectJobs \/ PurgeJobs \/ PurgeFails PROVE UNCHANGED cleanvars
    BY <1>3 DEF AddSuppression, SelectJobs, PurgeJobs, PurgeFails
  <1>4. ~CleanupScan /\ ~CleanupCommit
    BY DEF CleanupScan, CleanupCommit
  <1>5. CASE UNCHANGED vars
    BY <1>5 DEF vars
  <1> QED
    BY <1>1, <1>2, <1>3, <1>4, <1>5 DEF Next

(* Without the orphan cleanup and the opt-out, for any number of split     *)
(* jobs and whatever is raised, killed or enqueued twice, the jobs table   *)
(* and its workers implement ForkJoin: nothing reaches a parent before its *)
(* children are final, and what reaches it is all they found.              *)
THEOREM ImplementsForkJoinAlways ==
  ASSUME "cleanup" \notin Env, "optout" \notin Env
  PROVE  Spec => ImplementsForkJoin
PROOF
  <1> DEFINE Untouched == stuck = {} /\ swept = {}
  <1>1. Init => Untouched /\ ForkInv /\ FJ!Init
    BY ForkInit, ForkJoinInit DEF Init
  <1>2. Untouched /\ [Next]_vars => Untouched'
    BY NothingSwept
  <1>3. TypeOK /\ JoinInv /\ Untouched /\ ForkInv /\ [Next]_vars
          => ForkInv' /\ [FJ!Next]_(FJ!vars)
    <2> SUFFICES ASSUME TypeOK, JoinInv, Untouched, ForkInv, [Next]_vars
                 PROVE  ForkInv' /\ FJ!Next
      OBVIOUS
    <2>1. ~AddSuppression
      BY DEF AddSuppression
    <2> QED
      BY <2>1, ForkStep, CalmForkJoins
  <1> QED
    BY <1>1, <1>2, <1>3, JoinInvAlways, PTL DEF Spec, ImplementsForkJoin, FJ!Spec

-----------------------------------------------------------------------------
(* Results are not lost, and the status tells what was found               *)

(* A calm parent holds nothing its children did not find.                  *)
Gathered == \A p \in CalmParent : Findings(row[p]) \subseteq UNION {Findings(row[k]) : k \in Kids(p)}

(* Until the opt-out the calm families are a fork and a join.              *)
QuietInv == suppressed \/ (ForkInv /\ Gathered)

(* A family never becomes calm again.                                      *)
LEMMA CalmShrinks ==
  ASSUME [Next]_vars
  PROVE  swept \subseteq swept' /\ CalmParent' \subseteq CalmParent
PROOF
  <1> USE DEF taskvars, cleanvars, optvars
  <1>1. ASSUME NEW r \in Root, ApiStep(r) \/ CrashApi(r) PROVE UNCHANGED swept
    BY <1>1 DEF ApiStep, CrashApi, CheckRequest, RefuseRequest, CreateSuppressedJob, EnqueueTier1,
       EnqueueTier234, CommitSplit, AbortSplit, RecheckRequest, CreateQueuedJob, EnqueueSingle,
       Enqueue, AbortSingle, RunSync
  <1>2. ASSUME NEW j \in Exec, TaskStep(j) \/ TaskFault(j) PROVE UNCHANGED swept
    BY <1>2 DEF TaskStep, TaskFault, Dequeue, MarkRunning, CheckSuppression,
       StoreSuppressed, StoreResult, Store, FinishJob, CheckSiblings, LoadParent,
       LoadChildren, JoinParent, FailJob, FailChild, ReadForRecovery, Recover, Raise,
       BreakSession, Kill
  <1>3. ASSUME CleanupCommit \/ AddSuppression \/ SelectJobs \/ PurgeJobs \/ PurgeFails
        PROVE  UNCHANGED swept
    BY <1>3 DEF CleanupCommit, AddSuppression, SelectJobs, PurgeJobs, PurgeFails
  <1>4. ASSUME CleanupScan PROVE swept \subseteq swept'
    <2>1. swept' = swept \cup (stuck' \cap Child)
      BY <1>4 DEF CleanupScan
    <2> QED
      BY <2>1
  <1>5. ASSUME UNCHANGED vars PROVE UNCHANGED swept
    BY <1>5 DEF vars
  <1>6. swept \subseteq swept'
    BY <1>1, <1>2, <1>3, <1>4, <1>5 DEF Next
  <1> QED
    BY <1>6 DEF CalmParent, Swept

(* A fork/join step takes nothing from a calm parent or its children.      *)
LEMMA GatheredStep ==
  ASSUME ForkInv, Gathered, CalmFork, CalmParent' \subseteq CalmParent
  PROVE  /\ Gathered'
         /\ \A p \in CalmParent : Findings(row[p]) \subseteq Findings(row'[p])
PROOF
  <1>1. \A k \in Calm : Findings(row[k]) \subseteq Findings(row'[k])
    <2>1. CASE CalmClose
      <3> SUFFICES ASSUME NEW k \in Calm PROVE Findings(row[k]) \subseteq Findings(row'[k])
        OBVIOUS
      <3>1. Closed(k) => Findings(row'[k]) = Findings(row[k])
        BY <2>1 DEF CalmClose
      <3>2. ~Closed(k) => Findings(row[k]) = {}
        BY DEF ForkInv, Closed, Ended
      <3> QED
        BY <3>1, <3>2
    <2>2. CASE \E p \in CalmParent : CalmJoin(p)
      BY <2>2 DEF CalmJoin
    <2> QED
      BY <2>1, <2>2 DEF CalmFork
  <1>2. \A p \in CalmParent : \/ Findings(row'[p]) = Findings(row[p])
                              \/ Findings(row'[p]) = UNION {Findings(row[k]) : k \in Kids(p)}
    <2>1. CASE CalmClose
      BY <2>1 DEF CalmClose
    <2>2. CASE \E p \in CalmParent : CalmJoin(p)
      BY <2>2 DEF CalmJoin
    <2> QED
      BY <2>1, <2>2 DEF CalmFork
  <1>3. \A p \in CalmParent : UNION {Findings(row[k]) : k \in Kids(p)}
                                 \subseteq UNION {Findings(row'[k]) : k \in Kids(p)}
    BY <1>1, CalmFamilies
  <1>4. \A p \in CalmParent : /\ Findings(row[p]) \subseteq Findings(row'[p])
                              /\ Findings(row'[p]) \subseteq UNION {Findings(row[k]) : k \in Kids(p)}
    BY <1>2 DEF Gathered
  <1>5. Gathered'
    BY <1>3, <1>4 DEF Gathered, Findings
  <1> QED
    BY <1>4, <1>5

(* Nobody leaves the suppression list.                                     *)
LEMMA StaysSuppressed ==
  ASSUME suppressed, [Next]_vars
  PROVE  suppressed'
PROOF
  <1> USE DEF taskvars, cleanvars, optvars
  <1>1. ASSUME NEW r \in Root, ApiStep(r) \/ CrashApi(r) PROVE suppressed'
    BY <1>1 DEF ApiStep, CrashApi, CheckRequest, RefuseRequest, CreateSuppressedJob, EnqueueTier1,
       EnqueueTier234, CommitSplit, AbortSplit, RecheckRequest, CreateQueuedJob, EnqueueSingle,
       Enqueue, AbortSingle, RunSync
  <1>2. ASSUME NEW j \in Exec, TaskStep(j) \/ TaskFault(j) PROVE suppressed'
    BY <1>2 DEF TaskStep, TaskFault, Dequeue, MarkRunning, CheckSuppression,
       StoreSuppressed, StoreResult, Store, FinishJob, CheckSiblings, LoadParent,
       LoadChildren, JoinParent, FailJob, FailChild, ReadForRecovery, Recover, Raise,
       BreakSession, Kill
  <1>3. ASSUME CleanupScan \/ CleanupCommit \/ AddSuppression \/ SelectJobs \/ PurgeJobs \/ PurgeFails
        PROVE  suppressed'
    BY <1>3 DEF CleanupScan, CleanupCommit, AddSuppression, SelectJobs, PurgeJobs, PurgeFails
  <1>4. CASE UNCHANGED vars
    BY <1>4 DEF vars
  <1> QED
    BY <1>1, <1>2, <1>3, <1>4 DEF Next

LEMMA QuietStep ==
  ASSUME TypeOK, JoinInv, QuietInv, [Next]_vars
  PROVE  /\ QuietInv'
         /\ ~suppressed => \A p \in CalmParent : Findings(row[p]) \subseteq Findings(row'[p])
PROOF
  <1>1. CASE suppressed
    BY <1>1, StaysSuppressed DEF QuietInv
  <1>2. CASE AddSuppression
    BY <1>2 DEF AddSuppression, QuietInv
  <1>3. CASE ~suppressed /\ ~AddSuppression
    BY <1>3, ForkStep, CalmShrinks, GatheredStep DEF QuietInv
  <1> QED
    BY <1>1, <1>2, <1>3

(* Until the opt-out the calm families are a fork and a join, with all     *)
(* disturbances.                                                           *)
THEOREM QuietInvAlways == Spec => [](TypeOK /\ JoinInv /\ QuietInv)
PROOF
  <1>1. Init => QuietInv
    <2> SUFFICES ASSUME Init PROVE QuietInv
      OBVIOUS
    <2>1. ForkInv
      BY ForkInit
    <2>2. \A p \in CalmParent : Findings(row[p]) = {}
      BY CalmFamilies DEF Init, Job, NoRow, Findings
    <2> QED
      BY <2>1, <2>2 DEF QuietInv, Gathered
  <1>2. TypeOK /\ JoinInv /\ QuietInv /\ [Next]_vars => QuietInv'
    BY QuietStep
  <1> QED
    BY <1>1, <1>2, JoinInvAlways, PTL DEF Spec

(* A task has stored nothing before its store, the row of a job on its own *)
(* is in the table before the task, only a suppressed subject is purged.   *)
StoresOnceInv ==
  /\ \A j \in Exec : ~PastStore(j) => Findings(row[j]) = {}
  /\ \A j \in Single \cup Sync :
       api[j] \in {"idle", "unsuppressed", "suppressed", "rechecked", "listed"}
         => j \notin queue /\ pc[j] = "idle"
  /\ optout # "idle" => suppressed

LEMMA StoresApi ==
  ASSUME TypeOK, RowsInv, StoresOnceInv, NEW r \in Root, ApiStep(r) \/ CrashApi(r)
  PROVE  /\ StoresOnceInv'
         /\ \A j \in Exec : Findings(row[j]) \subseteq Findings(row'[j])
PROOF
  <1> USE DEF GoTo, taskvars, cleanvars, optvars
  <1>0. /\ Exec \ Child = Single \cup Sync /\ Exec \subseteq Job /\ Single \cup Sync \subseteq Exec
        /\ \A p \in Parent : p \notin Exec /\ Kids(p) \subseteq Child
        /\ Single \cup Sync \subseteq Root /\ Parent \subseteq Root
    BY JobsAssumption, Families DEF Exec, Job, Root
  <1>1. CASE r \in Parent
    <2>0. r \notin Single /\ r \notin Sync
      BY <1>1, Families
    <2>1. /\ UNCHANGED pc /\ api[r] # "done"
          /\ \A j \in Single \cup Sync : api'[j] = api[j] /\ (j \notin queue => j \notin queue')
          /\ \A j \in Exec : j \notin Kids(r) => row'[j] = row[j]
      <3>1. UNCHANGED pc /\ api[r] # "done"
        BY <1>1, <2>0
        DEF ApiStep, CrashApi, CheckRequest, RefuseRequest, CreateSuppressedJob, EnqueueTier1,
            EnqueueTier234, CommitSplit, AbortSplit, RecheckRequest, CreateQueuedJob,
            EnqueueSingle, Enqueue, AbortSingle, RunSync, TypeOK
      <3>2. ASSUME NEW j \in Single \cup Sync PROVE api'[j] = api[j] /\ (j \notin queue => j \notin queue')
        <4>1. j \in Root /\ j # r /\ Tier1[r] # j /\ Tier234[r] # j
          BY <1>0, <1>1, <2>0, Families DEF Kids
        <4> QED
          BY <1>1, <2>0, <4>1
          DEF ApiStep, CrashApi, CheckRequest, RefuseRequest, CreateSuppressedJob, EnqueueTier1,
              EnqueueTier234, CommitSplit, AbortSplit, RecheckRequest, CreateQueuedJob,
              EnqueueSingle, Enqueue, AbortSingle, RunSync, TypeOK
      <3>3. ASSUME NEW j \in Exec, j \notin Kids(r) PROVE row'[j] = row[j]
        <4>1. j \in Job /\ j # r /\ j # Tier1[r]
          BY <1>0, <1>1, <3>3 DEF Kids, Job
        <4> QED
          BY <1>1, <2>0, <3>3, <4>1
          DEF ApiStep, CrashApi, CheckRequest, RefuseRequest, CreateSuppressedJob, EnqueueTier1,
              EnqueueTier234, CommitSplit, AbortSplit, RecheckRequest, CreateQueuedJob, Insert,
              EnqueueSingle, Enqueue, AbortSingle, RunSync, TypeOK
      <3> QED
        BY <3>1, <3>2, <3>3
    <2>4. \A k \in Kids(r) : k \in Exec /\ k \in Job /\ k # r /\ ~PastStore(k)
      BY <1>0, <1>1, <2>1, Families DEF RowsInv, PastStore, Job, Exec
    <2>2. \A k \in Kids(r) : row'[k] = row[k] \/ Findings(row'[k]) = {}
      <3>1. CASE CommitSplit(r) \/ AbortSplit(r)
        <4>1. PICK flushed \in SUBSET Kids(r), s \in {"running", "failed"} :
                Insert([j \in {r} \cup flushed |-> NewRow(IF j = r THEN s ELSE "queued", {})])
          <5>1. CASE CommitSplit(r)
            BY <5>1 DEF CommitSplit
          <5>2. CASE AbortSplit(r)
            BY <5>2 DEF AbortSplit, Kids
          <5> QED
            BY <3>1, <5>1, <5>2
        <4> QED
          BY <2>4, <4>1 DEF Insert, NewRow, Findings
      <3>2. CASE RefuseRequest(r)
        BY <2>4, <3>2 DEF RefuseRequest, CreateSuppressedJob, TypeOK
      <3>3. CASE CheckRequest(r) \/ EnqueueTier1(r) \/ EnqueueTier234(r) \/ CrashApi(r)
        BY <3>3 DEF CheckRequest, EnqueueTier1, EnqueueTier234, CrashApi, Enqueue
      <3> QED
        BY <1>1, <2>0, <3>1, <3>2, <3>3
        DEF ApiStep, RecheckRequest, CreateQueuedJob, EnqueueSingle, AbortSingle, RunSync
    <2>3. UNCHANGED <<suppressed, optout>>
      BY DEF ApiStep, CrashApi, CheckRequest, RefuseRequest, CreateSuppressedJob, EnqueueTier1,
          EnqueueTier234, CommitSplit, AbortSplit, RecheckRequest, CreateQueuedJob,
          EnqueueSingle, Enqueue, AbortSingle, RunSync
    <2>5. \A j \in Exec : /\ Findings(row[j]) \subseteq Findings(row'[j])
                          /\ ~PastStore(j)' => Findings(row'[j]) = {}
      BY <1>0, <2>1, <2>2, <2>4 DEF StoresOnceInv, PastStore, Findings
    <2> QED
      BY <1>0, <2>1, <2>3, <2>5 DEF StoresOnceInv, PastStore, Findings
  <1>2. CASE r \in Single \cup Sync
    <2>0. r \notin Parent /\ r \in Exec \ Child
      BY <1>0, <1>2, Families
    <2>1. /\ \A j \in Exec : j # r => row'[j] = row[j] /\ pc'[j] = pc[j]
          /\ \A j \in Single \cup Sync : j # r => api'[j] = api[j] /\ (j \notin queue => j \notin queue')
          /\ UNCHANGED <<suppressed, optout>>
      BY <1>0, <1>2, <2>0
      DEF ApiStep, CrashApi, CheckRequest, RefuseRequest, CreateSuppressedJob, EnqueueTier1,
          EnqueueTier234, CommitSplit, AbortSplit, RecheckRequest, CreateQueuedJob, Insert,
          EnqueueSingle, Enqueue, AbortSingle, RunSync, TypeOK
    <2>2. /\ Findings(row[r]) \subseteq Findings(row'[r])
          /\ ~PastStore(r)' => Findings(row'[r]) = {}
          /\ api'[r] \in {"idle", "unsuppressed", "suppressed", "rechecked", "listed"}
               => r \notin queue' /\ pc'[r] = "idle"
      <3>1. CASE CheckRequest(r) \/ RecheckRequest(r) \/ EnqueueSingle(r) \/ CrashApi(r)
        <4>1. row' = row /\ pc' = pc
          BY <3>1 DEF CheckRequest, RecheckRequest, EnqueueSingle, Enqueue, CrashApi
        <4>2. api'[r] \in {"idle", "unsuppressed", "suppressed", "rechecked", "listed"}
               => /\ api[r] \in {"idle", "unsuppressed", "suppressed", "rechecked", "listed"}
                  /\ queue' = queue
          BY <3>1 DEF CheckRequest, RecheckRequest, EnqueueSingle, Enqueue, CrashApi, TypeOK
        <4> QED
          BY <1>2, <2>0, <4>1, <4>2 DEF StoresOnceInv, PastStore, Findings
      <3>2. CASE RefuseRequest(r) \/ CreateQueuedJob(r) \/ RunSync(r)
        <4>1. api[r] \in {"idle", "suppressed", "rechecked", "listed"} /\ api'[r] \in {"created", "done"}
          BY <1>0, <1>2, <3>2
          DEF RefuseRequest, CreateQueuedJob, CreateSuppressedJob, RunSync, TypeOK
        <4>2. Findings(row'[r]) = {}
          BY <1>0, <1>2, <3>2
          DEF RefuseRequest, CreateQueuedJob, CreateSuppressedJob, RunSync, Insert, NewRow, Findings, TypeOK
        <4>3. Findings(row[r]) = {}
          BY <1>2, <2>0, <4>1 DEF StoresOnceInv, PastStore
        <4> QED
          BY <4>1, <4>2, <4>3
      <3>3. CASE AbortSingle(r)
        <4>1. row[r] \in Row /\ r \in Job
          BY <1>0, <1>2 DEF TypeOK
        <4>2. row'[r].dossier = row[r].dossier /\ pc' = pc /\ api'[r] = "done"
          BY <1>0, <1>2, <3>3, <4>1, StatusType DEF AbortSingle, TypeOK
        <4> QED
          BY <2>0, <4>2 DEF StoresOnceInv, PastStore, Findings
      <3> QED
        BY <2>0, <3>1, <3>2, <3>3
        DEF ApiStep, EnqueueTier1, EnqueueTier234, CommitSplit, AbortSplit
    <2> QED
      BY <1>0, <2>0, <2>1, <2>2 DEF StoresOnceInv, PastStore, Findings
  <1> QED
    BY <1>1, <1>2 DEF Root

LEMMA StoresTask ==
  ASSUME TypeOK, StoresOnceInv, NEW i \in Exec, TaskStep(i) \/ TaskFault(i)
  PROVE  /\ StoresOnceInv'
         /\ \A j \in Exec : Findings(row[j]) \subseteq Findings(row'[j])
PROOF
  <1> USE DEF taskvars, cleanvars, optvars
  <1>0. /\ Exec \ Child = Single \cup Sync /\ Exec \subseteq Job /\ Child \subseteq Exec
        /\ \A p \in Parent : p \notin Exec
    BY JobsAssumption DEF Exec, Job
  <1>1. /\ UNCHANGED <<api, suppressed, optout>>
        /\ \A j \in Exec : j \notin queue => j \notin queue'
        /\ pc[i] = "idle" => i \in queue
        /\ \A j \in Exec : j # i => pc'[j] = pc[j]
        /\ PastStore(i) => PastStore(i)'
    BY DEF TaskStep, TaskFault, Dequeue, MarkRunning, CheckSuppression,
       StoreSuppressed, StoreResult, Store, FinishJob, CheckSiblings, LoadParent,
       LoadChildren, JoinParent, FailJob, FailChild, ReadForRecovery, Recover, Raise,
       BreakSession, Kill, Leave, At, TryBlock, TypeOK, PastStore
  <1>2. \A j \in Exec : j # i => row'[j] = row[j]
    BY <1>0, Families
    DEF TaskStep, TaskFault, Dequeue, MarkRunning, MarkStatus, CheckSuppression,
       StoreSuppressed, StoreResult, Store, FinishJob, CheckSiblings, LoadParent,
       LoadChildren, JoinParent, FailJob, FailChild, ReadForRecovery, Recover, Raise,
       BreakSession, Kill, TypeOK
  <1>3. row'[i].dossier = row[i].dossier \/ (~PastStore(i) /\ PastStore(i)')
    <2>0. row[i] \in Row /\ i \in Job
      BY <1>0 DEF TypeOK
    <2>1. CASE StoreSuppressed(i) \/ StoreResult(i)
      BY <1>0, <2>1 DEF StoreSuppressed, StoreResult, Store, At, PastStore, TypeOK
    <2>2. CASE MarkRunning(i) \/ FailJob(i) \/ FailChild(i) \/ Recover(i)
      <3>1. PICK s \in {"running", "failed", row[i].status} : row' = [row EXCEPT ![i].status = s]
        BY <2>2 DEF MarkRunning, FailJob, FailChild, Recover, MarkStatus
      <3>2. row'[i] = [row[i] EXCEPT !.status = s]
        BY <2>0, <3>1 DEF TypeOK
      <3>3. [row[i] EXCEPT !.status = s].dossier = row[i].dossier
        BY <2>0 DEF Row
      <3> QED
        BY <3>2, <3>3
    <2>4. CASE JoinParent(i)
      <3>1. i # ParentOf(i)
        BY <2>4, Families DEF JoinParent
      <3> QED
        BY <2>0, <2>4, <3>1 DEF JoinParent, TypeOK
    <2>3. CASE \/ Dequeue(i) \/ CheckSuppression(i) \/ FinishJob(i) \/ ReadForRecovery(i) \/ TaskFault(i)
                \/ CheckSiblings(i) \/ LoadParent(i) \/ LoadChildren(i)
      BY <2>3 DEF Dequeue, CheckSuppression, FinishJob, ReadForRecovery, TaskFault, Raise,
                  BreakSession, Kill, CheckSiblings, LoadParent, LoadChildren
    <2> QED
      BY <2>1, <2>2, <2>3, <2>4 DEF TaskStep
  <1>4. /\ ~PastStore(i)' => Findings(row'[i]) = {}
        /\ Findings(row[i]) \subseteq Findings(row'[i])
    BY <1>1, <1>3 DEF StoresOnceInv, Findings
  <1>5. \A j \in Exec : /\ ~PastStore(j)' => Findings(row'[j]) = {}
                        /\ Findings(row[j]) \subseteq Findings(row'[j])
    BY <1>1, <1>2, <1>4 DEF StoresOnceInv, Findings, PastStore
  <1>6. StoresOnceInv'
    <2>1. \A j \in Single \cup Sync :
            api'[j] \in {"idle", "unsuppressed", "suppressed", "rechecked", "listed"}
              => j \notin queue' /\ pc'[j] = "idle"
      BY <1>0, <1>1 DEF StoresOnceInv
    <2> QED
      BY <1>1, <1>5, <2>1 DEF StoresOnceInv, Findings
  <1> QED
    BY <1>5, <1>6

LEMMA StoresService ==
  ASSUME TypeOK, StoresOnceInv,
         \/ CleanupScan \/ CleanupCommit
         \/ AddSuppression \/ SelectJobs \/ PurgeJobs \/ PurgeFails
  PROVE  /\ StoresOnceInv'
         /\ ~suppressed => \A j \in Exec : Findings(row[j]) \subseteq Findings(row'[j])
PROOF
  <1> USE DEF taskvars, cleanvars, optvars
  <1>0. Exec \subseteq Job
    BY DEF Job
  <1>1. CASE CleanupScan \/ AddSuppression \/ SelectJobs \/ PurgeFails
    <2>1. UNCHANGED <<row, pc, api, queue>> /\ (optout' # "idle" => suppressed')
      BY <1>1 DEF CleanupScan, AddSuppression, SelectJobs, PurgeFails, StoresOnceInv
    <2> QED
      BY <2>1 DEF StoresOnceInv, PastStore, Findings
  <1>2. CASE CleanupCommit
    <2>1. UNCHANGED <<pc, api, queue, suppressed, optout>>
      BY <1>2 DEF CleanupCommit
    <2>2. \A j \in Exec : row'[j].dossier = row[j].dossier
      <3> SUFFICES ASSUME NEW j \in Exec PROVE row'[j].dossier = row[j].dossier
        OBVIOUS
      <3>1. row[j] \in Row /\ "failed" \in JobStatus
        BY <1>0 DEF TypeOK, JobStatus
      <3>2. [row[j] EXCEPT !.status = "failed"].dossier = row[j].dossier
        BY <3>1, StatusType
      <3> QED
        BY <1>0, <1>2, <3>2 DEF CleanupCommit
    <2> QED
      BY <2>1, <2>2 DEF StoresOnceInv, PastStore, Findings
  <1>3. CASE PurgeJobs
    <2>1. UNCHANGED <<pc, api, queue, suppressed>> /\ suppressed
      BY <1>3 DEF PurgeJobs, StoresOnceInv
    <2>2. \A j \in Exec : row'[j].dossier \subseteq row[j].dossier
      BY <1>0, <1>3 DEF PurgeJobs, NewRow
    <2> QED
      BY <2>1, <2>2 DEF StoresOnceInv, PastStore, Findings
  <1> QED
    BY <1>1, <1>2, <1>3

LEMMA StoresOnceInit == Init => StoresOnceInv
PROOF
  <1> SUFFICES ASSUME Init PROVE StoresOnceInv
    OBVIOUS
  <1>1. \A j \in Exec : row[j] = NoRow /\ pc[j] = "idle"
    BY DEF Init, Job
  <1>2. Single \cup Sync \subseteq Exec /\ queue = {} /\ optout = "idle"
    BY DEF Init, Exec
  <1>3. Findings(NoRow) = {}
    BY DEF NoRow, Findings
  <1> QED
    BY <1>1, <1>2, <1>3 DEF StoresOnceInv

LEMMA StoresStep ==
  ASSUME TypeOK, RowsInv, StoresOnceInv, [Next]_vars
  PROVE  /\ StoresOnceInv'
         /\ ~suppressed => \A j \in Exec : Findings(row[j]) \subseteq Findings(row'[j])
PROOF
  <1>1. CASE Next
    BY <1>1, StoresApi, StoresTask, StoresService DEF Next
  <1>2. CASE UNCHANGED vars
    BY <1>2 DEF vars, taskvars, StoresOnceInv, PastStore, Findings, optvars
  <1> QED
    BY <1>1, <1>2

(* As long as nobody opts out, no step takes findings away from an         *)
(* executed job, nor from a parent whose children the cleanup left alone,  *)
(* for any number of jobs and any disturbances: a late failure, a second   *)
(* join, an aborted request and the cleanup change the status but never    *)
(* lose results already stored.                                            *)
THEOREM NoResultLostAlways == Spec => NoResultLost
PROOF
  <1>1. TypeOK /\ JoinInv /\ StoresOnceInv /\ [Next]_vars => StoresOnceInv'
    BY StoresStep DEF JoinInv
  <1>2. TypeOK /\ JoinInv /\ QuietInv /\ StoresOnceInv /\ [Next]_vars
          => [~suppressed => \A j \in Unswept : Findings(row[j]) \subseteq Findings(row'[j])]_vars
    <2>1. Unswept \subseteq Exec \cup CalmParent
      BY DEF Unswept, CalmParent, Job
    <2> QED
      BY <2>1, StoresStep, QuietStep DEF JoinInv
  <1> QED
    BY <1>1, <1>2, StoresOnceInit, QuietInvAlways, PTL DEF Spec, NoResultLost

(* What a status says about findings.                                      *)
Tells(r) ==
  /\ r.status = "completed" => Findings(r) # {}
  /\ r.status = "completed_no_data" => Findings(r) = {}

(* Rows and copies of executed jobs tell it, whatever happens; the parents *)
(* of calm families tell it until the opt-out.                             *)
TellInv ==
  /\ \A j \in Exec : Tells(row[j])
  /\ \A c \in Child : Joining(c) => Tells(own[c])
  /\ \A c \in Child : pc[c] = "joined" => /\ out[c].status \in {"completed", "failed"}
                                          /\ Tells(out[c])
  /\ \A p \in Parent : row[p].status # "completed_no_data"
  /\ ~suppressed => \A p \in CalmParent : Tells(row[p])

(* A step that completes nothing.                                          *)
LEMMA TellFrame ==
  ASSUME TellInv, suppressed => suppressed', CalmParent' \subseteq CalmParent,
         \A j \in Job : \/ row'[j].status = row[j].status /\ row'[j].dossier = row[j].dossier
                        \/ row'[j].status \notin {"completed", "completed_no_data"},
         \A c \in Child : Joining(c)' => Joining(c) /\ own'[c] = own[c],
         \A c \in Child : pc'[c] = "joined" => pc[c] = "joined" /\ out'[c] = out[c]
  PROVE  TellInv'
PROOF
  <1>0. Exec \subseteq Job /\ Parent \subseteq Job /\ CalmParent \subseteq Parent
    BY CalmFamilies DEF Job
  <1>1. \A j \in Job : Tells(row[j]) => Tells(row'[j])
    BY DEF Tells, Findings
  <1>2. \A c \in Child : Tells(own[c]) /\ own'[c] = own[c] => Tells(own'[c])
    OBVIOUS
  <1>3. \A c \in Child : Joining(c)' => Tells(own'[c])
    BY <1>2 DEF TellInv
  <1>4. \A c \in Child : pc'[c] = "joined" => /\ out'[c].status \in {"completed", "failed"}
                                              /\ Tells(out'[c])
    BY DEF TellInv
  <1>5. \A p \in Parent : row'[p].status # "completed_no_data"
    BY <1>0 DEF TellInv
  <1> QED
    BY <1>0, <1>1, <1>3, <1>4, <1>5 DEF TellInv, Tells, Findings

LEMMA TellApi ==
  ASSUME TypeOK, JoinInv, TellInv, NEW r \in Root, ApiStep(r) \/ CrashApi(r),
         suppressed => suppressed', CalmParent' \subseteq CalmParent
  PROVE  TellInv'
PROOF
  <1> USE DEF GoTo, taskvars, cleanvars, optvars
  <1>0. Root \subseteq Job /\ Child \subseteq Exec
    BY DEF Root, Job, Exec
  <1>1. UNCHANGED <<own, out>> /\ \A c \in Child : pc'[c] = pc[c]
    BY <1>0, Families
    DEF ApiStep, CrashApi, CheckRequest, RefuseRequest, CreateSuppressedJob, EnqueueTier1,
        EnqueueTier234, CommitSplit, AbortSplit, RecheckRequest, CreateQueuedJob,
        EnqueueSingle, Enqueue, AbortSingle, RunSync, TypeOK
  <1>2. \A j \in Job : row'[j] = row[j] \/ row'[j].status \in {"queued", "running", "failed", "suppressed"}
    <2>i. ASSUME NEW jobs, NEW s \in {"running", "failed", "queued"},
                 Insert([j \in {r} \cup jobs |-> NewRow(IF j = r THEN s ELSE "queued", {})])
          PROVE  \A j \in Job : \/ row'[j] = row[j]
                                \/ row'[j].status \in {"queued", "running", "failed", "suppressed"}
      BY <2>i DEF Insert, NewRow
    <2>1. CASE CommitSplit(r)
      BY <2>1, <2>i DEF CommitSplit
    <2>6. CASE AbortSplit(r)
      BY <2>6, <2>i DEF AbortSplit
    <2>7. CASE CreateQueuedJob(r) /\ api[r] = "rechecked"
      BY <2>7 DEF CreateQueuedJob, Insert, NewRow
    <2>2. CASE AbortSingle(r)
      <3>1. row[r] \in Row /\ "failed" \in JobStatus
        BY <1>0 DEF TypeOK, JobStatus
      <3>2. row' = [row EXCEPT ![r] = [row[r] EXCEPT !.status = "failed"]]
        BY <2>2 DEF AbortSingle
      <3>3. [row[r] EXCEPT !.status = "failed"].status = "failed"
        BY <3>1, StatusType
      <3> QED
        BY <1>0, <3>2, <3>3 DEF TypeOK
    <2>3. CASE RefuseRequest(r) \/ (CreateQueuedJob(r) /\ api[r] # "rechecked")
      <3>1. row' = [row EXCEPT ![r] = NewRow("suppressed", {Base})]
        BY <2>3 DEF RefuseRequest, CreateQueuedJob, CreateSuppressedJob
      <3> QED
        BY <1>0, <3>1 DEF TypeOK, NewRow
    <2>4. CASE RunSync(r)
      <3>1. row' = [row EXCEPT ![r] = NewRow("running", {})]
        BY <2>4 DEF RunSync
      <3> QED
        BY <1>0, <3>1 DEF TypeOK, NewRow
    <2>5. CASE CheckRequest(r) \/ EnqueueTier1(r) \/ EnqueueTier234(r) \/ RecheckRequest(r)
                \/ EnqueueSingle(r) \/ CrashApi(r)
      <3>1. row' = row
        BY <2>5 DEF CheckRequest, EnqueueTier1, EnqueueTier234, RecheckRequest, EnqueueSingle,
                    Enqueue, CrashApi
      <3> QED
        BY <3>1
    <2> QED
      BY <2>1, <2>2, <2>3, <2>4, <2>5, <2>6, <2>7 DEF ApiStep
  <1>3. \A j \in Job : \/ row'[j].status = row[j].status /\ row'[j].dossier = row[j].dossier
                       \/ row'[j].status \notin {"completed", "completed_no_data"}
    BY <1>2
  <1> QED
    BY <1>1, <1>3, TellFrame DEF Joining

LEMMA TellService ==
  ASSUME TypeOK, TellInv, suppressed => suppressed', CalmParent' \subseteq CalmParent,
         \/ CleanupScan \/ CleanupCommit
         \/ AddSuppression \/ SelectJobs \/ PurgeJobs \/ PurgeFails
  PROVE  TellInv'
PROOF
  <1> USE DEF taskvars, cleanvars, optvars
  <1>1. UNCHANGED <<pc, own, out>>
    BY DEF CleanupScan, CleanupCommit, AddSuppression, SelectJobs, PurgeJobs, PurgeFails
  <1>2. \A j \in Job : row'[j] = row[j] \/ row'[j].status \in {"failed", "purged"}
    <2>1. CASE CleanupCommit
      <3> SUFFICES ASSUME NEW j \in Job
                   PROVE  row'[j] = row[j] \/ row'[j].status \in {"failed", "purged"}
        OBVIOUS
      <3>1. row[j] \in Row /\ "failed" \in JobStatus
        BY DEF TypeOK, JobStatus
      <3>2. [row[j] EXCEPT !.status = "failed"].status = "failed"
        BY <3>1, StatusType
      <3> QED
        BY <2>1, <3>2 DEF CleanupCommit
    <2>2. CASE PurgeJobs
      BY <2>2 DEF PurgeJobs, NewRow
    <2>3. CASE row' = row
      BY <2>3
    <2> QED
      BY <2>1, <2>2, <2>3 DEF CleanupScan, AddSuppression, SelectJobs, PurgeFails
  <1>3. \A j \in Job : \/ row'[j].status = row[j].status /\ row'[j].dossier = row[j].dossier
                       \/ row'[j].status \notin {"completed", "completed_no_data"}
    BY <1>2
  <1> QED
    BY <1>1, <1>3, TellFrame DEF Joining

(* The parent gets a status that fits what it gets.                        *)
LEMMA TellJoin ==
  ASSUME TypeOK, JoinInv, QuietInv, TellInv, CalmParent' \subseteq CalmParent,
         NEW c \in Child, JoinParent(c)
  PROVE  TellInv'
PROOF
  <1> DEFINE p == ParentOf(c)
  <1> USE DEF taskvars, cleanvars, optvars
  <1>0. /\ p \in Parent /\ p \in Job /\ p \notin Exec /\ c \in Kids(p) /\ c \in Exec
        /\ Exec \subseteq Job /\ Parent \subseteq Job /\ Child \subseteq Exec
        /\ pc[c] = "joined" /\ Joining(c) /\ UNCHANGED suppressed
    BY Families, JobsAssumption DEF Job, Exec, JoinParent, Joining
  <1>1. PICK d \in {out[c].dossier, row[p].dossier} :
          /\ d # out[c].dossier => par[c].dossier = out[c].dossier
          /\ row' = [row EXCEPT ![p] =
                       NewRow(IF par[c].status = out[c].status THEN row[p].status ELSE out[c].status, d)]
    BY DEF JoinParent
  <1>2. /\ \A j \in Job : j # p => row'[j] = row[j]
        /\ row'[p].status = IF par[c].status = out[c].status THEN row[p].status ELSE out[c].status
        /\ row'[p].dossier = d
    BY <1>0, <1>1 DEF TypeOK, NewRow
  <1>3. /\ ~Joining(c)'
        /\ \A k \in Child : k # c => pc'[k] = pc[k] /\ own'[k] = own[k] /\ out'[k] = out[k]
    BY <1>0 DEF JoinParent, Leave, At, Joining, TypeOK
  <1>4. out[c].status \in {"completed", "failed"} /\ Tells(out[c])
    BY <1>0 DEF TellInv
  <1>5. row'[p].status # "completed_no_data"
    BY <1>0, <1>2, <1>4 DEF TellInv
  <1>6. ~suppressed /\ p \in CalmParent => Tells(row'[p])
    <2> SUFFICES ASSUME ~suppressed, p \in CalmParent, row'[p].status = "completed"
                 PROVE  d \ {Base} # {}
      BY <1>2, <1>5 DEF Tells, Findings
    <2>0. ForkInv /\ Gathered /\ c \in Calm
      BY DEF QuietInv, Calm
    <2>1. Findings(out[c]) = UNION {Findings(row[k]) : k \in Kids(p)}
      BY <1>0, <2>0 DEF ForkInv
    <2>2. Findings(row[p]) \subseteq Findings(out[c])
      BY <1>0, <2>0, <2>1 DEF Gathered
    <2>3. CASE par[c].status = out[c].status
      <3>1. row[p].status = "completed" /\ Findings(row[p]) # {}
        BY <1>0, <1>2, <2>3 DEF TellInv, Tells
      <3> QED
        BY <2>2, <3>1 DEF Findings
    <2>4. CASE par[c].status # out[c].status
      <3>1. Findings(out[c]) # {}
        BY <1>2, <1>4, <2>4 DEF Tells
      <3>2. CASE d = out[c].dossier
        BY <3>1, <3>2 DEF Findings
      <3>3. CASE d # out[c].dossier
        <4>1. par[c].dossier = out[c].dossier /\ d = row[p].dossier
          BY <1>1, <3>3
        <4>2. Exists(c) /\ Closed(c)
          BY <1>0, <2>0, CalmFamilies DEF JoinInv, RowsInv, ForkInv
        <4>3. Ended(c)
          BY <4>2 DEF Closed, Ended
        <4>4. \/ par[c].dossier \subseteq row[p].dossier
              \/ \A k \in Calm : p = ParentOf(k) /\ Exists(k) => row[k].dossier \subseteq row[p].dossier
          BY <1>0, <2>0, <4>3 DEF JoinInv, CopyInv
        <4>5. CASE par[c].dossier \subseteq row[p].dossier
          BY <3>1, <4>1, <4>5 DEF Findings
        <4>6. CASE \A k \in Calm : p = ParentOf(k) /\ Exists(k) => row[k].dossier \subseteq row[p].dossier
          <5>1. PICK k \in Kids(p) : Findings(row[k]) # {}
            BY <2>1, <3>1
          <5>2. k \in Calm /\ ParentOf(k) = p
            BY CalmFamilies
          <5>3. Exists(k)
            BY <2>0, <5>1, <5>2 DEF ForkInv, Ended, Exists, Terminal
          <5> QED
            BY <4>1, <4>6, <5>1, <5>2, <5>3 DEF Findings
        <4> QED
          BY <4>4, <4>5, <4>6
      <3> QED
        BY <3>2, <3>3
    <2> QED
      BY <2>3, <2>4
  <1> HIDE DEF p
  <1>7. \A j \in Exec : Tells(row'[j])
    BY <1>0, <1>2 DEF TellInv
  <1>8. /\ \A q \in Parent : row'[q].status # "completed_no_data"
        /\ ~suppressed => \A q \in CalmParent : Tells(row'[q])
    BY <1>0, <1>2, <1>5, <1>6, CalmFamilies DEF TellInv
  <1>9. \A k \in Child : /\ Joining(k)' => Tells(own'[k])
                         /\ pc'[k] = "joined" => /\ out'[k].status \in {"completed", "failed"}
                                                 /\ Tells(out'[k])
    BY <1>3 DEF TellInv, Joining
  <1> QED
    BY <1>0, <1>7, <1>8, <1>9 DEF TellInv, Tells, Findings

LEMMA TellTask ==
  ASSUME TypeOK, JoinInv, QuietInv, TellInv, suppressed => suppressed',
         CalmParent' \subseteq CalmParent,
         NEW j \in Exec, TaskStep(j) \/ TaskFault(j)
  PROVE  TellInv'
PROOF
  <1> USE DEF taskvars, cleanvars, optvars
  <1>0. /\ Exec \subseteq Job /\ Child \subseteq Exec /\ Parent \subseteq Job
        /\ j \in Job /\ row[j] \in Row /\ j \notin Parent /\ j # Base
    BY JobsAssumption DEF Job, Exec, TypeOK
  (* Steps that write a status only, if anything, and copy nothing.        *)
  <1>f. ASSUME \/ row' = row
               \/ \E s \in {"running", "failed", row[j].status} :
                    s \in JobStatus /\ row' = [row EXCEPT ![j] = [row[j] EXCEPT !.status = s]],
               \A c \in Child : Joining(c)' => Joining(c) /\ own'[c] = own[c],
               \A c \in Child : pc'[c] = "joined" => pc[c] = "joined" /\ out'[c] = out[c]
        PROVE  TellInv'
    <2>1. \A i \in Job : \/ row'[i].status = row[i].status /\ row'[i].dossier = row[i].dossier
                         \/ row'[i].status \notin {"completed", "completed_no_data"}
      <3>1. CASE row' = row
        BY <3>1
      <3>2. ASSUME NEW s \in {"running", "failed", row[j].status}, s \in JobStatus,
                   row' = [row EXCEPT ![j] = [row[j] EXCEPT !.status = s]]
            PROVE  \A i \in Job : \/ row'[i].status = row[i].status /\ row'[i].dossier = row[i].dossier
                                  \/ row'[i].status \notin {"completed", "completed_no_data"}
        <4>1. \A i \in Job : i # j => row'[i] = row[i]
          BY <1>0, <3>2 DEF TypeOK
        <4>2. row'[j].status = s /\ row'[j].dossier = row[j].dossier
          BY <1>0, <3>2, StatusType DEF TypeOK
        <4> QED
          BY <4>1, <4>2
      <3> QED
        BY <1>f, <3>1, <3>2
    <2> QED
      BY <1>f, <2>1, TellFrame
  <1>1. CASE Dequeue(j) \/ CheckSuppression(j) \/ FinishJob(j) \/ ReadForRecovery(j) \/ TaskFault(j)
               \/ LoadParent(j) \/ (CheckSiblings(j) /\ ~AllChildrenComplete(ParentOf(j)))
    <2>1. row' = row
      BY <1>1 DEF Dequeue, CheckSuppression, FinishJob, ReadForRecovery, TaskFault, Raise,
                  BreakSession, Kill, LoadParent, CheckSiblings
    <2>2. \A c \in Child : Joining(c)' => Joining(c) /\ own'[c] = own[c]
      BY <1>0, <1>1
      DEF Dequeue, CheckSuppression, FinishJob, ReadForRecovery, TaskFault, Raise, BreakSession, Kill,
          LoadParent, CheckSiblings, Leave, At, Joining, TypeOK
    <2>3. \A c \in Child : pc'[c] = "joined" => pc[c] = "joined" /\ out'[c] = out[c]
      BY <1>0, <1>1
      DEF Dequeue, CheckSuppression, FinishJob, ReadForRecovery, TaskFault, Raise, BreakSession, Kill,
          LoadParent, CheckSiblings, Leave, At, TypeOK
    <2> QED
      BY <1>f, <2>1, <2>2, <2>3
  <1>2. CASE MarkRunning(j) \/ FailJob(j) \/ FailChild(j) \/ Recover(j)
    <2>1. \E s \in {"running", "failed", row[j].status} :
             s \in JobStatus /\ row' = [row EXCEPT ![j] = [row[j] EXCEPT !.status = s]]
      <3>1. CASE MarkRunning(j) \/ FailJob(j) \/ Recover(j)
        BY <3>1 DEF MarkRunning, FailJob, Recover, MarkStatus, JobStatus
      <3>2. CASE FailChild(j)
        <4>1. row[j].status \in JobStatus
          BY <1>0, <3>2 DEF FailChild, JoinInv, RowsInv, Exists, Row
        <4> QED
          BY <3>2, <4>1 DEF FailChild, MarkStatus, JobStatus
      <3> QED
        BY <1>2, <3>1, <3>2
    <2>2. \A c \in Child : Joining(c)' => Joining(c) /\ own'[c] = own[c]
      BY <1>0, <1>2 DEF MarkRunning, FailJob, FailChild, Recover, Leave, At, Joining, TypeOK
    <2>3. \A c \in Child : pc'[c] = "joined" => pc[c] = "joined" /\ out'[c] = out[c]
      BY <1>0, <1>2 DEF MarkRunning, FailJob, FailChild, Recover, Leave, At, TypeOK
    <2> QED
      BY <1>f, <2>1, <2>2, <2>3
  <1>3. CASE StoreSuppressed(j) \/ StoreResult(j)
    <2>1. PICK new \in Row : Store(j, new) /\ Tells(new)
      <3>1. /\ NewRow("suppressed", {Base}) \in Row /\ NewRow("completed", {Base, j}) \in Row
            /\ NewRow("completed_no_data", {Base}) \in Row
        BY NewRowType DEF JobStatus
      <3>2. /\ Tells(NewRow("suppressed", {Base})) /\ Tells(NewRow("completed", {Base, j}))
            /\ Tells(NewRow("completed_no_data", {Base}))
        BY <1>0 DEF Tells, NewRow, Findings
      <3> QED
        BY <1>3, <3>1, <3>2 DEF StoreSuppressed, StoreResult
    <2>2. /\ row'[j] = new /\ \A i \in Job : i # j => row'[i] = row[i]
          /\ \A c \in Child : Joining(c)' => Joining(c) /\ own'[c] = own[c]
          /\ \A c \in Child : pc'[c] = "joined" => pc[c] = "joined" /\ out'[c] = out[c]
          /\ UNCHANGED suppressed
      BY <1>0, <2>1 DEF Store, At, Joining, TypeOK
    <2>3. \A i \in Exec : Tells(row'[i])
      BY <1>0, <2>1, <2>2 DEF TellInv
    <2>4. \A p \in Parent : row'[p].status # "completed_no_data"
      BY <1>0, <2>2 DEF TellInv
    <2>5. ~suppressed => \A p \in CalmParent : Tells(row'[p])
      BY <1>0, <2>2, CalmFamilies DEF TellInv
    <2>6. \A c \in Child : /\ Joining(c)' => Tells(own'[c])
                           /\ pc'[c] = "joined" => /\ out'[c].status \in {"completed", "failed"}
                                                   /\ Tells(out'[c])
      BY <2>2 DEF TellInv
    <2> QED
      BY <2>2, <2>3, <2>4, <2>5, <2>6 DEF TellInv, Tells, Findings
  <1>4. CASE CheckSiblings(j) /\ AllChildrenComplete(ParentOf(j))
    <2>1. /\ UNCHANGED <<row, suppressed>> /\ own'[j] = row[j] /\ pc'[j] = "merging" /\ out' = out
          /\ \A c \in Child : c # j => pc'[c] = pc[c] /\ own'[c] = own[c]
      BY <1>0, <1>4 DEF CheckSiblings, At, TypeOK
    <2>2. \A c \in Child : /\ Joining(c)' => Tells(own'[c])
                           /\ pc'[c] = "joined" => /\ out'[c].status \in {"completed", "failed"}
                                                   /\ Tells(out'[c])
      BY <1>0, <2>1 DEF TellInv, Joining
    <2> QED
      BY <2>1, <2>2 DEF TellInv, Tells, Findings
  <1>5. CASE LoadChildren(j)
    <2>1. /\ UNCHANGED <<row, suppressed, own>> /\ out'[j] = Merged(j) /\ j \in Child /\ Joining(j)
          /\ \A c \in Child : c # j => pc'[c] = pc[c] /\ out'[c] = out[c]
      BY <1>0, <1>5 DEF LoadChildren, At, Joining, TypeOK
    <2>2. Merged(j).status \in {"completed", "failed"} /\ Tells(Merged(j))
      <3> SUFFICES ASSUME Merged(j).status = "completed" PROVE Merged(j).dossier \ {Base} # {}
        BY DEF Merged, NewRow, Tells, Findings
      <3>1. PICK k \in Kids(ParentOf(j)) : Exists(k) /\ Sibling(j, k).status = "completed"
        BY DEF Merged, NewRow
      <3>2. k \in Exec
        BY <1>0, <2>1, <3>1, Families
      <3>3. Tells(Sibling(j, k))
        BY <2>1, <3>2 DEF Sibling, TellInv
      <3>4. Sibling(j, k).dossier \subseteq Merged(j).dossier
        BY <3>1 DEF Merged, NewRow
      <3> QED
        BY <3>1, <3>3, <3>4 DEF Tells, Findings
    <2>3. \A c \in Child : /\ Joining(c)' => Tells(own'[c])
                           /\ pc'[c] = "joined" => /\ out'[c].status \in {"completed", "failed"}
                                                   /\ Tells(out'[c])
      BY <1>0, <2>1, <2>2 DEF TellInv, Joining
    <2> QED
      BY <2>1, <2>3 DEF TellInv, Tells, Findings
  <1>6. CASE JoinParent(j)
    <2>1. j \in Child
      BY <1>6 DEF JoinParent
    <2> QED
      BY <1>6, <2>1, TellJoin
  <1> QED
    BY <1>1, <1>2, <1>3, <1>4, <1>5, <1>6 DEF TaskStep

(* Until the opt-out, completed means findings and completed_no_data means *)
(* none, for executed jobs and for every parent whose children the cleanup *)
(* left alone: for any number of jobs and any disturbances.                *)
THEOREM StatusTellsFindingsAlways == Spec => []StatusTellsFindings
PROOF
  <1>1. Init => TellInv
    <2> SUFFICES ASSUME Init PROVE TellInv
      OBVIOUS
    <2>1. /\ \A j \in Exec \cup Parent : row[j] = NoRow
          /\ \A c \in Child : pc[c] = "idle"
          /\ CalmParent \subseteq Parent
      BY CalmFamilies DEF Init, Job, Exec
    <2>2. NoRow.status = "absent"
      BY DEF NoRow
    <2> QED
      BY <2>1, <2>2 DEF TellInv, Tells, Joining
  <1>2. TypeOK /\ JoinInv /\ QuietInv /\ TellInv /\ [Next]_vars => TellInv'
    <2> SUFFICES ASSUME TypeOK, JoinInv, QuietInv, TellInv, [Next]_vars PROVE TellInv'
      OBVIOUS
    <2>0. (suppressed => suppressed') /\ CalmParent' \subseteq CalmParent
      BY StaysSuppressed, CalmShrinks
    <2>1. CASE Next
      BY <2>0, <2>1, TellApi, TellTask, TellService DEF Next
    <2>2. CASE UNCHANGED vars
      BY <2>0, <2>2, TellFrame DEF vars, taskvars, Joining
    <2> QED
      BY <2>1, <2>2
  <1>3. TellInv => StatusTellsFindings
    BY DEF TellInv, StatusTellsFindings, Tells, Job, Unswept, CalmParent
  <1> QED
    BY <1>1, <1>2, <1>3, QuietInvAlways, PTL DEF Spec
-----------------------------------------------------------------------------
(* Requests at rest are settled                                            *)

Settled(j)  == row[j].status \in Terminal \cup {"purged"}
Launched(j) == j \in queue \/ pc[j] # "idle"

(* A job on its own: its row is in the table before its task, a task that  *)
(* has written leaves it settled, a request that is over has enqueued it   *)
(* or settled it.                                                          *)
SoloSettles(s) ==
  /\ api[s] \in {"created", "abort"} => Exists(s)
  /\ Launched(s) => Exists(s) /\ pc[s] # "lost"
  /\ pc[s] \in {"wrote", "done"} => Settled(s)
  /\ pc[s] = "raised" => Settled(s) \/ row[s].status = "queued"
  /\ api[s] = "done" => Launched(s) \/ Settled(s)

(* A child that has written leaves its row settled; the purge takes its    *)
(* parent along; a final parent that was copied is settled.                *)
KidSettles(k) ==
  /\ pc[k] \in {"wrote", "merging", "joining", "joined", "done"} => Settled(k)
  /\ pc[k] = "marked" => own[k].status = "running"
  /\ pc[k] \notin {"idle", "lost", "loaded", "marked"} /\ own[k].status = "failed" => Settled(k)
  /\ row[k].status = "purged" => Settled(ParentOf(k))
  /\ k \in seen => ParentOf(k) \in seen
  /\ pc[k] \in {"joining", "joined"} /\ par[k].status \in Terminal => Settled(ParentOf(k))

(* A parent stays open only while one of its children, both launched, has  *)
(* not come to its end.                                                    *)
ParentSettles(p) ==
  /\ api[p] = "tier1" => Launched(Tier1[p])
  /\ api[p] = "tier234" => \A k \in Kids(p) : Launched(k)
  /\ api[p] = "done" => Exists(p)
  /\ Exists(p) /\ ~Settled(p) => /\ \A k \in Kids(p) : Launched(k)
                                 /\ \E k \in Kids(p) : pc[k] # "done"

SettleInv ==
  /\ \A s \in Single \cup Sync : SoloSettles(s)
  /\ \A k \in Child : KidSettles(k)
  /\ \A p \in Parent : ParentSettles(p)

(* Which jobs a request, and which jobs a task, can touch.                 *)
LEMMA SettleFamilies ==
  /\ \A p \in Parent : /\ p \in Root /\ p \in Job /\ p \notin Exec /\ Kids(p) # {}
                       /\ Tier1[p] \in Kids(p) /\ Tier234[p] \in Kids(p)
  /\ \A k \in Child : k \in Exec /\ k \in Job /\ k \notin Single /\ k \notin Sync
                      /\ ParentOf(k) \in Job /\ ParentOf(k) # k
  /\ \A s \in Single \cup Sync : /\ s \in Exec /\ s \in Job /\ s \in Root
                                 /\ s \notin Parent /\ s \notin Child
                                 /\ \A p \in Parent : s \notin Kids(p) /\ s # p
PROOF
  BY Families, JobsAssumption DEF Exec, Job, Root, Kids

LEMMA SoloApi ==
  ASSUME TypeOK, StoresOnceInv, NEW r \in Root, ApiStep(r) \/ CrashApi(r),
         NEW s \in Single \cup Sync, SoloSettles(s)
  PROVE  SoloSettles(s)'
PROOF
  <1> USE DEF GoTo, taskvars, cleanvars, optvars
  <1>0. s \in Exec /\ s \in Job /\ s \in Root /\ s \notin Parent /\ s \notin Child
    BY SettleFamilies
  <1>1. CASE r # s
    <2>1. row'[s] = row[s] /\ pc'[s] = pc[s] /\ api'[s] = api[s]
      <3>1. r \in Parent => s # r /\ s # Tier1[r] /\ s \notin Kids(r)
        BY SettleFamilies
      <3> QED
        BY <1>0, <1>1, <3>1
        DEF ApiStep, CrashApi, CheckRequest, RefuseRequest, CreateSuppressedJob, EnqueueTier1,
            EnqueueTier234, CommitSplit, AbortSplit, RecheckRequest, CreateQueuedJob, Insert,
            EnqueueSingle, Enqueue, AbortSingle, RunSync, TypeOK
    <2>2. s \in queue' <=> s \in queue
      <3>1. r \in Parent => s # Tier1[r] /\ s # Tier234[r]
        BY SettleFamilies
      <3> QED
        BY <1>1, <3>1
        DEF ApiStep, CrashApi, CheckRequest, RefuseRequest, CreateSuppressedJob, EnqueueTier1,
            EnqueueTier234, CommitSplit, AbortSplit, RecheckRequest, CreateQueuedJob,
            EnqueueSingle, Enqueue, AbortSingle, RunSync
    <2> QED
      BY <2>1, <2>2 DEF SoloSettles, Launched, Exists, Settled
  <1>2. CASE r = s
    <2>0. row[s] \in Row
      BY <1>0 DEF TypeOK
    <2>1. CASE CheckRequest(s) \/ RecheckRequest(s) \/ CrashApi(s)
      <3>1. UNCHANGED <<row, pc, queue>> /\ api'[s] \notin {"created", "abort", "done"}
        BY <1>0, <2>1 DEF CheckRequest, RecheckRequest, CrashApi, TypeOK
      <3> QED
        BY <3>1 DEF SoloSettles, Launched, Exists, Settled
    <2>2. CASE RefuseRequest(s) \/ CreateQueuedJob(s)
      <3>1. pc' = pc /\ queue' = queue /\ s \notin queue /\ pc[s] = "idle"
        BY <2>2 DEF RefuseRequest, CreateQueuedJob, CreateSuppressedJob, StoresOnceInv
      <3>2. /\ row'[s].status \in {"queued", "suppressed"}
            /\ api'[s] = "done" => row'[s].status = "suppressed"
        BY <1>0, <2>2
        DEF RefuseRequest, CreateQueuedJob, CreateSuppressedJob, Insert, NewRow, TypeOK
      <3> QED
        BY <3>1, <3>2 DEF SoloSettles, Launched, Exists, Settled, Terminal
    <2>3. CASE EnqueueSingle(s)
      <3>1. /\ UNCHANGED <<row, pc>> /\ Exists(s)
            /\ api'[s] \in {"done", "abort"}
            /\ api'[s] = "done" => s \in queue'
        BY <1>0, <2>3 DEF EnqueueSingle, Enqueue, SoloSettles, TypeOK
      <3>2. pc[s] # "lost"
        BY DEF SoloSettles, Launched
      <3> QED
        BY <3>1, <3>2 DEF SoloSettles, Launched, Exists, Settled
    <2>4. CASE AbortSingle(s)
      <3>1. UNCHANGED <<pc, queue>> /\ api'[s] = "done"
        BY <1>0, <2>4 DEF AbortSingle, TypeOK
      <3>2. row'[s].status = "failed"
        BY <1>0, <2>0, <2>4 DEF AbortSingle, TypeOK, Row
      <3> QED
        BY <3>1, <3>2 DEF SoloSettles, Launched, Exists, Settled, Terminal
    <2>5. CASE RunSync(s)
      <3>1. pc'[s] = "marked" /\ row'[s].status = "running"
        BY <1>0, <2>5 DEF RunSync, NewRow, TypeOK
      <3> QED
        BY <3>1 DEF SoloSettles, Launched, Exists
    <2> QED
      BY <1>0, <1>2, <2>1, <2>2, <2>3, <2>4, <2>5
      DEF ApiStep, EnqueueTier1, EnqueueTier234, CommitSplit, AbortSplit
  <1> QED
    BY <1>1, <1>2

LEMMA SoloTask ==
  ASSUME TypeOK, NEW j \in Exec, TaskStep(j) \/ TaskFault(j),
         NEW s \in Single \cup Sync, SoloSettles(s)
  PROVE  SoloSettles(s)'
PROOF
  <1> USE DEF taskvars, cleanvars, optvars
  <1>0. /\ s \in Exec /\ s \in Job /\ s \notin Parent /\ s \notin Child
        /\ j \in Child => ParentOf(j) # s
    BY SettleFamilies, Families
  <1>1. CASE j # s
    <2>1. row'[s] = row[s] /\ pc'[s] = pc[s] /\ api'[s] = api[s]
      BY <1>0, <1>1
      DEF TaskStep, TaskFault, Dequeue, MarkRunning, MarkStatus, CheckSuppression,
          StoreSuppressed, StoreResult, Store, FinishJob, CheckSiblings, LoadParent,
          LoadChildren, JoinParent, FailJob, FailChild, ReadForRecovery, Recover, Raise,
          BreakSession, Kill, Leave, At, TypeOK
    <2>2. s \in queue' <=> s \in queue
      BY <1>1
      DEF TaskStep, TaskFault, Dequeue, MarkRunning, CheckSuppression,
          StoreSuppressed, StoreResult, Store, FinishJob, CheckSiblings, LoadParent,
          LoadChildren, JoinParent, FailJob, FailChild, ReadForRecovery, Recover, Raise,
          BreakSession, Kill
    <2> QED
      BY <2>1, <2>2 DEF SoloSettles, Launched, Exists, Settled
  <1>2. CASE j = s
    <2>0. row[s] \in Row
      BY <1>0 DEF TypeOK
    <2>1. Launched(s) /\ Exists(s) /\ api' = api
      BY <1>2 DEF TaskStep, TaskFault, Dequeue, MarkRunning, CheckSuppression,
          StoreSuppressed, StoreResult, Store, FinishJob, CheckSiblings, LoadParent,
          LoadChildren, JoinParent, FailJob, FailChild, ReadForRecovery, Recover, Raise,
          BreakSession, Kill, TryBlock, SoloSettles, Launched
    <2>2. ASSUME row' = row, pc'[s] \in TaskState \ {"idle", "lost", "wrote"},
                 pc'[s] = "done" => pc[s] = "wrote",
                 pc'[s] = "raised" => row[s].status # "running"
          PROVE  SoloSettles(s)'
      <3>1. row[s].status # "running" => Settled(s) \/ row[s].status = "queued"
        BY <2>0, <2>1 DEF Row, JobStatus, Exists, Settled, Terminal
      <3> QED
        BY <2>1, <2>2, <3>1 DEF SoloSettles, Launched, Exists, Settled
    <2>3. CASE Dequeue(s) \/ CheckSuppression(s) \/ FinishJob(s) \/ ReadForRecovery(s) \/ TaskFault(s)
      <3>1. row' = row
        BY <2>3 DEF Dequeue, CheckSuppression, FinishJob, ReadForRecovery, TaskFault, Raise,
                    BreakSession, Kill
      <3>2. /\ pc'[s] \in {"loaded", "recover", "stop", "clear", "done", "recovering", "raised",
                           "failing", "dead"}
            /\ pc'[s] = "done" => pc[s] = "wrote"
            /\ pc'[s] = "raised" => row[s].status # "running"
        BY <1>0, <2>1, <2>3
        DEF Dequeue, CheckSuppression, FinishJob, ReadForRecovery, TaskFault, Raise,
            BreakSession, Kill, Leave, At, TypeOK
      <3> QED
        BY <2>2, <3>1, <3>2 DEF TaskState
    <2>4. CASE MarkRunning(s) \/ FailJob(s) \/ Recover(s)
      <3>1. PICK st \in {"running", "failed"} :
              row' = [row EXCEPT ![s].status = st] /\ (st = "running" => pc'[s] = "marked")
        BY <1>0, <2>4 DEF MarkRunning, FailJob, Recover, MarkStatus, At, TypeOK
      <3>2. row'[s].status = st
        BY <1>0, <2>0, <3>1 DEF TypeOK, Row
      <3>3. pc'[s] \in {"marked", "recover", "raised"}
        BY <1>0, <2>4 DEF MarkRunning, FailJob, Recover, Leave, At, TypeOK
      <3> QED
        BY <2>1, <3>1, <3>2, <3>3 DEF SoloSettles, Launched, Exists, Settled, Terminal
    <2>5. CASE StoreSuppressed(s) \/ StoreResult(s)
      <3>1. row'[s].status \in {"suppressed", "completed", "completed_no_data"} /\ pc'[s] = "wrote"
        BY <1>0, <2>5 DEF StoreSuppressed, StoreResult, Store, NewRow, At, TypeOK
      <3> QED
        BY <2>1, <3>1 DEF SoloSettles, Launched, Exists, Settled, Terminal
    <2> QED
      BY <1>0, <1>2, <2>3, <2>4, <2>5
      DEF TaskStep, CheckSiblings, LoadParent, LoadChildren, JoinParent, FailChild
  <1> QED
    BY <1>1, <1>2

(* The cleanup fails a row, the purge purges it, nothing else of the two   *)
(* writes it.                                                              *)
LEMMA ServiceRow ==
  ASSUME TypeOK, NEW j \in Job,
         \/ CleanupScan \/ CleanupCommit
         \/ AddSuppression \/ SelectJobs \/ PurgeJobs \/ PurgeFails
  PROVE  \/ row'[j] = row[j]
         \/ row'[j].status = IF CleanupCommit THEN "failed" ELSE "purged"
PROOF
  <1>1. [row[j] EXCEPT !.status = "failed"].status = "failed"
    BY StatusType DEF TypeOK, JobStatus
  <1>2. CASE CleanupCommit
    BY <1>1, <1>2 DEF CleanupCommit
  <1>3. CASE PurgeJobs
    <2>1. row'[j] = row[j] \/ row'[j].status = "purged"
      BY <1>3 DEF PurgeJobs, NewRow
    <2> QED
      BY <2>1, <1>2
  <1>4. CASE CleanupScan \/ AddSuppression \/ SelectJobs \/ PurgeFails
    BY <1>4 DEF CleanupScan, AddSuppression, SelectJobs, PurgeFails
  <1> QED
    BY <1>2, <1>3, <1>4

LEMMA SoloService ==
  ASSUME TypeOK,
         \/ CleanupScan \/ CleanupCommit
         \/ AddSuppression \/ SelectJobs \/ PurgeJobs \/ PurgeFails,
         NEW s \in Single \cup Sync, SoloSettles(s)
  PROVE  SoloSettles(s)'
PROOF
  <1> USE DEF taskvars, cleanvars, optvars
  <1>0. s \in Job
    BY SettleFamilies
  <1>1. UNCHANGED <<api, pc, queue>>
    BY DEF CleanupScan, CleanupCommit, AddSuppression, SelectJobs, PurgeJobs, PurgeFails
  <1>2. row'[s] = row[s] \/ row'[s].status \in {"failed", "purged"}
    BY <1>0, ServiceRow
  <1> QED
    BY <1>1, <1>2 DEF SoloSettles, Launched, Exists, Settled, Terminal

(* A settled parent stays settled, a launched task launched, a row in the  *)
(* table.                                                                  *)
LEMMA ParentStays ==
  ASSUME TypeOK, RowsInv, \A k \in Child : KidSettles(k), Next, NEW p \in Parent
  PROVE  Settled(p) => Settled(p)'
PROOF
  <1> USE DEF taskvars, cleanvars, optvars
  <1>0. p \in Root /\ p \in Job /\ p \notin Exec /\ row[p] \in Row /\ p \notin Single /\ p \notin Sync
    BY SettleFamilies, Families DEF TypeOK
  <1> SUFFICES ASSUME Settled(p) PROVE Settled(p)'
    OBVIOUS
  <1>1. Exists(p) /\ api[p] = "done"
    BY DEF Settled, Terminal, Exists, RowsInv
  <1>2. ASSUME NEW r \in Root, ApiStep(r) \/ CrashApi(r) PROVE Settled(p)'
    <2>1. CASE r = p
      BY <1>0, <1>1, <1>2, <2>1
      DEF ApiStep, CrashApi, CheckRequest, RefuseRequest, EnqueueTier1,
          EnqueueTier234, CommitSplit, AbortSplit, RecheckRequest, CreateQueuedJob,
          EnqueueSingle, AbortSingle, RunSync
    <2>2. CASE r # p
      <3>1. r \in Parent => p \notin Kids(r) /\ p # Tier1[r]
        BY Families, SettleFamilies
      <3>2. row'[p] = row[p]
        BY <1>0, <1>2, <2>2, <3>1
        DEF ApiStep, CrashApi, CheckRequest, RefuseRequest, CreateSuppressedJob, EnqueueTier1,
            EnqueueTier234, CommitSplit, AbortSplit, RecheckRequest, CreateQueuedJob, Insert,
            EnqueueSingle, Enqueue, AbortSingle, RunSync, TypeOK
      <3> QED
        BY <3>2 DEF Settled
    <2> QED
      BY <2>1, <2>2
  <1>3. ASSUME NEW j \in Exec, TaskStep(j) \/ TaskFault(j) PROVE Settled(p)'
    <2>1. CASE JoinParent(j)
      <3>1. CASE ParentOf(j) = p
        <4>1. out[j].status \in Terminal
          BY <2>1 DEF JoinParent, RowsInv
        <4>2. row'[p].status \in {row[p].status, out[j].status}
          BY <1>0, <2>1, <3>1 DEF JoinParent, NewRow, TypeOK
        <4> QED
          BY <4>1, <4>2 DEF Settled
      <3>2. CASE ParentOf(j) # p
        BY <1>0, <2>1, <3>2 DEF JoinParent, TypeOK, Settled
      <3> QED
        BY <3>1, <3>2
    <2>2. CASE ~JoinParent(j)
      <3>1. row'[p] = row[p]
        BY <1>0, <1>3, <2>2
        DEF TaskStep, TaskFault, Dequeue, MarkRunning, MarkStatus, CheckSuppression,
            StoreSuppressed, StoreResult, Store, FinishJob, CheckSiblings, LoadParent,
            LoadChildren, FailJob, FailChild, ReadForRecovery, Recover, Raise,
            BreakSession, Kill, TypeOK
      <3> QED
        BY <3>1 DEF Settled
    <2> QED
      BY <2>1, <2>2
  <1>4. CASE CleanupScan \/ CleanupCommit \/ AddSuppression \/ SelectJobs \/ PurgeJobs \/ PurgeFails
    <2>1. row'[p] = row[p] \/ row'[p].status \in {"failed", "purged"}
      BY <1>0, <1>4, ServiceRow
    <2> QED
      BY <2>1 DEF Settled, Terminal
  <1> QED
    BY <1>2, <1>3, <1>4 DEF Next

LEMMA StaysLaunched ==
  ASSUME TypeOK, Next, NEW k \in Exec, Launched(k)
  PROVE  Launched(k)'
PROOF
  <1> USE DEF taskvars, cleanvars, optvars
  <1>1. ASSUME NEW r \in Root, ApiStep(r) \/ CrashApi(r) PROVE Launched(k)'
    BY <1>1
    DEF ApiStep, CrashApi, CheckRequest, RefuseRequest, CreateSuppressedJob, EnqueueTier1,
        EnqueueTier234, CommitSplit, AbortSplit, RecheckRequest, CreateQueuedJob,
        EnqueueSingle, Enqueue, AbortSingle, RunSync, TypeOK, Launched
  <1>2. ASSUME NEW j \in Exec, TaskStep(j) \/ TaskFault(j) PROVE Launched(k)'
    <2>1. k # j => pc'[k] = pc[k] /\ (k \in queue => k \in queue')
      BY <1>2
      DEF TaskStep, TaskFault, Dequeue, MarkRunning, CheckSuppression,
          StoreSuppressed, StoreResult, Store, FinishJob, CheckSiblings, LoadParent,
          LoadChildren, JoinParent, FailJob, FailChild, ReadForRecovery, Recover, Raise,
          BreakSession, Kill, Leave, At, TypeOK
    <2>2. pc'[j] # "idle"
      BY <1>2
      DEF TaskStep, TaskFault, Dequeue, MarkRunning, CheckSuppression,
          StoreSuppressed, StoreResult, Store, FinishJob, CheckSiblings, LoadParent,
          LoadChildren, JoinParent, FailJob, FailChild, ReadForRecovery, Recover, Raise,
          BreakSession, Kill, Leave, At, TypeOK
    <2> QED
      BY <2>1, <2>2 DEF Launched
  <1>3. CASE CleanupScan \/ CleanupCommit \/ AddSuppression \/ SelectJobs \/ PurgeJobs \/ PurgeFails
    BY <1>3
    DEF CleanupScan, CleanupCommit, AddSuppression, SelectJobs, PurgeJobs, PurgeFails, Launched
  <1> QED
    BY <1>1, <1>2, <1>3 DEF Next

(* The step of a request, of the cleanup or of the opt-out leaves every    *)
(* settled child settled.                                                  *)
LEMMA KidOther ==
  ASSUME TypeOK, RowsInv, NEW k \in Child, KidSettles(k), ParentSettles(ParentOf(k)),
         Settled(ParentOf(k)) => Settled(ParentOf(k))',
         \/ \E r \in Root : ApiStep(r) \/ CrashApi(r)
         \/ CleanupScan \/ CleanupCommit
         \/ AddSuppression \/ SelectJobs \/ PurgeJobs \/ PurgeFails
  PROVE  KidSettles(k)'
PROOF
  <1> USE DEF taskvars, cleanvars, optvars
  <1> DEFINE q == ParentOf(k)
  <1>0. k \in Exec /\ k \in Job /\ k \notin Single /\ k \notin Sync /\ row[k] \in Row /\ q \in Parent /\ k \in Kids(q)
        /\ q \in Job /\ k \notin Parent
    BY SettleFamilies, Families DEF TypeOK
  <1>1. ASSUME NEW r \in Root, ApiStep(r) \/ CrashApi(r) PROVE KidSettles(k)'
    <2>1. UNCHANGED <<own, par, seen>> /\ pc'[k] = pc[k]
      BY <1>0, <1>1
      DEF ApiStep, CrashApi, CheckRequest, RefuseRequest, CreateSuppressedJob, EnqueueTier1,
          EnqueueTier234, CommitSplit, AbortSplit, RecheckRequest, CreateQueuedJob,
          EnqueueSingle, Enqueue, AbortSingle, RunSync, TypeOK
    <2>2. row'[k] = row[k] \/ (pc[k] \in {"idle", "lost"} /\ row'[k].status = "queued")
      <3>1. CASE r = q
        <4>1. api[r] # "done" => pc[k] \in {"idle", "lost"}
          BY <1>0, <3>1 DEF RowsInv
        <4>2. row'[k] = row[k] \/ (api[r] # "done" /\ row'[k].status = "queued")
          <5>1. CASE CommitSplit(r) \/ AbortSplit(r)
            <6>1. PICK flushed \in SUBSET Kids(r), s \in {"running", "failed"} :
                    Insert([j \in {r} \cup flushed |-> NewRow(IF j = r THEN s ELSE "queued", {})])
              <7>1. CASE CommitSplit(r)
                BY <7>1 DEF CommitSplit
              <7>2. CASE AbortSplit(r)
                BY <7>2 DEF AbortSplit, Kids
              <7> QED
                BY <5>1, <7>1, <7>2
            <6>2. api[r] # "done" /\ k # r
              BY <1>0, <3>1, <5>1 DEF CommitSplit, AbortSplit
            <6> QED
              BY <1>0, <6>1, <6>2 DEF Insert, NewRow
          <5>2. CASE ~CommitSplit(r) /\ ~AbortSplit(r)
            <6>1. r \notin Single /\ r \notin Sync /\ k # r
              BY <1>0, <3>1, Families
            <6> QED
              BY <1>0, <1>1, <5>2, <6>1
              DEF ApiStep, CrashApi, CheckRequest, RefuseRequest, CreateSuppressedJob, EnqueueTier1,
                  EnqueueTier234, RecheckRequest, CreateQueuedJob,
                  EnqueueSingle, Enqueue, AbortSingle, RunSync, TypeOK
          <5> QED
            BY <5>1, <5>2
        <4> QED
          BY <4>1, <4>2
      <3>2. CASE r # q
        <4>1. k # r /\ (r \in Parent => k \notin Kids(r) /\ k # Tier1[r])
          BY <1>0, <3>2, Families, SettleFamilies DEF Root
        <4> QED
          BY <1>0, <1>1, <3>2, <4>1
          DEF ApiStep, CrashApi, CheckRequest, RefuseRequest, CreateSuppressedJob, EnqueueTier1,
              EnqueueTier234, CommitSplit, AbortSplit, RecheckRequest, CreateQueuedJob, Insert,
              EnqueueSingle, Enqueue, AbortSingle, RunSync, TypeOK
      <3> QED
        BY <3>1, <3>2
    <2> QED
      BY <2>1, <2>2 DEF KidSettles, Settled
  <1>2. CASE CleanupScan \/ AddSuppression \/ PurgeFails
    <2>1. UNCHANGED <<row, pc, own, par>> /\ seen' \in {seen, {}}
      BY <1>2 DEF CleanupScan, AddSuppression, PurgeFails
    <2> QED
      BY <2>1 DEF KidSettles, Settled
  <1>3. CASE CleanupCommit
    <2>1. UNCHANGED <<pc, own, par, seen>>
      BY <1>3 DEF CleanupCommit
    <2>2. row'[k] = row[k] \/ row'[k].status = "failed"
      BY <1>0, <1>3, ServiceRow
    <2> QED
      BY <2>1, <2>2 DEF KidSettles, Settled, Terminal
  <1>4. CASE SelectJobs
    <2>1. UNCHANGED <<row, pc, own, par>> /\ seen' = {j \in Job : Exists(j)}
      BY <1>4 DEF SelectJobs
    <2>2. Exists(k) => Exists(q)
      BY <1>0 DEF RowsInv, ParentSettles
    <2> QED
      BY <1>0, <2>1, <2>2 DEF KidSettles, Settled
  <1>5. CASE PurgeJobs
    <2>1. UNCHANGED <<pc, own, par>> /\ seen' = {}
      BY <1>5 DEF PurgeJobs
    <2>2. /\ IF k \in seen THEN row'[k].status = "purged" ELSE row'[k] = row[k]
          /\ q \in seen => row'[q].status = "purged"
      BY <1>0, <1>5 DEF PurgeJobs, NewRow
    <2> QED
      BY <1>0, <2>1, <2>2 DEF KidSettles, Settled
  <1> QED
    BY <1>1, <1>2, <1>3, <1>4, <1>5

LEMMA KidTask ==
  ASSUME TypeOK, RowsInv, NEW k \in Child, KidSettles(k),
         Settled(ParentOf(k)) => Settled(ParentOf(k))',
         NEW j \in Exec, TaskStep(j) \/ TaskFault(j)
  PROVE  KidSettles(k)'
PROOF
  <1> USE DEF taskvars, cleanvars, optvars
  <1> DEFINE q == ParentOf(k)
  <1>0. /\ k \in Exec /\ k \in Job /\ row[k] \in Row /\ own[k] \in Row /\ q \in Parent
        /\ q \in Job /\ k # q /\ (j \in Child => ParentOf(j) # k)
        /\ k \notin Single /\ k \notin Sync
    BY SettleFamilies, Families DEF TypeOK
  <1>a. seen' = seen
    BY DEF TaskStep, TaskFault, Dequeue, MarkRunning, CheckSuppression,
        StoreSuppressed, StoreResult, Store, FinishJob, CheckSiblings, LoadParent,
        LoadChildren, JoinParent, FailJob, FailChild, ReadForRecovery, Recover, Raise,
        BreakSession, Kill
  <1>1. CASE j # k
    <2>1. row'[k] = row[k] /\ pc'[k] = pc[k] /\ own'[k] = own[k] /\ par'[k] = par[k]
      BY <1>0, <1>1
      DEF TaskStep, TaskFault, Dequeue, MarkRunning, MarkStatus, CheckSuppression,
          StoreSuppressed, StoreResult, Store, FinishJob, CheckSiblings, LoadParent,
          LoadChildren, JoinParent, FailJob, FailChild, ReadForRecovery, Recover, Raise,
          BreakSession, Kill, Leave, At, TypeOK
    <2> QED
      BY <1>a, <2>1 DEF KidSettles, Settled
  <1>2. CASE j = k
    <2>1. CASE \/ Dequeue(k) \/ ReadForRecovery(k) \/ BreakSession(k) \/ Kill(k)
               \/ Raise(k) /\ k \in caught
      <3>1. /\ row' = row
            /\ pc'[k] \in {"loaded", "recover", "lost", "recovering", "raised", "dead"}
            /\ pc'[k] # "loaded" /\ pc[k] \notin {"recover"} => own'[k] = NoRow
            /\ pc[k] = "recover" => own'[k] \in {own[k], NoRow}
        BY <1>0, <2>1 DEF Dequeue, ReadForRecovery, BreakSession, Kill, Raise, Leave, At, TryBlock, TypeOK
      <3> QED
        BY <1>a, <3>1 DEF KidSettles, Settled, NoRow
    <2>2. CASE Raise(k) /\ k \notin caught
      <3>1. UNCHANGED <<row, own, par>> /\ pc'[k] = "failing" /\ pc[k] \notin {"idle", "lost", "loaded"}
        BY <1>0, <2>2 DEF Raise, At, TryBlock, TypeOK
      <3> QED
        BY <1>a, <3>1 DEF KidSettles, Settled
    <2>3. CASE MarkRunning(k)
      <3>1. pc'[k] = "marked" /\ row'[k].status = "running" /\ own'[k].status = "running"
        BY <1>0, <2>3 DEF MarkRunning, MarkStatus, At, TypeOK, Row
      <3> QED
        BY <1>a, <3>1 DEF KidSettles
    <2>4. CASE CheckSuppression(k)
      <3>1. row' = row /\ own'[k] = row[k] /\ pc'[k] \in {"stop", "clear"}
        BY <1>0, <2>4 DEF CheckSuppression, At, TypeOK
      <3> QED
        BY <1>a, <3>1 DEF KidSettles, Settled, Terminal
    <2>5. CASE StoreSuppressed(k) \/ StoreResult(k)
      <3>1. row'[k].status \in {"suppressed", "completed", "completed_no_data"} /\ pc'[k] = "wrote"
        BY <1>0, <2>5 DEF StoreSuppressed, StoreResult, Store, NewRow, At, TypeOK
      <3> QED
        BY <1>a, <3>1 DEF KidSettles, Settled, Terminal
    <2>6. CASE CheckSiblings(k)
      <3>1. /\ row' = row /\ pc[k] = "wrote" /\ pc'[k] \in {"merging", "done"}
        BY <1>0, <2>6 DEF CheckSiblings, Leave, At, TypeOK
      <3> QED
        BY <1>a, <3>1 DEF KidSettles, Settled
    <2>7. CASE LoadParent(k)
      <3>1. UNCHANGED <<row, own>> /\ pc[k] = "merging" /\ pc'[k] = "joining" /\ par'[k] = row[q]
        BY <1>0, <2>7 DEF LoadParent, At, TypeOK
      <3> QED
        BY <1>a, <3>1 DEF KidSettles, Settled
    <2>8. CASE LoadChildren(k)
      <3>1. UNCHANGED <<row, own, par>> /\ pc[k] = "joining" /\ pc'[k] = "joined"
        BY <1>0, <2>8 DEF LoadChildren, At, TypeOK
      <3> QED
        BY <1>a, <3>1 DEF KidSettles, Settled
    <2>9. CASE JoinParent(k)
      <3>1. row'[k] = row[k] /\ own'[k] = NoRow /\ pc[k] = "joined" /\ pc'[k] = "done"
        BY <1>0, <2>9 DEF JoinParent, Leave, At, TypeOK
      <3> QED
        BY <1>a, <3>1 DEF KidSettles, Settled, NoRow
    <2>10. CASE FailChild(k)
      <3>1. /\ pc[k] = "failing" /\ pc'[k] = "wrote"
            /\ row'[k].status = IF own[k].status = "failed" THEN row[k].status ELSE "failed"
        BY <1>0, <2>10 DEF FailChild, MarkStatus, At, TypeOK, Row
      <3> QED
        BY <1>a, <3>1 DEF KidSettles, Settled, Terminal
    <2>11. CASE Recover(k)
      <3>1. /\ own' = own /\ pc[k] = "recovering" /\ pc'[k] = "raised" /\ row'[k].status = "failed"
        BY <1>0, <2>11 DEF Recover, MarkStatus, At, TypeOK, Row
      <3> QED
        BY <1>a, <3>1 DEF KidSettles, Settled, Terminal
    <2> QED
      BY <1>0, <1>2, <2>1, <2>2, <2>3, <2>4, <2>5, <2>6, <2>7, <2>8, <2>9, <2>10, <2>11
      DEF TaskStep, TaskFault, FinishJob, FailJob
  <1> QED
    BY <1>1, <1>2

(* What a step may do to a parent.  It is opened with both children in the *)
(* queue, and the child that ends last finds the other one settled: it     *)
(* joins, unless the parent was purged.                                    *)
LEMMA ParentApi ==
  ASSUME TypeOK, RowsInv, NEW r \in Root, ApiStep(r) \/ CrashApi(r),
         NEW p \in Parent, ParentSettles(p),
         Settled(p) => Settled(p)', \A k \in Kids(p) : Launched(k) => Launched(k)'
  PROVE  ParentSettles(p)'
PROOF
  <1> USE DEF GoTo, taskvars, cleanvars, optvars
  <1>0. /\ p \in Root /\ p \in Job /\ p \notin Exec /\ p \notin Single /\ p \notin Sync
        /\ Tier1[p] \in Kids(p) /\ Tier234[p] \in Kids(p) /\ Kids(p) = {Tier1[p], Tier234[p]}
        /\ \A k \in Kids(p) : k \in Exec /\ k \in Child /\ ParentOf(k) = p /\ k # p
    BY SettleFamilies, Families DEF Kids
  <1>1. CASE r # p
    <2>1. r \in Parent => p \notin Kids(r) /\ p # Tier1[r]
      BY <1>0, SettleFamilies, Families
    <2>2. row'[p] = row[p] /\ api'[p] = api[p]
      BY <1>0, <1>1, <2>1
      DEF ApiStep, CrashApi, CheckRequest, RefuseRequest, CreateSuppressedJob, EnqueueTier1,
          EnqueueTier234, CommitSplit, AbortSplit, RecheckRequest, CreateQueuedJob, Insert,
          EnqueueSingle, Enqueue, AbortSingle, RunSync, TypeOK
    <2>3. \A k \in Kids(p) : pc'[k] = pc[k]
      <3>1. \A k \in Kids(p) : k \notin Sync
        BY <1>0, SettleFamilies
      <3> QED
        BY <1>0, <3>1
        DEF ApiStep, CrashApi, CheckRequest, RefuseRequest, CreateSuppressedJob, EnqueueTier1,
            EnqueueTier234, CommitSplit, AbortSplit, RecheckRequest, CreateQueuedJob,
            EnqueueSingle, Enqueue, AbortSingle, RunSync, TypeOK
    <2> QED
      BY <1>0, <2>2, <2>3 DEF ParentSettles, Exists, Settled
  <1>2. CASE r = p
    <2>1. CASE CheckRequest(p) \/ CrashApi(p)
      <3>1. UNCHANGED <<row, pc>> /\ api'[p] \notin {"tier1", "tier234", "done"}
        BY <1>0, <2>1 DEF CheckRequest, CrashApi, TypeOK
      <3> QED
        BY <1>0, <3>1 DEF ParentSettles, Exists, Settled
    <2>2. CASE RefuseRequest(p)
      <3>1. row'[p].status = "suppressed" /\ api'[p] = "done"
        BY <1>0, <2>2 DEF RefuseRequest, CreateSuppressedJob, NewRow, TypeOK
      <3> QED
        BY <3>1 DEF ParentSettles, Exists, Settled, Terminal
    <2>3. CASE EnqueueTier1(p) \/ EnqueueTier234(p)
      <3>1. /\ UNCHANGED <<row, pc>> /\ api[p] # "done"
            /\ api'[p] \in {"tier1", "tier234", "abort1", "abort2"}
            /\ api'[p] = "tier1" => Tier1[p] \in queue'
            /\ api'[p] = "tier234" => api[p] = "tier1" /\ Tier234[p] \in queue'
        BY <1>0, <2>3 DEF EnqueueTier1, EnqueueTier234, Enqueue, TypeOK
      <3>2. ~Exists(p)'
        BY <3>1 DEF RowsInv, Exists
      <3> QED
        BY <1>0, <3>1, <3>2 DEF ParentSettles, Launched
    <2>4. CASE CommitSplit(p)
      <3>1. pc' = pc /\ api[p] = "tier234" /\ api'[p] = "done" /\ row'[p].status = "running"
        BY <1>0, <2>4 DEF CommitSplit, Insert, NewRow, TypeOK
      <3>2. \A k \in Kids(p) : Launched(k)' /\ pc[k] # "done"
        BY <1>0, <3>1 DEF ParentSettles, RowsInv
      <3> QED
        BY <1>0, <3>1, <3>2 DEF ParentSettles, Exists
    <2>5. CASE AbortSplit(p)
      <3>1. api'[p] = "done" /\ row'[p].status = "failed"
        BY <1>0, <2>5 DEF AbortSplit, Insert, NewRow, TypeOK
      <3> QED
        BY <3>1 DEF ParentSettles, Exists, Settled, Terminal
    <2> QED
      BY <1>0, <1>2, <2>1, <2>2, <2>3, <2>4, <2>5
      DEF ApiStep, RecheckRequest, CreateQueuedJob, EnqueueSingle, AbortSingle, RunSync
  <1> QED
    BY <1>1, <1>2

LEMMA ParentService ==
  ASSUME TypeOK, SweepInv, RowsInv,
         \/ CleanupScan \/ CleanupCommit
         \/ AddSuppression \/ SelectJobs \/ PurgeJobs \/ PurgeFails,
         NEW p \in Parent, ParentSettles(p)
  PROVE  ParentSettles(p)'
PROOF
  <1> USE DEF taskvars, cleanvars, optvars
  <1>1. p \in Job
    BY SettleFamilies
  <1>2. UNCHANGED <<api, pc, queue>>
    BY DEF CleanupScan, CleanupCommit, AddSuppression, SelectJobs, PurgeJobs, PurgeFails
  <1>3. row'[p] = row[p] \/ row'[p].status \in {"failed", "purged"}
    BY <1>1, ServiceRow
  <1> QED
    BY <1>2, <1>3 DEF ParentSettles, Launched, Exists, Settled, Terminal

LEMMA ParentTask ==
  ASSUME TypeOK, RowsInv, \A k \in Child : KidSettles(k),
         NEW j \in Exec, TaskStep(j) \/ TaskFault(j),
         NEW p \in Parent, ParentSettles(p),
         Settled(p) => Settled(p)', \A k \in Kids(p) : Launched(k) => Launched(k)'
  PROVE  ParentSettles(p)'
PROOF
  <1> USE DEF taskvars, cleanvars, optvars
  <1>0. /\ p \in Job /\ p \notin Exec /\ row[p] \in Row
        /\ Tier1[p] \in Kids(p) /\ Tier234[p] \in Kids(p)
        /\ \A k \in Kids(p) : k \in Exec /\ k \in Child /\ ParentOf(k) = p
        /\ j \notin Single /\ j \notin Sync => j \in Child
    BY SettleFamilies, Families DEF TypeOK, Exec
  <1>1. api' = api
    BY DEF TaskStep, TaskFault, Dequeue, MarkRunning, CheckSuppression,
        StoreSuppressed, StoreResult, Store, FinishJob, CheckSiblings, LoadParent,
        LoadChildren, JoinParent, FailJob, FailChild, ReadForRecovery, Recover, Raise,
        BreakSession, Kill
  <1>2. \/ row'[p] = row[p]
        \/ JoinParent(j) /\ ParentOf(j) = p /\ row'[p].status \in {row[p].status, out[j].status}
    BY <1>0
    DEF TaskStep, TaskFault, Dequeue, MarkRunning, MarkStatus, CheckSuppression,
        StoreSuppressed, StoreResult, Store, FinishJob, CheckSiblings, LoadParent,
        LoadChildren, JoinParent, FailJob, FailChild, ReadForRecovery, Recover, Raise,
        BreakSession, Kill, NewRow, TypeOK
  <1>3. Exists(p) => Exists(p)'
    <2>1. JoinParent(j) => out[j].status \in Terminal
      BY DEF JoinParent, RowsInv
    <2> QED
      BY <1>2, <2>1 DEF Exists, Terminal
  <1>4. ASSUME Exists(p)', ~Settled(p)'
        PROVE  /\ \A k \in Kids(p) : Launched(k)'
               /\ \E k \in Kids(p) : pc'[k] # "done"
    <2>1. CASE JoinParent(j) /\ ParentOf(j) = p
      <3>1. /\ out[j].status \in Terminal
            /\ par[j].status = out[j].status => Settled(p)
        BY <2>1 DEF JoinParent, RowsInv, KidSettles
      <3>2. row'[p].status = IF par[j].status = out[j].status THEN row[p].status ELSE out[j].status
        BY <1>0, <2>1 DEF JoinParent, NewRow, TypeOK
      <3> QED
        BY <1>4, <3>1, <3>2 DEF Settled
    <2>2. CASE ~(JoinParent(j) /\ ParentOf(j) = p)
      <3>1. Exists(p) /\ ~Settled(p)
        BY <1>2, <1>4, <2>2 DEF Exists, Settled
      <3>2. \A k \in Kids(p) : Launched(k)'
        BY <3>1 DEF ParentSettles
      <3>3. PICK k \in Kids(p) : pc[k] # "done"
        BY <3>1 DEF ParentSettles
      <3>4. CASE pc'[k] # "done"
        BY <3>2, <3>4
      <3>5. CASE pc'[k] = "done"
        <4>1. CheckSiblings(k) /\ ~AllChildrenComplete(p)
          BY <1>0, <2>2, <3>3, <3>5
          DEF TaskStep, TaskFault, Dequeue, MarkRunning, CheckSuppression,
              StoreSuppressed, StoreResult, Store, FinishJob, CheckSiblings, LoadParent,
              LoadChildren, JoinParent, FailJob, FailChild, ReadForRecovery, Recover, Raise,
              BreakSession, Kill, Leave, At, TypeOK
        <4>2. PICK i \in Kids(p) : Exists(i) /\ row[i].status \notin Terminal
          BY <4>1 DEF AllChildrenComplete
        <4>3. ~Settled(i)
          BY <1>0, <3>1, <4>2 DEF KidSettles, Settled
        <4>4. pc[k] = "wrote" /\ pc[i] # "done" /\ k # i
          BY <1>0, <4>1, <4>3 DEF CheckSiblings, KidSettles
        <4>5. pc'[i] = pc[i]
          BY <1>0, <4>1, <4>4 DEF CheckSiblings, Leave, At, TypeOK
        <4> QED
          BY <3>2, <4>4, <4>5
      <3> QED
        BY <3>4, <3>5
    <2> QED
      BY <2>1, <2>2
  <1> QED
    BY <1>0, <1>1, <1>3, <1>4 DEF ParentSettles

LEMMA SettleStep ==
  ASSUME TypeOK, RowsInv, SweepInv, StoresOnceInv, SettleInv, [Next]_vars
  PROVE  SettleInv'
PROOF
  <1> USE DEF SettleInv
  <1>1. CASE Next
    <2>1. ASSUME NEW s \in Single \cup Sync PROVE SoloSettles(s)'
      BY <1>1, SoloApi, SoloTask, SoloService DEF Next
    <2>2. ASSUME NEW p \in Parent
          PROVE  /\ Settled(p) => Settled(p)'
                 /\ \A k \in Kids(p) : Launched(k) => Launched(k)'
      <3>1. Settled(p) => Settled(p)'
        BY <1>1, ParentStays
      <3>2. \A k \in Kids(p) : k \in Exec
        BY Families, SettleFamilies
      <3>3. \A k \in Exec : Launched(k) => Launched(k)'
        BY <1>1, StaysLaunched
      <3> QED
        BY <3>1, <3>2, <3>3
    <2>3. ASSUME NEW k \in Child PROVE KidSettles(k)'
      <3>1. ParentOf(k) \in Parent
        BY ParentOfChild
      <3>2. ParentSettles(ParentOf(k)) /\ (Settled(ParentOf(k)) => Settled(ParentOf(k))')
        BY <2>2, <3>1
      <3> QED
        BY <1>1, <3>2, KidOther, KidTask DEF Next
    <2>4. ASSUME NEW p \in Parent PROVE ParentSettles(p)'
      BY <1>1, <2>2, ParentApi, ParentTask, ParentService DEF Next
    <2> QED
      BY <2>1, <2>3, <2>4
  <1>2. CASE UNCHANGED vars
    <2> USE <1>2 DEF vars, taskvars, cleanvars, optvars
    <2>1. \A s \in Single \cup Sync : SoloSettles(s)'
      BY DEF SoloSettles, Launched, Exists, Settled
    <2>2. \A k \in Child : KidSettles(k)'
      BY DEF KidSettles, Settled
    <2>3. \A p \in Parent : ParentSettles(p)'
      BY DEF ParentSettles, Launched, Exists, Settled
    <2> QED
      BY <2>1, <2>2, <2>3
  <1> QED
    BY <1>1, <1>2

LEMMA SettleInit == Init => SettleInv
PROOF
  <1> SUFFICES ASSUME Init PROVE SettleInv
    OBVIOUS
  <1>1. \A s \in Single \cup Sync : SoloSettles(s)
    <2>1. \A s \in Single \cup Sync : ~Launched(s) /\ api[s] = "idle" /\ pc[s] = "idle"
      BY SettleFamilies DEF Init, Launched
    <2> QED
      BY <2>1 DEF SoloSettles
  <1>2. \A k \in Child : KidSettles(k)
    <2>1. \A k \in Child : pc[k] = "idle" /\ row[k].status = "absent" /\ k \notin seen
      BY SettleFamilies DEF Init, NoRow
    <2> QED
      BY <2>1 DEF KidSettles
  <1>3. \A p \in Parent : ParentSettles(p)
    <2>1. \A p \in Parent : api[p] = "idle" /\ ~Exists(p)
      BY SettleFamilies DEF Init, NoRow, Exists
    <2> QED
      BY <2>1 DEF ParentSettles
  <1> QED
    BY <1>1, <1>2, <1>3 DEF SettleInv

(* Once a request is over and its tasks are at rest without mishap, its    *)
(* row is settled: no job stays running with nobody left to finish it,     *)
(* whichever child joins, whatever was raised, swept or purged.            *)
THEOREM SettledAtRestAlways == Spec => []SettledAtRest
PROOF
  <1>1. Init => SettleInv
    BY SettleInit
  <1>2. TypeOK /\ JoinInv /\ StoresOnceInv /\ SettleInv /\ [Next]_vars => SettleInv'
    BY SettleStep DEF JoinInv
  <1>3. SettleInv => SettledAtRest
    <2> SUFFICES ASSUME SettleInv, NEW r \in Root, api[r] = "done",
                        \A j \in Exec : RequestOf(j) = r => AtRest(j) /\ ~Mishandled(j)
                 PROVE  Settled(r)
      BY DEF SettledAtRest, Settled
    <2>1. CASE r \in Parent
      <3>1. \A k \in Kids(r) : k \in Exec /\ k \in Child /\ RequestOf(k) = r
        BY <2>1, Families, SettleFamilies DEF RequestOf
      <3>2. \A k \in Kids(r) : Launched(k) => pc[k] = "done"
        BY <3>1 DEF AtRest, Mishandled, Launched
      <3> QED
        BY <2>1, <3>2 DEF SettleInv, ParentSettles
    <2>2. CASE r \in Single \cup Sync
      <3>1. r \in Exec /\ r \notin Child /\ RequestOf(r) = r
        BY <2>2, SettleFamilies DEF RequestOf
      <3>2. AtRest(r) /\ ~Mishandled(r) /\ SoloSettles(r)
        BY <2>2, <3>1 DEF SettleInv
      <3> QED
        BY <3>1, <3>2 DEF AtRest, Mishandled, SoloSettles, Launched
    <2> QED
      BY <2>1, <2>2 DEF Root
  <1>4. TypeOK /\ JoinInv /\ StoresOnceInv /\ [Next]_vars => StoresOnceInv'
    BY StoresStep DEF JoinInv
  <1> QED
    BY <1>1, <1>2, <1>3, <1>4, StoresOnceInit, JoinInvAlways, PTL DEF Spec
=============================================================================
