----------------------------- MODULE Documents ------------------------------
(***************************************************************************)
(* A candidate's documents: upload with deduplication by content,          *)
(* reprocessing, deletion, the RQ task that extracts the text, its         *)
(* on_failure callback, and the embedding task it chains to.               *)
(*                                                                         *)
(* One user uploads one file any number of times; a document is named by   *)
(* the upload that inserted it, and every request by the DocumentJob it    *)
(* may insert.  The API and the embedding task work on the copy of a row   *)
(* they loaded, and their UPDATE carries only the attributes that differ   *)
(* from it; the extraction task and its callback write by primary key.     *)
(***************************************************************************)
EXTENDS Naturals, FiniteSets

CONSTANTS
  Upload,     \* POST /api/documents/upload requests
  Reprocess,  \* POST /api/documents/{id}/reprocess requests
  Mix,        \* bound: the sets of requests made together; {Req} is no bound
  Env         \* which disturbances may happen, a subset of EnvKind

EnvKind == {"storage",  \* the object store fails
            "refused",  \* Redis refuses a task
            "lost",     \* Redis accepts a task and the reply is lost
            "crash",    \* the API process dies between two steps
            "raise",    \* an exception inside a task
            "kill",     \* the RQ timeout, or a worker that dies
            "db",       \* the writes that record a failure fail
            "delete"}   \* the user deletes a document

Req == Upload \cup Reprocess

ASSUME DocumentsAssumption ==
  /\ Upload \cap Reprocess = {}
  /\ Mix \subseteq SUBSET Req
  /\ Env \subseteq EnvKind

DocStatus == {"pending", "completed", "failed", "embedded"}
Ready     == {"completed", "embedded"}    \* DOCUMENT_READY_STATUSES
JobStatus == {"pending", "completed", "failed", "duplicate"}

(* text: raw_text and extracted_data are there.                            *)
Doc   == [status : DocStatus \cup {"absent"}, text : BOOLEAN]
NoDoc == [status |-> "absent", text |-> FALSE]

VARIABLES
  doc,      \* [Upload -> candidate_documents row]
  chunks,   \* documents that have embeddings
  bytes,    \* uploads whose file is in the object store
  job,      \* [Req -> DocumentJob status]
  of,       \* [Req -> the document it is about, once known]
  req,      \* progress of each request
  copy,     \* [Req -> the document row its request, later its embedding task, loaded]
  queue,    \* extraction tasks waiting in RQ
  task,     \* progress of each extraction task
  embedq,   \* embedding tasks waiting in RQ
  embed,    \* progress of each embedding task
  lost      \* history: requests whose enqueue was accepted without a reply

reqvars   == <<req, bytes, lost>>
embedvars == <<chunks, embedq, embed>>
vars == <<doc, job, of, copy, queue, task, reqvars, embedvars>>

TypeOK ==
  /\ doc \in [Upload -> Doc]
  /\ chunks \subseteq Upload
  /\ bytes \subseteq Upload
  /\ job \in [Req -> JobStatus \cup {"absent"}]
  /\ of \in [Req -> Upload \cup {"none"}]
  /\ req \in [Req -> {"idle", "new", "found", "stored", "loaded", "fetched",
                      "created", "abort", "done", "refused", "dead"}]
  /\ copy \in [Req -> Doc]
  /\ queue \subseteq Req /\ embedq \subseteq Req /\ lost \subseteq Req
  /\ task \in [Req -> {"idle", "loaded", "failing", "extracted", "callback",
                       "done", "unrecorded"}]
  /\ embed \in [Req -> {"idle", "loaded", "stored", "done"}]

Init ==
  /\ doc = [d \in Upload |-> NoDoc]
  /\ chunks = {} /\ bytes = {} /\ lost = {} /\ queue = {} /\ embedq = {}
  /\ job = [r \in Req |-> "absent"]
  /\ of = [r \in Req |-> "none"]
  /\ req = [r \in Req |-> "idle"]
  /\ copy = [r \in Req |-> NoDoc]
  /\ task = [r \in Req |-> "idle"]
  /\ embed = [r \in Req |-> "idle"]

Present(d) == d \in Upload /\ doc[d].status # "absent"

-----------------------------------------------------------------------------
(* DocumentService.upload_document                                         *)

ReqAt(r, s) == req' = [req EXCEPT ![r] = s]

Begin(r) ==
  /\ req[r] = "idle"
  /\ \E S \in Mix : {r} \cup {q \in Req : req[q] # "idle"} \subseteq S

CheckDuplicate(u) ==
  /\ Begin(u)
  /\ IF \E d \in Upload : Present(d)
       THEN /\ \E d \in Upload : Present(d) /\ of' = [of EXCEPT ![u] = d]
            /\ ReqAt(u, "found")
       ELSE ReqAt(u, "new") /\ UNCHANGED of
  /\ UNCHANGED <<doc, job, copy, queue, task, bytes, lost, embedvars>>

(* Fault: a status no reader of DocumentJob knows.                         *)
RecordDuplicate_Unknown(u) ==
  /\ req[u] = "found"
  /\ IF Present(of[u])
       THEN job' = [job EXCEPT ![u] = "exists"] /\ ReqAt(u, "done")
       ELSE ReqAt(u, "refused") /\ UNCHANGED job
  /\ UNCHANGED <<doc, of, copy, queue, task, bytes, lost, embedvars>>

(* The foreign key refuses the job when the document has gone since.       *)
RecordDuplicate(u) ==
  /\ req[u] = "found"
  /\ IF Present(of[u])
       THEN job' = [job EXCEPT ![u] = "duplicate"] /\ ReqAt(u, "done")
       ELSE ReqAt(u, "refused") /\ UNCHANGED job
  /\ UNCHANGED <<doc, of, copy, queue, task, bytes, lost, embedvars>>

StoreFile(u) ==
  /\ req[u] = "new"
  /\ \/ bytes' = bytes \cup {u} /\ ReqAt(u, "stored")
     \/ "storage" \in Env /\ ReqAt(u, "refused") /\ UNCHANGED bytes
  /\ UNCHANGED <<doc, job, of, copy, queue, task, lost, embedvars>>

(* Fault: the row is committed whether or not the file was stored.         *)
InsertDocument_BeforeFile(u) ==
  /\ req[u] \in {"new", "stored"}
  /\ IF \E d \in Upload : Present(d)
       THEN ReqAt(u, "refused") /\ UNCHANGED <<doc, job, of>>
       ELSE /\ doc' = [doc EXCEPT ![u] = [status |-> "pending", text |-> FALSE]]
            /\ job' = [job EXCEPT ![u] = "pending"]
            /\ of' = [of EXCEPT ![u] = u]
            /\ ReqAt(u, "created")
  /\ UNCHANGED <<copy, queue, task, bytes, lost, embedvars>>

(* Document and job in one transaction; (user_id, file_hash) is unique.    *)
InsertDocument(u) ==
  /\ req[u] = "stored"
  /\ IF \E d \in Upload : Present(d)
       THEN ReqAt(u, "refused") /\ UNCHANGED <<doc, job, of>>
       ELSE /\ doc' = [doc EXCEPT ![u] = [status |-> "pending", text |-> FALSE]]
            /\ job' = [job EXCEPT ![u] = "pending"]
            /\ of' = [of EXCEPT ![u] = u]
            /\ ReqAt(u, "created")
  /\ UNCHANGED <<copy, queue, task, bytes, lost, embedvars>>

Enqueue(r) ==
  /\ req[r] = "created"
  /\ \/ queue' = queue \cup {r} /\ ReqAt(r, "done") /\ UNCHANGED lost
     \/ "refused" \in Env /\ ReqAt(r, "abort") /\ UNCHANGED <<queue, lost>>
     \/ /\ "lost" \in Env
        /\ queue' = queue \cup {r} /\ lost' = lost \cup {r} /\ ReqAt(r, "abort")
  /\ UNCHANGED <<doc, job, of, copy, task, bytes, embedvars>>

(* Only the job is marked; the document keeps its status.  A job that was  *)
(* deleted meanwhile makes the UPDATE fail.                                *)
AbortJob(r) ==
  /\ req[r] = "abort"
  /\ \/ /\ job' = [job EXCEPT ![r] = IF @ = "absent" THEN @ ELSE "failed"]
        /\ ReqAt(r, "done")
     \/ "db" \in Env /\ ReqAt(r, "dead") /\ UNCHANGED job
  /\ UNCHANGED <<doc, of, copy, queue, task, bytes, lost, embedvars>>

-----------------------------------------------------------------------------
(* DocumentService.reprocess_document and delete_document                  *)

LoadForReprocess(r) ==
  /\ Begin(r)
  /\ \E d \in Upload :
       /\ Present(d)
       /\ of' = [of EXCEPT ![r] = d]
       /\ copy' = [copy EXCEPT ![r] = doc[d]]
  /\ ReqAt(r, "loaded")
  /\ UNCHANGED <<doc, job, queue, task, bytes, lost, embedvars>>

FetchFile(r) ==
  /\ req[r] = "loaded"
  /\ \/ of[r] \in bytes /\ ReqAt(r, "fetched")
     \/ "storage" \in Env /\ ReqAt(r, "refused")
  /\ UNCHANGED <<doc, job, of, copy, queue, task, bytes, lost, embedvars>>

(* Fault: the reset is committed without the new job.                      *)
ResetDocument_NoJob(r) ==
  /\ req[r] = "fetched"
  /\ IF Present(of[r])
       THEN /\ doc' = [doc EXCEPT ![of[r]] = [status |-> "pending", text |-> FALSE]]
            /\ ReqAt(r, "created")
       ELSE ReqAt(r, "refused") /\ UNCHANGED doc
  /\ UNCHANGED <<job, of, copy, queue, task, bytes, lost, embedvars>>

(* Status and text are reset where they differ from the loaded copy, and   *)
(* the new job is inserted in the same transaction.                        *)
ResetDocument(r) ==
  LET d == of[r] IN
  /\ req[r] = "fetched"
  /\ IF Present(d)
       THEN /\ doc' = [doc EXCEPT
                 ![d] = [status |-> IF copy[r].status = "pending" THEN @.status ELSE "pending",
                         text   |-> IF copy[r].text THEN FALSE ELSE @.text]]
            /\ job' = [job EXCEPT ![r] = "pending"]
            /\ ReqAt(r, "created")
       ELSE ReqAt(r, "refused") /\ UNCHANGED <<doc, job>>
  /\ copy' = [copy EXCEPT ![r] = NoDoc]
  /\ UNCHANGED <<of, queue, task, bytes, lost, embedvars>>

(* Jobs and embeddings go by cascade; the file stays in the object store.  *)
DeleteDocument(d) ==
  /\ "delete" \in Env /\ Present(d)
  /\ doc' = [doc EXCEPT ![d] = NoDoc]
  /\ chunks' = chunks \ {d}
  /\ job' = [r \in Req |-> IF of[r] = d THEN "absent" ELSE job[r]]
  /\ UNCHANGED <<of, copy, queue, task, embedq, embed, reqvars>>

CrashApi(r) ==
  /\ "crash" \in Env
  /\ req[r] \notin {"idle", "done", "refused", "dead"}
  /\ ReqAt(r, "dead")
  /\ UNCHANGED <<doc, job, of, copy, queue, task, bytes, lost, embedvars>>

UploadStep(u) ==
  u \in Upload /\ \/ CheckDuplicate(u) \/ RecordDuplicate(u) \/ StoreFile(u)
                  \/ InsertDocument(u) \/ Enqueue(u) \/ AbortJob(u)

ReprocessStep(r) ==
  r \in Reprocess /\ \/ LoadForReprocess(r) \/ FetchFile(r) \/ ResetDocument(r)
                     \/ Enqueue(r) \/ AbortJob(r)

-----------------------------------------------------------------------------
(* process_document_job and on_document_job_failure                        *)

TaskAt(j, s) == task' = [task EXCEPT ![j] = s]

(* Writes by primary key: rows that are gone are not touched.              *)
SetDoc(d, row) == doc' = [doc EXCEPT ![d] = IF @ = NoDoc THEN @ ELSE row]
SetJob(j, s)   == job' = [job EXCEPT ![j] = IF @ = "absent" THEN @ ELSE s]

(* A document that is gone raises inside the try block.                    *)
StartTask(j) ==
  /\ j \in queue
  /\ queue' = queue \ {j}
  /\ TaskAt(j, IF Present(of[j]) THEN "loaded" ELSE "failing")
  /\ UNCHANGED <<doc, job, of, copy, reqvars, embedvars>>

Extract(j) ==
  /\ task[j] = "loaded"
  /\ SetDoc(of[j], [status |-> "completed", text |-> TRUE])
  /\ SetJob(j, "completed")
  /\ TaskAt(j, "extracted")
  /\ UNCHANGED <<of, copy, queue, reqvars, embedvars>>

(* Three attempts; when all are refused the document stays "completed".    *)
ChainEmbedding(j) ==
  /\ task[j] = "extracted"
  /\ TaskAt(j, "done")
  /\ \/ embedq' = embedq \cup {j}
     \/ "refused" \in Env /\ UNCHANGED embedq
  /\ UNCHANGED <<doc, job, of, copy, queue, chunks, embed, reqvars>>

RaiseTask(j) ==
  /\ "raise" \in Env /\ task[j] = "loaded"
  /\ TaskAt(j, "failing")
  /\ UNCHANGED <<doc, job, of, copy, queue, reqvars, embedvars>>

(* The except branch: both rows, whatever they hold.  It raises again, so  *)
(* the callback follows.                                                   *)
FailTask(j) ==
  /\ task[j] = "failing"
  /\ \/ SetDoc(of[j], [status |-> "failed", text |-> doc[of[j]].text])
        /\ SetJob(j, "failed")
     \/ "db" \in Env /\ UNCHANGED <<doc, job>>
  /\ TaskAt(j, "callback")
  /\ UNCHANGED <<of, copy, queue, reqvars, embedvars>>

KillTask(j) ==
  /\ "kill" \in Env /\ task[j] \in {"loaded", "failing", "extracted"}
  /\ TaskAt(j, "callback")
  /\ UNCHANGED <<doc, job, of, copy, queue, reqvars, embedvars>>

(* Fault: the callback forgets that a task may have finished.              *)
FailureCallback_AnyJob(j) ==
  /\ task[j] = "callback"
  /\ SetJob(j, "failed")
  /\ doc' = [doc EXCEPT ![of[j]].status = IF @ = "pending" THEN "failed" ELSE @]
  /\ TaskAt(j, "done")
  /\ UNCHANGED <<of, copy, queue, reqvars, embedvars>>

(* Fault: only an exception is recorded, not a killed worker.              *)
FailureCallback_Never(j) ==
  /\ task[j] = "callback"
  /\ TaskAt(j, "done")
  /\ UNCHANGED <<doc, job, of, copy, queue, reqvars, embedvars>>

(* RQ calls it for exceptions, timeouts and abandoned jobs alike; each row *)
(* is failed only while it is pending.                                     *)
FailureCallback(j) ==
  /\ task[j] = "callback"
  /\ \/ /\ job' = [job EXCEPT ![j] = IF @ = "pending" THEN "failed" ELSE @]
        /\ doc' = [doc EXCEPT ![of[j]].status = IF @ = "pending" THEN "failed" ELSE @]
        /\ TaskAt(j, "done")
     \/ "db" \in Env /\ TaskAt(j, "unrecorded") /\ UNCHANGED <<doc, job>>
  /\ UNCHANGED <<of, copy, queue, reqvars, embedvars>>

TaskStep(j) ==
  \/ StartTask(j) \/ Extract(j) \/ ChainEmbedding(j)
  \/ FailTask(j) \/ FailureCallback(j)

-----------------------------------------------------------------------------
(* run_embedding_job                                                       *)

EmbedAt(j, s) == embed' = [embed EXCEPT ![j] = s]
LeaveEmbedding(j) == EmbedAt(j, "done") /\ copy' = [copy EXCEPT ![j] = NoDoc]

(* No document or no text raises, and nothing records it.                  *)
LoadForEmbedding(j) ==
  /\ j \in embedq
  /\ embedq' = embedq \ {j}
  /\ IF Present(of[j]) /\ doc[of[j]].text
       THEN EmbedAt(j, "loaded") /\ copy' = [copy EXCEPT ![j] = doc[of[j]]]
       ELSE EmbedAt(j, "done") /\ UNCHANGED copy
  /\ UNCHANGED <<doc, job, of, queue, task, chunks, reqvars>>

(* store_embeddings adds rows, next to those of an earlier task, and       *)
(* commits.                                                                *)
StoreEmbeddings(j) ==
  /\ embed[j] = "loaded"
  /\ IF Present(of[j])
       THEN /\ chunks' = chunks \cup {of[j]}
            /\ EmbedAt(j, "stored")
            /\ UNCHANGED copy
       ELSE LeaveEmbedding(j) /\ UNCHANGED chunks
  /\ UNCHANGED <<doc, job, of, queue, task, embedq, reqvars>>

(* Fault: the status is set as soon as the embeddings are computed.        *)
MarkEmbedded_Early(j) ==
  /\ embed[j] \in {"loaded", "stored"}
  /\ doc' = [doc EXCEPT ![of[j]].status =
               IF @ = "absent" \/ copy[j].status = "embedded" THEN @ ELSE "embedded"]
  /\ LeaveEmbedding(j)
  /\ UNCHANGED <<job, of, queue, task, chunks, embedq, reqvars>>

(* The status the document has by now is not looked at.                    *)
MarkEmbedded(j) ==
  /\ embed[j] = "stored"
  /\ doc' = [doc EXCEPT ![of[j]].status =
               IF @ = "absent" \/ copy[j].status = "embedded" THEN @ ELSE "embedded"]
  /\ LeaveEmbedding(j)
  /\ UNCHANGED <<job, of, queue, task, chunks, embedq, reqvars>>

FailEmbedding(j) ==
  /\ Env \cap {"raise", "kill"} # {} /\ embed[j] \in {"loaded", "stored"}
  /\ LeaveEmbedding(j)
  /\ UNCHANGED <<doc, job, of, queue, task, chunks, embedq, reqvars>>

EmbedStep(j) == LoadForEmbedding(j) \/ StoreEmbeddings(j) \/ MarkEmbedded(j)

-----------------------------------------------------------------------------
Next ==
  \/ \E r \in Req :
       \/ UploadStep(r) \/ ReprocessStep(r) \/ CrashApi(r)
       \/ TaskStep(r) \/ RaiseTask(r) \/ KillTask(r)
       \/ EmbedStep(r) \/ FailEmbedding(r)
  \/ \E d \in Upload : DeleteDocument(d)

Spec == Init /\ [][Next]_vars

(* A request that has begun goes on, RQ hands out every task and calls the *)
(* failure callback of every one that fails.                               *)
FairSpec ==
  /\ Spec
  /\ \A r \in Req : /\ WF_vars(req[r] # "idle" /\ (UploadStep(r) \/ ReprocessStep(r)))
                    /\ WF_vars(TaskStep(r))

-----------------------------------------------------------------------------
(* A document row never exists without its file (service.py:154-156),      *)
(* whatever fails or crashes between the object store and the database.    *)
DocumentsHaveTheirFile == \A d \in Upload : Present(d) => d \in bytes

JobsOf(d) == {r \in Req : of[r] = d /\ job[r] \notin {"absent", "duplicate"}}

(* When every job of a document is completed the document is ready and has *)
(* its text: no reset, late failure, stale copy or embedding task left it  *)
(* behind, though jobs of one document run concurrently.                   *)
AllCompletedMeansReady ==
  \A d \in Upload :
    /\ Present(d)
    /\ JobsOf(d) # {}
    /\ \A j \in JobsOf(d) : job[j] = "completed"
    => doc[d].status \in Ready /\ doc[d].text

(* A document is "embedded" only with embeddings in the table.             *)
EmbeddedMeansSearchable ==
  \A d \in Upload : doc[d].status = "embedded" => d \in chunks

(* A job the client has seen completed or failed keeps that status until   *)
(* it is deleted (the client stops polling then), unless the reply to its  *)
(* enqueue was lost.                                                       *)
OutcomesStick ==
  [][\A j \in Req \ lost : job[j] \in {"completed", "failed", "duplicate"}
                             => job'[j] \in {job[j], "absent"}]_vars

(* Every pending job reaches a terminal status, so that pollers stop,      *)
(* unless the API died before the enqueue, or no write recording the       *)
(* failure succeeded.                                                      *)
JobsSettle ==
  \A j \in Req :
    job[j] = "pending"
      ~> job[j] # "pending" \/ req[j] = "dead" \/ task[j] = "unrecorded"
=============================================================================
