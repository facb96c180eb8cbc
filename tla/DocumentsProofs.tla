--------------------------- MODULE DocumentsProofs ---------------------------
(***************************************************************************)
(* Theorems about Documents, for any number of uploads, reprocess requests *)
(* and every set of disturbances.                                          *)
(***************************************************************************)
EXTENDS Documents, TLAPS

(* A row written by primary key keeps its type, and is not brought back.   *)
LEMMA SetDocTypes ==
  ASSUME doc \in [Upload -> Doc], NEW d, NEW v \in Doc, SetDoc(d, v)
  PROVE  /\ doc' \in [Upload -> Doc]
         /\ \A e \in Upload : e # d \/ doc[e] = NoDoc => doc'[e] = doc[e]
         /\ \A e \in Upload : e = d /\ doc[e] # NoDoc => doc'[e] = v
PROOF
  BY DEF SetDoc

(* A record of the table with another status.                              *)
LEMMA WithStatus ==
  ASSUME doc \in [Upload -> Doc], NEW d, NEW s, d \in Upload => s \in DocStatus \cup {"absent"},
         doc' = [doc EXCEPT ![d] = [doc[d] EXCEPT !.status = s]]
  PROVE  /\ doc' \in [Upload -> Doc]
         /\ \A e \in Upload : e # d => doc'[e] = doc[e]
         /\ d \in Upload => /\ doc'[d].text = doc[d].text /\ doc'[d].status = s
                            /\ s = doc[d].status => doc'[d] = doc[d]
PROOF
  <1>1. CASE d \notin Upload
    BY <1>1
  <1>2. CASE d \in Upload
    <2> DEFINE w == [doc[d] EXCEPT !.status = s]
    <2>1. doc[d] \in Doc
      BY <1>2
    <2>2. w \in Doc /\ w.status = s /\ w.text = doc[d].text /\ (s = doc[d].status => w = doc[d])
      BY <1>2, <2>1 DEF Doc
    <2> HIDE DEF w
    <2>3. doc' = [doc EXCEPT ![d] = w]
      BY DEF w
    <2> QED
      BY <1>2, <2>2, <2>3
  <1> QED
    BY <1>1, <1>2

(* The callback fails a document that is still pending.                    *)
LEMMA CallbackTypes ==
  ASSUME doc \in [Upload -> Doc], NEW d,
         doc' = [doc EXCEPT ![d].status = IF @ = "pending" THEN "failed" ELSE @]
  PROVE  /\ doc' \in [Upload -> Doc]
         /\ \A e \in Upload : e # d => doc'[e] = doc[e]
         /\ d \in Upload => /\ doc'[d].text = doc[d].text
                            /\ doc[d].status = "pending" => doc'[d].status = "failed"
                            /\ doc[d].status # "pending" => doc'[d] = doc[d]
PROOF
  <1> DEFINE s == IF doc[d].status = "pending" THEN "failed" ELSE doc[d].status
  <1>1. doc' = [doc EXCEPT ![d] = [doc[d] EXCEPT !.status = s]]
    OBVIOUS
  <1>2. d \in Upload => s \in DocStatus \cup {"absent"}
    BY DEF Doc, DocStatus
  <1>3. /\ doc[d].status = "pending" => s = "failed"
        /\ doc[d].status # "pending" => s = doc[d].status
    OBVIOUS
  <1> HIDE DEF s
  <1> QED
    BY <1>1, <1>2, <1>3, WithStatus

(* The embedding task sets the status, or leaves it.                       *)
LEMMA EmbeddedTypes ==
  ASSUME doc \in [Upload -> Doc], NEW j, MarkEmbedded(j)
  PROVE  /\ doc' \in [Upload -> Doc]
         /\ \A e \in Upload : e # of[j] => doc'[e] = doc[e]
         /\ of[j] \in Upload => /\ doc'[of[j]].text = doc[of[j]].text
                                /\ doc'[of[j]].status \in {doc[of[j]].status, "embedded"}
                                /\ doc[of[j]].status = "absent" => doc'[of[j]] = doc[of[j]]
PROOF
  <1> DEFINE d == of[j]
             s == IF doc[d].status = "absent" \/ copy[j].status = "embedded" THEN doc[d].status ELSE "embedded"
  <1>1. doc' = [doc EXCEPT ![d] = [doc[d] EXCEPT !.status = s]]
    BY DEF MarkEmbedded
  <1>2. d \in Upload => s \in DocStatus \cup {"absent"}
    BY DEF Doc, DocStatus
  <1>3. (doc[d].status = "absent" => s = doc[d].status) /\ s \in {doc[d].status, "embedded"}
    OBVIOUS
  <1> HIDE DEF s
  <1>4. /\ doc' \in [Upload -> Doc]
        /\ \A e \in Upload : e # d => doc'[e] = doc[e]
        /\ d \in Upload => /\ doc'[d].text = doc[d].text
                           /\ doc'[d].status \in {doc[d].status, "embedded"}
                           /\ doc[d].status = "absent" => doc'[d] = doc[d]
    BY <1>1, <1>2, <1>3, WithStatus
  <1> QED
    BY <1>4

(* An upload inserts its document when there is no other.                  *)
LEMMA InsertTypes ==
  ASSUME TypeOK, NEW u \in Upload, InsertDocument(u)
  PROVE  \/ UNCHANGED <<doc, job, of>> /\ req' = [req EXCEPT ![u] = "refused"]
         \/ /\ \A e \in Upload : ~Present(e)
            /\ doc' = [doc EXCEPT ![u] = [status |-> "pending", text |-> FALSE]]
            /\ doc' \in [Upload -> Doc]
            /\ job' = [job EXCEPT ![u] = "pending"] /\ of' = [of EXCEPT ![u] = u]
            /\ req' = [req EXCEPT ![u] = "created"]
PROOF
  <1>1. CASE \E d \in Upload : Present(d)
    BY <1>1 DEF InsertDocument, ReqAt
  <1>2. CASE \A d \in Upload : ~Present(d)
    <2>1. [status |-> "pending", text |-> FALSE] \in Doc
      BY DEF Doc, DocStatus
    <2>2. doc' = [doc EXCEPT ![u] = [status |-> "pending", text |-> FALSE]]
      BY <1>2 DEF InsertDocument
    <2>3. doc' \in [Upload -> Doc]
      BY <2>1, <2>2 DEF TypeOK
    <2> QED
      BY <1>2, <2>2, <2>3 DEF InsertDocument, ReqAt
  <1> QED
    BY <1>1, <1>2

(* A reprocess request resets the document it found, if it is still there. *)
LEMMA ResetTypes ==
  ASSUME TypeOK, NEW r \in Req, ResetDocument(r)
  PROVE  \/ UNCHANGED <<doc, job>> /\ req' = [req EXCEPT ![r] = "refused"]
         \/ /\ of[r] \in Upload /\ Present(of[r])
            /\ doc' \in [Upload -> Doc]
            /\ \A e \in Upload : e # of[r] => doc'[e] = doc[e]
            /\ doc'[of[r]].status \in {doc[of[r]].status, "pending"}
            /\ job' = [job EXCEPT ![r] = "pending"] /\ req' = [req EXCEPT ![r] = "created"]
PROOF
  <1>1. CASE ~Present(of[r])
    BY <1>1 DEF ResetDocument, ReqAt
  <1>2. CASE Present(of[r])
    <2> DEFINE d == of[r]
               s == IF copy[r].status = "pending" THEN doc[d].status ELSE "pending"
               t == IF copy[r].text THEN FALSE ELSE doc[d].text
    <2>1. d \in Upload
      BY <1>2 DEF Present
    <2>2. /\ doc' = [doc EXCEPT ![d] = [status |-> s, text |-> t]]
          /\ job' = [job EXCEPT ![r] = "pending"] /\ req' = [req EXCEPT ![r] = "created"]
      BY <1>2 DEF ResetDocument, ReqAt
    <2>3. s \in {doc[d].status, "pending"} /\ s \in DocStatus \cup {"absent"} /\ t \in BOOLEAN
      <3>1. doc[d] \in Doc
        BY <2>1 DEF TypeOK
      <3>2. doc[d].status \in DocStatus \cup {"absent"} /\ doc[d].text \in BOOLEAN
        BY <3>1 DEF Doc
      <3>3. t \in BOOLEAN
        BY <3>2
      <3> QED
        BY <3>2, <3>3 DEF DocStatus
    <2> HIDE DEF s, t, d
    <2>4. [status |-> s, text |-> t] \in Doc
      BY <2>3 DEF Doc
    <2>5. doc' \in [Upload -> Doc] /\ doc'[d] = [status |-> s, text |-> t]
          /\ \A e \in Upload : e # d => doc'[e] = doc[e]
      BY <2>1, <2>2, <2>4 DEF TypeOK
    <2> QED
      BY <1>2, <2>1, <2>2, <2>3, <2>5 DEF d
  <1> QED
    BY <1>1, <1>2

(* Requests keep the types.                                                *)
LEMMA RequestTypes ==
  ASSUME TypeOK, NEW r \in Req,
         UploadStep(r) \/ ReprocessStep(r) \/ CrashApi(r)
  PROVE  TypeOK'
PROOF
  <1> USE DEF TypeOK, ReqAt, embedvars, DocStatus, JobStatus, NoDoc
  <1>1. CASE CheckDuplicate(r)
    BY <1>1 DEF CheckDuplicate
  <1>2. CASE RecordDuplicate(r)
    BY <1>2 DEF RecordDuplicate
  <1>3. CASE StoreFile(r) /\ r \in Upload
    BY <1>3 DEF StoreFile
  <1>4. CASE InsertDocument(r) /\ r \in Upload
    BY <1>4, InsertTypes DEF InsertDocument
  <1>5. CASE Enqueue(r)
    BY <1>5 DEF Enqueue
  <1>6. CASE AbortJob(r)
    BY <1>6 DEF AbortJob
  <1>7. CASE LoadForReprocess(r)
    BY <1>7 DEF LoadForReprocess
  <1>8. CASE FetchFile(r)
    BY <1>8 DEF FetchFile
  <1>9. CASE ResetDocument(r)
    BY <1>9, ResetTypes DEF ResetDocument, Doc
  <1>10. CASE CrashApi(r)
    BY <1>10 DEF CrashApi
  <1> QED
    BY <1>1, <1>2, <1>3, <1>4, <1>5, <1>6, <1>7, <1>8, <1>9, <1>10 DEF UploadStep, ReprocessStep

(* So do the tasks and the callback.                                       *)
LEMMA TaskTypes ==
  ASSUME TypeOK, NEW j \in Req,
         TaskStep(j) \/ RaiseTask(j) \/ KillTask(j) \/ EmbedStep(j) \/ FailEmbedding(j)
  PROVE  TypeOK'
PROOF
  <1> USE DEF TypeOK, TaskAt, EmbedAt, LeaveEmbedding, embedvars, reqvars, SetJob, DocStatus, JobStatus, NoDoc
  <1>1. CASE StartTask(j)
    BY <1>1 DEF StartTask
  <1>2. CASE Extract(j)
    <2>1. doc' \in [Upload -> Doc]
      BY <1>2, SetDocTypes DEF Extract, Doc
    <2> QED
      BY <1>2, <2>1 DEF Extract
  <1>3. CASE ChainEmbedding(j)
    BY <1>3 DEF ChainEmbedding
  <1>4. CASE FailTask(j)
    BY <1>4 DEF FailTask, SetDoc, Doc
  <1>5. CASE FailureCallback(j)
    BY <1>5, CallbackTypes DEF FailureCallback
  <1>6. CASE RaiseTask(j) \/ KillTask(j)
    BY <1>6 DEF RaiseTask, KillTask
  <1>7. CASE LoadForEmbedding(j)
    BY <1>7 DEF LoadForEmbedding, Present
  <1>8. CASE StoreEmbeddings(j)
    <2>1. CASE Present(of[j])
      BY <1>8, <2>1 DEF StoreEmbeddings, Present
    <2>2. CASE ~Present(of[j])
      <3>1. NoDoc \in Doc
        BY DEF Doc
      <3>2. /\ copy' = [copy EXCEPT ![j] = NoDoc] /\ embed' = [embed EXCEPT ![j] = "done"]
            /\ UNCHANGED <<doc, job, of, queue, task, embedq, reqvars, chunks>>
        BY <1>8, <2>2 DEF StoreEmbeddings
      <3> QED
        BY <3>1, <3>2
    <2> QED
      BY <2>1, <2>2
  <1>9. CASE MarkEmbedded(j)
    BY <1>9, EmbeddedTypes DEF MarkEmbedded, Doc
  <1>10. CASE FailEmbedding(j)
    BY <1>10 DEF FailEmbedding, Doc
  <1> QED
    BY <1>1, <1>2, <1>3, <1>4, <1>5, <1>6, <1>7, <1>8, <1>9, <1>10 DEF TaskStep, EmbedStep

(* And a deletion.                                                         *)
LEMMA DeleteTypes ==
  ASSUME TypeOK, NEW d \in Upload, DeleteDocument(d)
  PROVE  TypeOK'
PROOF
  BY DEF TypeOK, DeleteDocument, reqvars, NoDoc, Doc

(* Every reachable state has the declared types.                           *)
THEOREM TypeCorrect == Spec => []TypeOK
PROOF
  <1>1. Init => TypeOK
    BY DEF Init, TypeOK, NoDoc, Doc, DocStatus, JobStatus
  <1>2. TypeOK /\ [Next]_vars => TypeOK'
    <2>1. CASE UNCHANGED vars
      BY <2>1 DEF TypeOK, vars, reqvars, embedvars
    <2> QED
      BY <2>1, RequestTypes, TaskTypes, DeleteTypes DEF Next
  <1> QED
    BY <1>1, <1>2, PTL DEF Spec
-----------------------------------------------------------------------------
(* Requests that have no job yet: those of an upload that has not inserted *)
(* its document, and those of a reprocess that has not reset it.           *)
Early == {"idle", "new", "found", "stored"}
Started(j) == j \in queue \/ task[j] # "idle" \/ j \in embedq \/ embed[j] # "idle"

(* A stored file stays, and only an upload that stored its own inserts a   *)
(* document: once, whatever becomes of it.                                 *)
Filed ==
  /\ \A u \in Upload : req[u] = "stored" => u \in bytes
  /\ \A d \in Upload : Present(d) => d \in bytes /\ req[d] \notin Early
  /\ \A d \in Upload : ~Present(d) => doc[d] = NoDoc

(* A request gets its job, and then its tasks, for a document it has       *)
(* inserted or found; only the deletion of that document removes the job.  *)
Assigned ==
  /\ \A r \in Req : req[r] \in Early \cup {"loaded", "fetched"} => job[r] = "absent"
  /\ \A r \in Req : Started(r) => req[r] \in {"done", "abort", "dead"}
  /\ \A r \in Req : req[r] = "created" \/ Started(r)
                      => /\ of[r] \in Upload /\ req[of[r]] \notin Early
                         /\ job[r] # "absent" \/ ~Present(of[r])

(* A document that is not ready, or has lost its text, is owed a job.      *)
Owes(j, d) == of[j] = d /\ job[j] \in {"pending", "failed"}
Owed ==
  \A d \in Upload :
    Present(d) => (doc[d].status \in Ready /\ doc[d].text) \/ \E j \in Req : Owes(j, d)

(* Between storing the embeddings and setting the status they are there.   *)
Searchable ==
  /\ \A j \in Req : embed[j] = "stored" => of[j] \in chunks \/ ~Present(of[j])
  /\ EmbeddedMeansSearchable

Kept == Filed /\ Assigned /\ Owed /\ Searchable

(* What the steps of the requests change, as far as Kept is concerned.     *)
LEMMA RequestFrame ==
  ASSUME TypeOK, NEW r \in Req, UploadStep(r) \/ ReprocessStep(r) \/ CrashApi(r)
  PROVE  /\ UNCHANGED <<task, chunks, embedq, embed>>
         /\ bytes \subseteq bytes' /\ queue \subseteq queue'
         /\ \A q \in Req : q # r => /\ req'[q] = req[q] /\ job'[q] = job[q] /\ of'[q] = of[q]
                                    /\ q \in queue' => q \in queue
         /\ r \in queue' => r \in queue \/ (req[r] = "created" /\ req'[r] \in {"done", "abort"})
         /\ req[r] \notin Early => req'[r] \notin Early
         /\ req'[r] \in Early \cup {"loaded", "fetched"} => job'[r] = job[r] /\ req[r] \in Early \cup {"loaded"}
         /\ of'[r] # of[r] => req[r] \in {"idle", "stored"}
         /\ req[r] \in {"done", "abort", "dead"} => req'[r] \in {"done", "dead"}
         /\ r \in Upload /\ req'[r] = "stored" => r \in bytes'
PROOF
  <1> USE DEF TypeOK, ReqAt, embedvars, Early
  <1>1. CASE CheckDuplicate(r)
    BY <1>1 DEF CheckDuplicate, Begin
  <1>2. CASE RecordDuplicate(r)
    BY <1>2 DEF RecordDuplicate
  <1>3. CASE StoreFile(r) /\ r \in Upload
    BY <1>3 DEF StoreFile
  <1>4. CASE InsertDocument(r) /\ r \in Upload
    BY <1>4, InsertTypes DEF InsertDocument
  <1>5. CASE Enqueue(r)
    BY <1>5 DEF Enqueue
  <1>6. CASE AbortJob(r)
    BY <1>6 DEF AbortJob
  <1>7. CASE LoadForReprocess(r)
    BY <1>7 DEF LoadForReprocess, Begin
  <1>8. CASE FetchFile(r)
    BY <1>8 DEF FetchFile
  <1>9. CASE ResetDocument(r)
    <2>1. req[r] = "fetched" /\ UNCHANGED <<of, queue, task, bytes, embedvars>>
      BY <1>9 DEF ResetDocument
    <2>2. \/ UNCHANGED job /\ req' = [req EXCEPT ![r] = "refused"]
          \/ job' = [job EXCEPT ![r] = "pending"] /\ req' = [req EXCEPT ![r] = "created"]
      BY <1>9, ResetTypes
    <2> QED
      BY <2>1, <2>2
  <1>10. CASE CrashApi(r)
    BY <1>10 DEF CrashApi
  <1> QED
    BY <1>1, <1>2, <1>3, <1>4, <1>5, <1>6, <1>7, <1>8, <1>9, <1>10 DEF UploadStep, ReprocessStep

(* A document is inserted, or reset, or the rows stay; then a job at most  *)
(* fails, or is a duplicate's.                                             *)
LEMMA RequestRows ==
  ASSUME TypeOK, NEW r \in Req, UploadStep(r) \/ ReprocessStep(r) \/ CrashApi(r)
  PROVE  \/ r \in Upload /\ InsertDocument(r) /\ doc' # doc
         \/ ResetDocument(r) /\ req'[r] = "created"
         \/ /\ UNCHANGED doc /\ req'[r] # "created"
            /\ job[r] \in {"pending", "failed"} => job'[r] \in {"pending", "failed"} \/ req[r] = "found"
            /\ job[r] # "absent" => job'[r] # "absent"
PROOF
  <1> USE DEF TypeOK, ReqAt
  <1>1. CASE CheckDuplicate(r)
    BY <1>1 DEF CheckDuplicate
  <1>2. CASE RecordDuplicate(r)
    BY <1>2 DEF RecordDuplicate
  <1>3. CASE StoreFile(r)
    BY <1>3 DEF StoreFile
  <1>4. CASE InsertDocument(r) /\ r \in Upload
    <2>1. CASE UNCHANGED <<doc, job, of>> /\ req' = [req EXCEPT ![r] = "refused"]
      BY <2>1
    <2> QED
      BY <1>4, <2>1, InsertTypes DEF Present
  <1>5. CASE Enqueue(r)
    BY <1>5 DEF Enqueue
  <1>6. CASE AbortJob(r)
    BY <1>6 DEF AbortJob
  <1>7. CASE LoadForReprocess(r)
    BY <1>7 DEF LoadForReprocess
  <1>8. CASE FetchFile(r)
    BY <1>8 DEF FetchFile
  <1>9. CASE ResetDocument(r)
    <2>1. CASE UNCHANGED <<doc, job>> /\ req' = [req EXCEPT ![r] = "refused"]
      BY <2>1
    <2>2. CASE job' = [job EXCEPT ![r] = "pending"] /\ req' = [req EXCEPT ![r] = "created"]
      BY <1>9, <2>2
    <2> QED
      BY <1>9, <2>1, <2>2, ResetTypes
  <1>10. CASE CrashApi(r)
    BY <1>10 DEF CrashApi
  <1> QED
    BY <1>1, <1>2, <1>3, <1>4, <1>5, <1>6, <1>7, <1>8, <1>9, <1>10 DEF UploadStep, ReprocessStep

(* Requests keep the invariant.                                            *)
LEMMA RequestKeeps ==
  ASSUME TypeOK, Kept, NEW r \in Req, UploadStep(r) \/ ReprocessStep(r) \/ CrashApi(r)
  PROVE  Kept'
PROOF
  <1>0. /\ Filed /\ Assigned /\ Owed /\ Searchable
        /\ \A q \in Req : Started(q)' => Started(q) \/ (q = r /\ req[q] = "created" /\ req'[q] \in {"done", "abort"})
    BY RequestFrame DEF Kept, Started
  <1>f. /\ UNCHANGED <<task, chunks, embedq, embed>> /\ bytes \subseteq bytes'
        /\ \A q \in Req : q # r => req'[q] = req[q] /\ job'[q] = job[q] /\ of'[q] = of[q]
        /\ req[r] \notin Early => req'[r] \notin Early
        /\ req'[r] \in Early \cup {"loaded", "fetched"} => job'[r] = job[r] /\ req[r] \in Early \cup {"loaded"}
        /\ of'[r] # of[r] => req[r] \in {"idle", "stored"}
        /\ req[r] \in {"done", "abort", "dead"} => req'[r] \in {"done", "dead"}
        /\ r \in Upload /\ req'[r] = "stored" => r \in bytes'
    BY RequestFrame
  <1>1. /\ \A u \in Upload : req'[u] = "stored" => u \in bytes'
        /\ \A d \in Req : req[d] \notin Early => req'[d] \notin Early
        /\ \A q \in Req : req'[q] \in Early \cup {"loaded", "fetched"} => job'[q] = "absent"
        /\ \A q \in Req : Started(q)' => req'[q] \in {"done", "abort", "dead"}
    BY <1>0, <1>f DEF Filed, Assigned, Req, Early
  <1>2. \A q \in Req : of'[q] = of[q] \/ (q = r /\ req[r] \in {"idle", "stored"} /\ job[r] = "absent")
    BY <1>0, <1>f DEF Assigned, Early
  <1>3. CASE r \in Upload /\ InsertDocument(r) /\ doc' # doc
    <2>1. /\ \A e \in Upload : ~Present(e)
          /\ doc' = [doc EXCEPT ![r] = [status |-> "pending", text |-> FALSE]]
          /\ job' = [job EXCEPT ![r] = "pending"] /\ of' = [of EXCEPT ![r] = r]
          /\ req' = [req EXCEPT ![r] = "created"]
      BY <1>3, InsertTypes
    <2>2. req[r] = "stored" /\ r \in bytes
      BY <1>0, <1>3 DEF InsertDocument, Filed
    <2>3. /\ \A e \in Upload : e # r => doc'[e] = doc[e] /\ ~Present(e)'
          /\ doc'[r].status = "pending" /\ job'[r] = "pending" /\ of'[r] = r /\ req'[r] = "created"
      BY <1>3, <2>1 DEF TypeOK, Present
    <2>4. Filed'
      BY <1>0, <1>1, <1>f, <2>2, <2>3 DEF Filed, Early, Present
    <2>5. Assigned'
      <3>1. ASSUME NEW q \in Req, req'[q] = "created" \/ Started(q)'
            PROVE  /\ of'[q] \in Upload /\ req'[of'[q]] \notin Early
                   /\ job'[q] # "absent" \/ ~Present(of[q])'
        <4>1. CASE q = r
          BY <1>3, <2>3, <4>1 DEF Early
        <4>2. CASE q # r
          <5>1. req[q] = "created" \/ Started(q)
            BY <1>0, <1>f, <3>1, <4>2
          <5>2. of'[q] = of[q] /\ of[q] \in Upload /\ req[of[q]] \notin Early
            BY <1>0, <1>f, <4>2, <5>1 DEF Assigned
          <5>3. of[q] # r
            BY <2>2, <5>2 DEF Early
          <5> QED
            BY <1>1, <2>3, <5>2, <5>3 DEF Req
        <4> QED
          BY <4>1, <4>2
      <3> QED
        BY <1>1, <3>1 DEF Assigned
    <2>6. Owed'
      BY <1>3, <2>3 DEF Owed, Owes
    <2>7. Searchable'
      <3>1. ASSUME NEW q \in Req, embed'[q] = "stored" PROVE of'[q] \in chunks' \/ ~Present(of[q])'
        <4>1. Started(q) /\ embed[q] = "stored"
          BY <1>f, <3>1 DEF Started
        <4>2. of[q] \in Upload /\ req[of[q]] \notin Early /\ req[q] \in {"done", "abort", "dead"}
          BY <1>0, <4>1 DEF Assigned
        <4>3. of[q] # r /\ q # r
          BY <2>2, <4>2 DEF Early
        <4> QED
          BY <1>f, <2>3, <4>2, <4>3
      <3>2. \A d \in Upload : doc'[d].status = "embedded" => doc[d].status = "embedded"
        BY <2>3 DEF Present
      <3> QED
        BY <1>0, <1>f, <3>1, <3>2 DEF Searchable, EmbeddedMeansSearchable
    <2> QED
      BY <2>4, <2>5, <2>6, <2>7 DEF Kept
  <1>4. CASE ResetDocument(r) /\ req'[r] = "created"
    <2>1. /\ of[r] \in Upload /\ Present(of[r])
          /\ \A e \in Upload : e # of[r] => doc'[e] = doc[e]
          /\ doc'[of[r]].status \in {doc[of[r]].status, "pending"}
          /\ job' = [job EXCEPT ![r] = "pending"] /\ of' = of
      <3>1. req' # [req EXCEPT ![r] = "refused"]
        BY <1>4 DEF TypeOK
      <3> QED
        BY <1>4, <3>1, ResetTypes DEF ResetDocument
    <2>2. /\ \A d \in Upload : Present(d)' <=> Present(d)
          /\ \A d \in Upload : doc'[d].status = "embedded" => doc[d].status = "embedded"
          /\ job'[r] = "pending"
      BY <2>1 DEF Present, TypeOK
    <2>3. Filed'
      BY <1>0, <1>1, <1>f, <2>1, <2>2 DEF Filed, Req
    <2>4. Assigned'
      <3>1. ASSUME NEW q \in Req, req'[q] = "created" \/ Started(q)'
            PROVE  /\ of'[q] \in Upload /\ req'[of'[q]] \notin Early
                   /\ job'[q] # "absent" \/ ~Present(of[q])'
        <4>1. CASE q = r
          BY <1>0, <1>1, <2>1, <2>2, <4>1 DEF Filed, Req
        <4>2. CASE q # r
          BY <1>0, <1>1, <1>f, <2>1, <2>2, <3>1, <4>2 DEF Assigned, Req
        <4> QED
          BY <4>1, <4>2
      <3> QED
        BY <1>1, <3>1 DEF Assigned
    <2>5. Owed'
      <3>1. ASSUME NEW d \in Upload, Present(d)'
            PROVE  (doc'[d].status \in Ready /\ doc'[d].text) \/ \E q \in Req : Owes(q, d)'
        <4>1. CASE d = of[r]
          BY <2>1, <2>2, <4>1 DEF Owes
        <4>2. CASE d # of[r]
          BY <1>0, <1>f, <2>1, <2>2, <3>1, <4>2 DEF Owed, Owes
        <4> QED
          BY <4>1, <4>2
      <3> QED
        BY <3>1 DEF Owed
    <2>6. Searchable'
      <3>1. ASSUME NEW q \in Req, embed[q] = "stored"
            PROVE  of[q] \in chunks \/ ~Present(of[q])'
        BY <1>0, <2>1, <2>2, <3>1 DEF Searchable, Assigned, Started, Present
      <3> QED
        BY <1>0, <1>f, <2>1, <2>2, <3>1 DEF Searchable, EmbeddedMeansSearchable
    <2> QED
      BY <2>3, <2>4, <2>5, <2>6 DEF Kept
  <1>5. CASE /\ UNCHANGED doc /\ req'[r] # "created"
             /\ job[r] \in {"pending", "failed"} => job'[r] \in {"pending", "failed"} \/ req[r] = "found"
             /\ job[r] # "absent" => job'[r] # "absent"
    <2>1. \A d : Present(d)' <=> Present(d)
      BY <1>5 DEF Present
    <2>2. Filed'
      BY <1>0, <1>1, <1>5, <1>f, <2>1 DEF Filed, Req
    <2>3. Assigned'
      <3>1. ASSUME NEW q \in Req, req'[q] = "created" \/ Started(q)'
            PROVE  /\ of'[q] \in Upload /\ req'[of'[q]] \notin Early
                   /\ job'[q] # "absent" \/ ~Present(of[q])'
        <4>1. req[q] = "created" \/ Started(q)
          BY <1>0, <1>5, <1>f, <3>1
        <4>2. of'[q] = of[q]
          BY <1>0, <1>2, <4>1 DEF Assigned
        <4> QED
          BY <1>0, <1>1, <1>5, <1>f, <2>1, <4>1, <4>2 DEF Assigned, Req
      <3> QED
        BY <1>1, <3>1 DEF Assigned
    <2>4. \A q \in Req, d \in Upload : Owes(q, d) => Owes(q, d)'
      BY <1>0, <1>2, <1>5, <1>f DEF Owes, Assigned, Early
    <2>5. Owed'
      BY <1>0, <1>5, <2>1, <2>4 DEF Owed
    <2>6. Searchable'
      <3>1. ASSUME NEW q \in Req, embed[q] = "stored" PROVE of'[q] = of[q]
        <4>1. req[q] \in {"done", "abort", "dead"}
          BY <1>0, <3>1 DEF Assigned, Started
        <4> QED
          BY <1>2, <4>1
      <3> QED
        BY <1>0, <1>5, <1>f, <2>1, <3>1 DEF Searchable, EmbeddedMeansSearchable
    <2> QED
      BY <2>2, <2>3, <2>5, <2>6 DEF Kept
  <1> QED
    BY <1>3, <1>4, <1>5, RequestRows

-----------------------------------------------------------------------------
Run(j) == TaskStep(j) \/ RaiseTask(j) \/ KillTask(j) \/ EmbedStep(j) \/ FailEmbedding(j)

(* What a task changes besides the document and its job.                   *)
LEMMA TaskFrame ==
  ASSUME TypeOK, NEW j \in Req, Run(j)
  PROVE  /\ UNCHANGED <<req, of, bytes>> /\ chunks \subseteq chunks'
         /\ Started(j) /\ \A q \in Req : Started(q)' => Started(q)
         /\ \A q \in Req : q # j => job'[q] = job[q]
         /\ job'[j] = "absent" <=> job[j] = "absent"
         /\ \A q \in Req : embed'[q] = "stored" => embed[q] = "stored" \/ (q = j /\ of[j] \in chunks')
PROOF
  <1> USE DEF TypeOK, TaskAt, EmbedAt, LeaveEmbedding, embedvars, reqvars, SetJob, Started
  <1>1. CASE StartTask(j)
    BY <1>1 DEF StartTask
  <1>2. CASE Extract(j)
    BY <1>2 DEF Extract
  <1>3. CASE ChainEmbedding(j)
    BY <1>3 DEF ChainEmbedding
  <1>4. CASE FailTask(j)
    BY <1>4 DEF FailTask
  <1>5. CASE FailureCallback(j)
    BY <1>5 DEF FailureCallback
  <1>6. CASE RaiseTask(j) \/ KillTask(j)
    BY <1>6 DEF RaiseTask, KillTask
  <1>7. CASE LoadForEmbedding(j)
    BY <1>7 DEF LoadForEmbedding
  <1>8. CASE StoreEmbeddings(j)
    BY <1>8 DEF StoreEmbeddings
  <1>9. CASE MarkEmbedded(j)
    BY <1>9 DEF MarkEmbedded
  <1>10. CASE FailEmbedding(j)
    BY <1>10 DEF FailEmbedding
  <1> QED
    BY <1>1, <1>2, <1>3, <1>4, <1>5, <1>6, <1>7, <1>8, <1>9, <1>10 DEF Run, TaskStep, EmbedStep

(* What it does to the document: one that is gone stays gone; a present one*)
(* is finished, or its job has failed, or both are what they were as far   *)
(* as anything is owed; and only stored embeddings make it "embedded".     *)
LEMMA TaskRows ==
  ASSUME TypeOK, NEW j \in Req, Run(j), NEW d \in Upload
  PROVE  /\ d # of[j] \/ doc[d] = NoDoc => doc'[d] = doc[d]
         /\ doc[d].status # "absent" => doc'[d].status # "absent"
         /\ doc'[d].status = "embedded"
              => doc[d].status = "embedded" \/ (d = of[j] /\ embed[j] = "stored")
         /\ d = of[j] /\ doc[d].status # "absent" /\ job[j] # "absent"
              => \/ doc'[d].status \in Ready /\ doc'[d].text
                 \/ job'[j] = "failed"
                 \/ /\ doc[d].status \in Ready /\ doc[d].text => doc'[d].status \in Ready /\ doc'[d].text
                    /\ job[j] \in {"pending", "failed"} => job'[j] \in {"pending", "failed"}
PROOF
  <1> USE DEF Ready
  <1>0. doc \in [Upload -> Doc] /\ NoDoc \in Doc /\ NoDoc.status = "absent" /\ job \in [Req -> JobStatus \cup {"absent"}]
    BY DEF TypeOK, NoDoc, Doc
  <1>1. CASE UNCHANGED <<doc, job>>
    BY <1>1
  <1>2. CASE Extract(j)
    <2> DEFINE v == [status |-> "completed", text |-> TRUE]
    <2>1. v \in Doc /\ SetDoc(of[j], v)
      BY <1>2 DEF Extract, Doc, DocStatus
    <2>2. /\ d # of[j] \/ doc[d] = NoDoc => doc'[d] = doc[d]
          /\ d = of[j] /\ doc[d] # NoDoc => doc'[d] = v
      BY <1>0, <2>1, SetDocTypes
    <2> QED
      BY <1>0, <2>2
  <1>3. CASE FailTask(j)
    <2>1. CASE UNCHANGED <<doc, job>>
      BY <1>1, <2>1
    <2>2. CASE /\ SetDoc(of[j], [status |-> "failed", text |-> doc[of[j]].text])
               /\ SetJob(j, "failed")
      <3>1. /\ d # of[j] \/ doc[d] = NoDoc => doc'[d] = doc[d]
            /\ d = of[j] /\ doc[d] # NoDoc => doc'[d].status = "failed"
        BY <1>0, <2>2 DEF SetDoc
      <3>2. job[j] # "absent" => job'[j] = "failed"
        BY <1>0, <2>2 DEF SetJob
      <3> QED
        BY <1>0, <3>1, <3>2
    <2> QED
      BY <1>3, <2>1, <2>2 DEF FailTask
  <1>4. CASE FailureCallback(j)
    <2>1. CASE UNCHANGED <<doc, job>>
      BY <1>1, <2>1
    <2>2. CASE /\ job' = [job EXCEPT ![j] = IF @ = "pending" THEN "failed" ELSE @]
               /\ doc' = [doc EXCEPT ![of[j]].status = IF @ = "pending" THEN "failed" ELSE @]
      <3>1. /\ d # of[j] => doc'[d] = doc[d]
            /\ d = of[j] => /\ doc'[d].text = doc[d].text
                            /\ doc[d].status = "pending" => doc'[d].status = "failed"
                            /\ doc[d].status # "pending" => doc'[d] = doc[d]
        BY <1>0, <2>2, CallbackTypes
      <3>2. job[j] \in {"pending", "failed"} => job'[j] \in {"pending", "failed"}
        BY <1>0, <2>2
      <3> QED
        BY <1>0, <3>1, <3>2
    <2> QED
      BY <1>4, <2>1, <2>2 DEF FailureCallback
  <1>5. CASE MarkEmbedded(j)
    <2>1. /\ d # of[j] => doc'[d] = doc[d]
          /\ d = of[j] => /\ doc'[d].text = doc[d].text
                          /\ doc'[d].status \in {doc[d].status, "embedded"}
                          /\ doc[d].status = "absent" => doc'[d] = doc[d]
      BY <1>0, <1>5, EmbeddedTypes
    <2>2. embed[j] = "stored" /\ UNCHANGED job
      BY <1>5 DEF MarkEmbedded
    <2> QED
      BY <1>0, <2>1, <2>2
  <1>6. CASE \/ StartTask(j) \/ ChainEmbedding(j) \/ RaiseTask(j) \/ KillTask(j)
             \/ LoadForEmbedding(j) \/ StoreEmbeddings(j) \/ FailEmbedding(j)
    <2>1. UNCHANGED <<doc, job>>
      BY <1>6 DEF StartTask, ChainEmbedding, RaiseTask, KillTask, LoadForEmbedding, StoreEmbeddings,
                  FailEmbedding
    <2> QED
      BY <1>1, <2>1
  <1> QED
    BY <1>2, <1>3, <1>4, <1>5, <1>6 DEF Run, TaskStep, EmbedStep

(* Tasks keep the invariant.                                               *)
LEMMA TaskKeeps ==
  ASSUME TypeOK, Kept, NEW j \in Req, Run(j)
  PROVE  Kept'
PROOF
  <1>0. Filed /\ Assigned /\ Owed /\ Searchable
    BY DEF Kept
  <1>f. /\ UNCHANGED <<req, of, bytes>> /\ chunks \subseteq chunks'
        /\ Started(j) /\ \A q \in Req : Started(q)' => Started(q)
        /\ \A q \in Req : q # j => job'[q] = job[q]
        /\ job'[j] = "absent" <=> job[j] = "absent"
        /\ \A q \in Req : embed'[q] = "stored" => embed[q] = "stored" \/ (q = j /\ of[j] \in chunks')
    BY TaskFrame
  <1>r. \A d \in Upload :
         /\ d # of[j] \/ doc[d] = NoDoc => doc'[d] = doc[d]
         /\ doc[d].status # "absent" => doc'[d].status # "absent"
         /\ doc'[d].status = "embedded"
              => doc[d].status = "embedded" \/ (d = of[j] /\ embed[j] = "stored")
         /\ d = of[j] /\ doc[d].status # "absent" /\ job[j] # "absent"
              => \/ doc'[d].status \in Ready /\ doc'[d].text
                 \/ job'[j] = "failed"
                 \/ /\ doc[d].status \in Ready /\ doc[d].text => doc'[d].status \in Ready /\ doc'[d].text
                    /\ job[j] \in {"pending", "failed"} => job'[j] \in {"pending", "failed"}
    BY TaskRows
  <1>1. \A d : Present(d)' <=> Present(d)
    BY <1>0, <1>r DEF Filed, Present
  <1>2. Filed'
    BY <1>0, <1>1, <1>f, <1>r DEF Filed, Present
  <1>3. Assigned'
    BY <1>0, <1>1, <1>f DEF Assigned
  <1>4. ASSUME NEW d \in Upload, Present(d)
        PROVE  (doc'[d].status \in Ready /\ doc'[d].text) \/ \E q \in Req : Owes(q, d)'
    <2>1. CASE d # of[j]
      <3>1. \A q \in Req : Owes(q, d) => Owes(q, d)'
        BY <1>f, <2>1 DEF Owes
      <3> QED
        BY <1>0, <1>4, <1>r, <2>1, <3>1 DEF Owed
    <2>2. CASE d = of[j]
      <3>1. doc[d].status # "absent" /\ job[j] # "absent"
        BY <1>0, <1>4, <1>f, <2>2 DEF Assigned, Present
      <3>2. CASE doc'[d].status \in Ready /\ doc'[d].text
        BY <3>2
      <3>3. CASE job'[j] = "failed"
        BY <1>f, <2>2, <3>3 DEF Owes
      <3>4. CASE /\ doc[d].status \in Ready /\ doc[d].text => doc'[d].status \in Ready /\ doc'[d].text
                 /\ job[j] \in {"pending", "failed"} => job'[j] \in {"pending", "failed"}
        <4>1. \A q \in Req : Owes(q, d) => Owes(q, d)'
          BY <1>f, <3>4 DEF Owes
        <4> QED
          BY <1>0, <1>4, <3>4, <4>1 DEF Owed
      <3> QED
        BY <1>r, <2>2, <3>1, <3>2, <3>3, <3>4
    <2> QED
      BY <2>1, <2>2
  <1>5. Owed'
    BY <1>1, <1>4 DEF Owed
  <1>6. ASSUME NEW q \in Req, embed'[q] = "stored" PROVE of[q] \in chunks' \/ ~Present(of[q])
    BY <1>0, <1>6, <1>f DEF Searchable
  <1>7. ASSUME NEW d \in Upload, doc'[d].status = "embedded" PROVE d \in chunks'
    BY <1>0, <1>1, <1>7, <1>f, <1>r DEF Searchable, EmbeddedMeansSearchable, Present
  <1>8. Searchable'
    <2>1. \A q \in Req : Present(of[q])' <=> Present(of[q])
      BY <1>1, <1>f DEF Present
    <2> QED
      BY <1>6, <1>7, <1>f, <2>1 DEF Searchable, EmbeddedMeansSearchable
  <1> QED
    BY <1>2, <1>3, <1>5, <1>8 DEF Kept

(* A deletion takes the document, its embeddings and its jobs.             *)
LEMMA DeleteKeeps ==
  ASSUME TypeOK, Kept, NEW d \in Upload, DeleteDocument(d)
  PROVE  Kept'
PROOF
  <1>0. Filed /\ Assigned /\ Owed /\ Searchable
    BY DEF Kept
  <1>1. /\ doc' = [doc EXCEPT ![d] = NoDoc] /\ chunks' = chunks \ {d}
        /\ job' = [r \in Req |-> IF of[r] = d THEN "absent" ELSE job[r]]
        /\ UNCHANGED <<of, req, bytes, queue, task, embedq, embed>>
    BY DEF DeleteDocument, reqvars
  <1>2. doc'[d] = NoDoc /\ NoDoc.status = "absent" /\ \A e \in Upload : e # d => doc'[e] = doc[e]
    BY <1>1 DEF TypeOK, NoDoc
  <1>3. \A e \in Upload : Present(e)' <=> Present(e) /\ e # d
    BY <1>2 DEF Present
  <1>4. Filed'
    BY <1>0, <1>1, <1>2, <1>3 DEF Filed
  <1>5. \A q \in Req : Started(q)' <=> Started(q)
    BY <1>1 DEF Started
  <1>6. Assigned'
    <2>1. \A q \in Req : of[q] \in Upload => Present(of[q])' = (Present(of[q]) /\ of[q] # d)
      BY <1>1, <1>3 DEF Present
    <2>2. \A q \in Req : req'[q] \in Early \cup {"loaded", "fetched"} => job'[q] = "absent"
      BY <1>0, <1>1 DEF Assigned
    <2>3. \A q \in Req : Started(q)' => req'[q] \in {"done", "abort", "dead"}
      BY <1>0, <1>1, <1>5 DEF Assigned
    <2>4. ASSUME NEW q \in Req, req'[q] = "created" \/ Started(q)'
          PROVE  /\ of'[q] \in Upload /\ req'[of'[q]] \notin Early
                 /\ job'[q] # "absent" \/ ~Present(of[q])'
      <3>1. /\ of[q] \in Upload /\ req[of[q]] \notin Early
            /\ job[q] # "absent" \/ ~Present(of[q])
        BY <1>0, <1>1, <1>5, <2>4 DEF Assigned
      <3>2. CASE of[q] = d
        BY <1>1, <1>2, <3>1, <3>2 DEF Present
      <3>3. CASE of[q] # d
        BY <1>1, <1>2, <3>1, <3>3 DEF Present
      <3> QED
        BY <3>2, <3>3
    <2> QED
      BY <2>2, <2>3, <2>4 DEF Assigned
  <1>7. Owed'
    <2>1. ASSUME NEW e \in Upload, e # d, NEW q \in Req, Owes(q, e) PROVE Owes(q, e)'
      BY <1>1, <2>1 DEF Owes
    <2>2. ASSUME NEW e \in Upload, Present(e)'
          PROVE  (doc'[e].status \in Ready /\ doc'[e].text) \/ \E q \in Req : Owes(q, e)'
      BY <1>0, <1>2, <1>3, <2>1, <2>2 DEF Owed
    <2> QED
      BY <2>2 DEF Owed
  <1>8. Searchable'
    <2>1. ASSUME NEW q \in Req, embed'[q] = "stored" PROVE of'[q] \in chunks' \/ ~Present(of[q])'
      BY <1>0, <1>1, <1>2, <2>1 DEF Searchable, Present
    <2>2. ASSUME NEW e \in Upload, doc'[e].status = "embedded" PROVE e \in chunks'
      BY <1>0, <1>1, <1>2, <2>2 DEF Searchable, EmbeddedMeansSearchable
    <2> QED
      BY <2>1, <2>2 DEF Searchable, EmbeddedMeansSearchable
  <1> QED
    BY <1>4, <1>6, <1>7, <1>8 DEF Kept

(* The invariant, under the types.                                         *)
THEOREM KeptAlways == Spec => []Kept
PROOF
  <1>1. ASSUME Init PROVE Kept
    <2>1. /\ \A d \in Upload : doc[d] = NoDoc /\ doc[d].status = "absent"
          /\ \A r \in Req : req[r] = "idle" /\ job[r] = "absent" /\ embed[r] = "idle" /\ ~Started(r)
      BY <1>1 DEF Init, NoDoc, Started
    <2>2. \A d : ~Present(d)
      BY <2>1 DEF Present
    <2>3. Filed /\ Assigned
      BY <2>1, <2>2 DEF Filed, Assigned, Req
    <2>4. Owed /\ Searchable
      BY <2>1, <2>2 DEF Owed, Searchable, EmbeddedMeansSearchable
    <2> QED
      BY <2>3, <2>4 DEF Kept
  <1>2. TypeOK /\ Kept /\ [Next]_vars => Kept'
    <2>1. CASE UNCHANGED vars
      BY <2>1 DEF Kept, Filed, Assigned, Owed, Owes, Searchable, EmbeddedMeansSearchable, Present,
                  Started, vars, reqvars, embedvars
    <2> QED
      BY <2>1, RequestKeeps, TaskKeeps, DeleteKeeps DEF Next, Run
  <1> QED
    BY <1>1, <1>2, TypeCorrect, PTL DEF Spec

(* A document row never exists without its file (service.py:154-156),      *)
(* whatever fails or crashes between the object store and the database.    *)
THEOREM DocumentsHaveTheirFileAlways == Spec => []DocumentsHaveTheirFile
PROOF
  <1>1. Kept => DocumentsHaveTheirFile
    BY DEF Kept, Filed, DocumentsHaveTheirFile
  <1> QED
    BY <1>1, KeptAlways, PTL

(* When every job of a document is completed the document is ready and has *)
(* its text, though jobs of one document run concurrently.                 *)
THEOREM AllCompletedMeansReadyAlways == Spec => []AllCompletedMeansReady
PROOF
  <1>1. Kept => AllCompletedMeansReady
    <2>1. ASSUME Kept, NEW d \in Upload, Present(d), \A j \in JobsOf(d) : job[j] = "completed"
          PROVE  doc[d].status \in Ready /\ doc[d].text
      <3>1. ~\E j \in Req : Owes(j, d)
        BY <2>1 DEF Owes, JobsOf
      <3> QED
        BY <2>1, <3>1 DEF Kept, Owed
    <2> QED
      BY <2>1 DEF AllCompletedMeansReady
  <1> QED
    BY <1>1, KeptAlways, PTL

(* A document is "embedded" only with embeddings in the table.             *)
THEOREM EmbeddedMeansSearchableAlways == Spec => []EmbeddedMeansSearchable
PROOF
  <1>1. Kept => EmbeddedMeansSearchable
    BY DEF Kept, Searchable
  <1> QED
    BY <1>1, KeptAlways, PTL

-----------------------------------------------------------------------------
(* Until its task has an outcome a job is pending, unless the reply to its *)
(* enqueue was lost: only one of request and task may still write it.      *)
Open(j) == j \in queue \/ task[j] \in {"loaded", "failing"}
SingleFor(j) ==
  /\ req[j] \in {"created", "abort"} => ~Started(j)
  /\ req[j] \in {"created", "abort"} \/ Open(j) => job[j] \in {"pending", "absent"}
  /\ j \in queue => task[j] = "idle"
Single == \A j \in Req \ lost : SingleFor(j)
Sticks(j) == job[j] \in {"completed", "failed", "duplicate"} => job'[j] \in {job[j], "absent"}

(* A request's step, for its own job and for the others.                   *)
LEMMA RequestSticks ==
  ASSUME TypeOK, Kept, Single, NEW r \in Req, UploadStep(r) \/ ReprocessStep(r) \/ CrashApi(r)
  PROVE  Single' /\ \A j \in Req \ lost : Sticks(j)
PROOF
  <1> USE DEF ReqAt, embedvars, Early
  <1>0. Assigned /\ TypeOK
    BY DEF Kept
  <1>1. lost \subseteq lost'
    BY DEF UploadStep, ReprocessStep, CheckDuplicate, RecordDuplicate, StoreFile, InsertDocument, Enqueue,
           AbortJob, LoadForReprocess, FetchFile, ResetDocument, CrashApi
  <1>2. ASSUME NEW j \in Req \ lost, j # r PROVE SingleFor(j)' /\ Sticks(j)
    <2>1. /\ UNCHANGED <<task, embedq, embed>> /\ req'[j] = req[j] /\ job'[j] = job[j]
          /\ j \in queue' <=> j \in queue
      BY <1>2, RequestFrame
    <2> QED
      BY <1>2, <2>1 DEF Single, SingleFor, Open, Started, Sticks
  <1>3. ASSUME r \notin lost PROVE (r \notin lost' => SingleFor(r)') /\ Sticks(r)
    <2>1. /\ req[r] \in {"created", "abort"} => ~Started(r)
          /\ req[r] \in {"created", "abort"} \/ Open(r) => job[r] \in {"pending", "absent"}
          /\ r \in queue => task[r] = "idle"
          /\ Started(r) => req[r] \in {"done", "abort", "dead"}
          /\ req[r] \in Early \cup {"loaded", "fetched"} => job[r] = "absent"
      BY <1>0, <1>3 DEF Single, SingleFor, Assigned
    <2>2. UNCHANGED <<task, embedq, embed>>
      BY RequestFrame
    <2>3. CASE Enqueue(r)
      <3>1. \/ queue' = queue \cup {r} /\ req'[r] = "done"
            \/ queue' = queue /\ req'[r] = "abort"
            \/ r \in lost'
        BY <2>3 DEF Enqueue, TypeOK
      <3>2. req[r] = "created" /\ job' = job
        BY <2>3 DEF Enqueue
      <3> QED
        BY <2>1, <2>2, <3>1, <3>2 DEF SingleFor, Open, Started, Sticks
    <2>4. CASE AbortJob(r)
      BY <2>1, <2>2, <2>4 DEF AbortJob, TypeOK, SingleFor, Open, Started, Sticks
    <2>5. CASE InsertDocument(r) \/ ResetDocument(r)
      <3>1. req[r] \in {"stored", "fetched"} /\ queue' = queue
        BY <2>5 DEF InsertDocument, ResetDocument
      <3>2. job'[r] = job[r] \/ job'[r] = "pending"
        BY <2>5 DEF InsertDocument, ResetDocument, TypeOK
      <3> QED
        BY <2>1, <2>2, <3>1, <3>2 DEF SingleFor, Open, Started, Sticks
    <2>6. CASE RecordDuplicate(r)
      <3>1. req[r] = "found" /\ queue' = queue /\ req'[r] \in {"done", "refused"}
        BY <2>6 DEF RecordDuplicate, TypeOK
      <3> QED
        BY <2>1, <2>2, <3>1 DEF SingleFor, Open, Started, Sticks
    <2>7. CASE CheckDuplicate(r) \/ StoreFile(r) \/ LoadForReprocess(r) \/ FetchFile(r) \/ CrashApi(r)
      <3>1. UNCHANGED <<job, queue>> /\ req'[r] \notin {"created", "abort"}
        BY <2>7 DEF CheckDuplicate, StoreFile, LoadForReprocess, FetchFile, CrashApi, TypeOK
      <3> QED
        BY <2>1, <2>2, <3>1 DEF SingleFor, Open, Started, Sticks
    <2> QED
      BY <2>3, <2>4, <2>5, <2>6, <2>7 DEF UploadStep, ReprocessStep
  <1>4. \A j \in Req \ lost' : SingleFor(j)'
    BY <1>1, <1>2, <1>3
  <1> QED
    BY <1>2, <1>3, <1>4 DEF Single

(* A task's step: it writes a job that is pending, or leaves it.           *)
LEMMA TaskSticks ==
  ASSUME TypeOK, Kept, Single, NEW j \in Req, Run(j)
  PROVE  Single' /\ \A q \in Req \ lost : Sticks(q)
PROOF
  <1> USE DEF TaskAt, EmbedAt, LeaveEmbedding, embedvars, reqvars, SetJob
  <1>1. /\ UNCHANGED <<req, lost>> /\ Started(j) /\ \A q \in Req : Started(q)' => Started(q)
        /\ \A q \in Req : q # j => job'[q] = job[q] /\ task'[q] = task[q] /\ (q \in queue' <=> q \in queue)
    <2>1. lost' = lost
      BY DEF Run, TaskStep, EmbedStep, StartTask, Extract, ChainEmbedding, FailTask, FailureCallback,
             RaiseTask, KillTask, LoadForEmbedding, StoreEmbeddings, MarkEmbedded, FailEmbedding
    <2>2. \A q \in Req : q # j => task'[q] = task[q] /\ (q \in queue' <=> q \in queue)
      BY DEF TypeOK, Run, TaskStep, EmbedStep, StartTask, Extract, ChainEmbedding, FailTask, FailureCallback,
             RaiseTask, KillTask, LoadForEmbedding, StoreEmbeddings, MarkEmbedded, FailEmbedding
    <2> QED
      BY <2>1, <2>2, TaskFrame
  <1>2. ASSUME NEW q \in Req \ lost, q # j PROVE SingleFor(q)' /\ Sticks(q)
    BY <1>1, <1>2 DEF Single, SingleFor, Open, Sticks
  <1>3. ASSUME j \notin lost PROVE SingleFor(j)' /\ Sticks(j)
    <2>1. /\ req[j] \notin {"created", "abort"}
          /\ Open(j) => job[j] \in {"pending", "absent"}
          /\ j \in queue => task[j] = "idle"
      BY <1>1, <1>3 DEF Single, SingleFor
    <2>2. CASE StartTask(j)
      BY <1>1, <2>1, <2>2 DEF StartTask, TypeOK, SingleFor, Open, Sticks
    <2>3. CASE Extract(j) \/ FailTask(j)
      <3>1. task[j] \in {"loaded", "failing"} /\ queue' = queue /\ task'[j] \in {"extracted", "callback"}
        BY <2>3 DEF Extract, FailTask, TypeOK
      <3>2. job[j] \in {"pending", "absent"} /\ j \notin queue
        BY <2>1, <3>1 DEF Open
      <3> QED
        BY <1>1, <2>1, <3>1, <3>2 DEF SingleFor, Open, Sticks
    <2>4. CASE FailureCallback(j)
      <3>1. job'[j] \in {job[j], "failed"} /\ (job'[j] # job[j] => job[j] = "pending")
        BY <2>4 DEF FailureCallback, TypeOK
      <3>2. queue' = queue /\ task'[j] \notin {"loaded", "failing"} /\ task[j] = "callback"
        BY <2>4 DEF FailureCallback, TypeOK
      <3> QED
        BY <1>1, <2>1, <3>1, <3>2 DEF SingleFor, Open, Sticks
    <2>5. CASE \/ ChainEmbedding(j) \/ RaiseTask(j) \/ KillTask(j)
      <3>1. /\ UNCHANGED <<job, queue>> /\ task[j] \in {"loaded", "failing", "extracted"}
            /\ task'[j] \in {"loaded", "failing"} => task[j] \in {"loaded", "failing"}
        BY <2>5 DEF ChainEmbedding, RaiseTask, KillTask, TypeOK
      <3> QED
        BY <1>1, <2>1, <3>1 DEF SingleFor, Open, Sticks
    <2>6. CASE EmbedStep(j) \/ FailEmbedding(j)
      <3>1. UNCHANGED <<job, queue, task>>
        BY <2>6 DEF EmbedStep, LoadForEmbedding, StoreEmbeddings, MarkEmbedded, FailEmbedding
      <3> QED
        BY <1>1, <2>1, <3>1 DEF SingleFor, Open, Sticks
    <2> QED
      BY <2>2, <2>3, <2>4, <2>5, <2>6 DEF Run, TaskStep
  <1>4. \A q \in Req \ lost' : SingleFor(q)'
    BY <1>1, <1>2, <1>3
  <1> QED
    BY <1>2, <1>3, <1>4 DEF Single

(* A job the client has seen completed or failed keeps that status until   *)
(* it is deleted, unless the reply to its enqueue was lost.                *)
THEOREM OutcomesStickAlways == Spec => OutcomesStick
PROOF
  <1>1. Init => Single
    BY DEF Init, Single, SingleFor, Open
  <1>2. TypeOK /\ Kept /\ Single /\ [Next]_vars => Single' /\ \A j \in Req \ lost : Sticks(j)
    <2>1. CASE UNCHANGED vars
      BY <2>1 DEF Single, SingleFor, Open, Started, Sticks, vars, reqvars, embedvars
    <2>2. ASSUME TypeOK, Single, NEW d \in Upload, DeleteDocument(d)
          PROVE  Single' /\ \A j \in Req \ lost : Sticks(j)
      <3>1. UNCHANGED <<req, lost, queue, task, embedq, embed>> /\ \A j \in Req : job'[j] \in {job[j], "absent"}
        BY <2>2 DEF DeleteDocument, reqvars
      <3> QED
        BY <2>2, <3>1 DEF Single, SingleFor, Open, Started, Sticks
    <2> QED
      BY <2>1, <2>2, RequestSticks, TaskSticks DEF Next, Run
  <1>3. TypeOK /\ Kept /\ Single /\ [Next]_vars
          => [\A j \in Req \ lost : job[j] \in {"completed", "failed", "duplicate"}
                                      => job'[j] \in {job[j], "absent"}]_vars
    BY <1>2 DEF Sticks
  <1> QED
    BY <1>1, <1>2, <1>3, TypeCorrect, KeptAlways, PTL DEF Spec, OutcomesStick
-----------------------------------------------------------------------------
(* What keeps a job going: its request, its place in the queue or its task *)
(* - or it is out of reach, because the API died before the enqueue or no  *)
(* write recording its failure succeeded.                                  *)
Underway(j) ==
  \/ req[j] \in {"created", "abort"} \/ j \in queue
  \/ task[j] \in {"loaded", "failing", "callback"}
Unrecorded(j) == req[j] = "dead" \/ task[j] = "unrecorded"

(* Nobody waits for nothing: a pending job is still under way, and so is   *)
(* one of the jobs of a pending document, whichever of them reset it and   *)
(* whichever fail.  The exception is a document whose job was failed for   *)
(* want of a queue: the API does not fail the document with it.            *)
PendingIsUnderway ==
  /\ \A j \in Req : job[j] = "pending" => Underway(j) \/ Unrecorded(j)
  /\ \A d \in Upload :
       doc[d].status = "pending" =>
         \E j \in Req : /\ of[j] = d
                        /\ Underway(j) \/ Unrecorded(j) \/ (job[j] = "failed" /\ task[j] = "idle")

(* The strengthening: the job a pending document waits for has not been    *)
(* run to its end, and a pending job is not one whose task is over.        *)
Waits(j, d) ==
  of[j] = d /\ (job[j] = "pending" \/ (job[j] = "failed" /\ task[j] \notin {"extracted", "done"}))
WaitsFor(j) ==
  job[j] = "pending" => /\ Underway(j) \/ Unrecorded(j)
                        /\ task[j] \notin {"extracted", "done"}
Waiting ==
  /\ \A j \in Req : WaitsFor(j)
  /\ \A d \in Upload : doc[d].status = "pending" => \E j \in Req : Waits(j, d)

(* A request's step.                                                       *)
LEMMA RequestWaits ==
  ASSUME TypeOK, Kept, Waiting, NEW r \in Req, UploadStep(r) \/ ReprocessStep(r) \/ CrashApi(r)
  PROVE  Waiting'
PROOF
  <1> USE DEF ReqAt, embedvars, Early
  <1>0. /\ UNCHANGED <<task, embedq, embed>> /\ queue \subseteq queue'
        /\ \A q \in Req : q # r => req'[q] = req[q] /\ job'[q] = job[q] /\ of'[q] = of[q]
        /\ of'[r] # of[r] => req[r] \in {"idle", "stored"}
    BY RequestFrame
  <1>1. /\ req[r] \in Early \cup {"loaded", "fetched"} => job[r] = "absent" /\ task[r] = "idle"
        /\ req[r] = "created" => task[r] = "idle"
    BY DEF Kept, Assigned, Started
  <1>2. WaitsFor(r)'
    <2>1. CASE Enqueue(r)
      <3>1. r \in queue' \/ req'[r] = "abort"
        BY <2>1 DEF Enqueue, TypeOK
      <3> QED
        BY <1>0, <1>1, <2>1, <3>1 DEF Enqueue, WaitsFor, Underway
    <2>2. CASE AbortJob(r)
      BY <1>0, <2>2 DEF AbortJob, TypeOK, Waiting, WaitsFor, Underway, Unrecorded
    <2>3. CASE InsertDocument(r) \/ ResetDocument(r)
      <3>1. req[r] \in {"stored", "fetched"} /\ (job'[r] = job[r] \/ req'[r] = "created")
        BY <2>3 DEF InsertDocument, ResetDocument, TypeOK
      <3> QED
        BY <1>0, <1>1, <3>1 DEF WaitsFor, Underway
    <2>4. CASE CheckDuplicate(r) \/ RecordDuplicate(r) \/ StoreFile(r) \/ LoadForReprocess(r) \/ FetchFile(r)
      <3>1. job'[r] # "pending"
        BY <1>1, <2>4 DEF CheckDuplicate, RecordDuplicate, StoreFile, LoadForReprocess, FetchFile, Begin, TypeOK
      <3> QED
        BY <3>1 DEF WaitsFor
    <2>5. CASE CrashApi(r)
      <3>1. req'[r] = "dead" /\ job' = job
        BY <2>5 DEF CrashApi, TypeOK
      <3> QED
        BY <1>0, <3>1 DEF Waiting, WaitsFor, Unrecorded
    <2> QED
      BY <2>1, <2>2, <2>3, <2>4, <2>5 DEF UploadStep, ReprocessStep
  <1>3. \A q \in Req : WaitsFor(q)'
    <2>1. ASSUME NEW q \in Req, q # r PROVE WaitsFor(q)'
      BY <1>0, <2>1 DEF Waiting, WaitsFor, Underway, Unrecorded
    <2> QED
      BY <1>2, <2>1
  <1>4. ASSUME NEW j \in Req, NEW d \in Upload, Waits(j, d), j # r PROVE Waits(j, d)'
    BY <1>0, <1>4 DEF Waits
  <1>5. ASSUME NEW d \in Upload, doc'[d].status = "pending" PROVE \E j \in Req : Waits(j, d)'
    <2>1. CASE r \in Upload /\ InsertDocument(r) /\ doc' # doc
      <3>1. /\ \A e \in Upload : ~Present(e)
            /\ doc' = [doc EXCEPT ![r] = [status |-> "pending", text |-> FALSE]]
            /\ job' = [job EXCEPT ![r] = "pending"] /\ of' = [of EXCEPT ![r] = r]
        BY <2>1, InsertTypes
      <3>2. d = r
        BY <1>5, <3>1 DEF Present, TypeOK
      <3>3. Waits(r, d)'
        BY <2>1, <3>1, <3>2 DEF Waits, TypeOK
      <3> QED
        BY <3>3
    <2>2. CASE ResetDocument(r) /\ req'[r] = "created"
      <3>1. /\ \A e \in Upload : e # of[r] => doc'[e] = doc[e]
            /\ job' = [job EXCEPT ![r] = "pending"]
        <4>1. ~(req' = [req EXCEPT ![r] = "refused"])
          BY <2>2 DEF TypeOK
        <4> QED
          BY <2>2, <4>1, ResetTypes
      <3>2. of' = of
        BY <2>2 DEF ResetDocument
      <3>3. CASE d = of[r]
        <4>1. Waits(r, d)'
          BY <3>1, <3>2, <3>3 DEF Waits, TypeOK
        <4> QED
          BY <4>1
      <3>4. CASE d # of[r]
        <4>1. PICK j \in Req : Waits(j, d)
          BY <1>5, <3>1, <3>4 DEF Waiting
        <4>2. j # r
          BY <3>4, <4>1 DEF Waits
        <4> QED
          BY <1>4, <4>1, <4>2
      <3> QED
        BY <3>3, <3>4
    <2>3. CASE /\ UNCHANGED doc
               /\ job[r] \in {"pending", "failed"} => job'[r] \in {"pending", "failed"} \/ req[r] = "found"
      <3>1. PICK j \in Req : Waits(j, d)
        BY <1>5, <2>3 DEF Waiting
      <3>2. CASE j = r
        <4>1. job[r] \in {"pending", "failed"} /\ of[r] = d /\ task[r] \notin {"extracted", "done"}
          BY <3>1, <3>2 DEF Waits, Waiting, WaitsFor
        <4>2. of'[r] = d /\ job'[r] \in {"pending", "failed"}
          BY <1>0, <1>1, <2>3, <4>1
        <4>3. Waits(r, d)'
          BY <1>0, <4>1, <4>2 DEF Waits
        <4> QED
          BY <4>3
      <3> QED
        BY <1>4, <3>1, <3>2
    <2> QED
      BY <2>1, <2>2, <2>3, RequestRows
  <1> QED
    BY <1>3, <1>5 DEF Waiting

(* No task sets a document to pending, and one that leaves its own pending *)
(* has recorded no outcome.                                                *)
LEMMA TaskPending ==
  ASSUME TypeOK, NEW j \in Req, Run(j), NEW d \in Upload, doc'[d].status = "pending"
  PROVE  /\ doc[d].status = "pending"
         /\ d = of[j] => /\ job'[j] = job[j]
                         /\ task'[j] \in {"extracted", "done"} => task[j] \in {"extracted", "done"}
PROOF
  <1> USE DEF TaskAt
  <1>0. doc \in [Upload -> Doc] /\ NoDoc \in Doc /\ NoDoc.status = "absent"
        /\ task \in [Req -> {"idle", "loaded", "failing", "extracted", "callback", "done", "unrecorded"}]
    BY DEF TypeOK, NoDoc, Doc
  <1>1. CASE Extract(j)
    <2> DEFINE v == [status |-> "completed", text |-> TRUE]
    <2>1. v \in Doc /\ SetDoc(of[j], v)
      BY <1>1 DEF Extract, Doc, DocStatus
    <2>2. /\ d # of[j] \/ doc[d] = NoDoc => doc'[d] = doc[d]
          /\ d = of[j] /\ doc[d] # NoDoc => doc'[d] = v
      BY <1>0, <2>1, SetDocTypes
    <2> QED
      BY <1>0, <2>2
  <1>2. CASE FailTask(j)
    <2>1. CASE UNCHANGED <<doc, job>>
      BY <1>0, <1>2, <2>1 DEF FailTask
    <2>2. CASE SetDoc(of[j], [status |-> "failed", text |-> doc[of[j]].text])
      <3>1. /\ d # of[j] \/ doc[d] = NoDoc => doc'[d] = doc[d]
            /\ d = of[j] /\ doc[d] # NoDoc => doc'[d].status = "failed"
        BY <1>0, <2>2 DEF SetDoc
      <3> QED
        BY <1>0, <3>1
    <2> QED
      BY <1>2, <2>1, <2>2 DEF FailTask
  <1>3. CASE FailureCallback(j)
    <2>1. CASE UNCHANGED <<doc, job>> /\ task' = [task EXCEPT ![j] = "unrecorded"]
      BY <1>0, <2>1
    <2>2. CASE doc' = [doc EXCEPT ![of[j]].status = IF @ = "pending" THEN "failed" ELSE @]
      <3>1. /\ d # of[j] => doc'[d] = doc[d]
            /\ d = of[j] => /\ doc[d].status = "pending" => doc'[d].status = "failed"
                            /\ doc[d].status # "pending" => doc'[d] = doc[d]
        BY <1>0, <2>2, CallbackTypes
      <3> QED
        BY <3>1
    <2> QED
      BY <1>3, <2>1, <2>2 DEF FailureCallback
  <1>4. CASE MarkEmbedded(j)
    <2>1. /\ d # of[j] => doc'[d] = doc[d]
          /\ d = of[j] => doc'[d].status \in {doc[d].status, "embedded"}
      BY <1>0, <1>4, EmbeddedTypes
    <2> QED
      BY <1>4, <2>1 DEF MarkEmbedded
  <1>5. CASE ChainEmbedding(j)
    BY <1>0, <1>5 DEF ChainEmbedding
  <1>6. CASE StartTask(j) \/ RaiseTask(j) \/ KillTask(j)
    <2>1. UNCHANGED <<doc, job>> /\ task'[j] \in {"loaded", "failing", "callback"}
      BY <1>0, <1>6 DEF StartTask, RaiseTask, KillTask
    <2> QED
      BY <2>1
  <1>7. CASE LoadForEmbedding(j) \/ StoreEmbeddings(j) \/ FailEmbedding(j)
    BY <1>7 DEF LoadForEmbedding, StoreEmbeddings, FailEmbedding
  <1> QED
    BY <1>1, <1>2, <1>3, <1>4, <1>5, <1>6, <1>7 DEF Run, TaskStep, EmbedStep

(* A task's step.                                                          *)
LEMMA TaskWaits ==
  ASSUME TypeOK, Waiting, NEW j \in Req, Run(j)
  PROVE  Waiting'
PROOF
  <1> USE DEF TaskAt
  <1>1. /\ UNCHANGED <<req, of>>
        /\ \A q \in Req : q # j => job'[q] = job[q]
    BY TaskFrame
  <1>2. \A q \in Req : q # j => task'[q] = task[q] /\ (q \in queue' <=> q \in queue)
    BY DEF TypeOK, Run, TaskStep, EmbedStep, StartTask, Extract, ChainEmbedding, FailTask, FailureCallback,
           RaiseTask, KillTask, LoadForEmbedding, StoreEmbeddings, MarkEmbedded, FailEmbedding, embedvars, reqvars
  <1>3. WaitsFor(j)'
    <2>1. CASE StartTask(j) \/ RaiseTask(j) \/ KillTask(j)
      <3>1. task'[j] \in {"loaded", "failing", "callback"}
        BY <2>1 DEF StartTask, RaiseTask, KillTask, TypeOK
      <3> QED
        BY <3>1 DEF WaitsFor, Underway
    <2>2. CASE Extract(j)
      <3>1. job'[j] # "pending"
        BY <2>2 DEF Extract, SetJob, TypeOK
      <3> QED
        BY <3>1 DEF WaitsFor
    <2>3. CASE ChainEmbedding(j)
      <3>1. task[j] = "extracted" /\ job' = job
        BY <2>3 DEF ChainEmbedding
      <3> QED
        BY <3>1 DEF Waiting, WaitsFor
    <2>4. CASE FailTask(j)
      <3>1. task'[j] = "callback"
        BY <2>4 DEF FailTask, TypeOK
      <3> QED
        BY <3>1 DEF WaitsFor, Underway
    <2>5. CASE FailureCallback(j)
      <3>1. job'[j] # "pending" \/ task'[j] = "unrecorded"
        BY <2>5 DEF FailureCallback, TypeOK
      <3> QED
        BY <3>1 DEF WaitsFor, Unrecorded
    <2>6. CASE EmbedStep(j) \/ FailEmbedding(j)
      <3>1. UNCHANGED <<job, queue, task>>
        BY <2>6 DEF EmbedStep, LoadForEmbedding, StoreEmbeddings, MarkEmbedded, FailEmbedding
      <3> QED
        BY <1>1, <3>1 DEF Waiting, WaitsFor, Underway, Unrecorded
    <2> QED
      BY <2>1, <2>2, <2>3, <2>4, <2>5, <2>6 DEF Run, TaskStep
  <1>4. \A q \in Req : WaitsFor(q)'
    <2>1. ASSUME NEW q \in Req, q # j PROVE WaitsFor(q)'
      BY <1>1, <1>2, <2>1 DEF Waiting, WaitsFor, Underway, Unrecorded
    <2> QED
      BY <1>3, <2>1
  <1>5. ASSUME NEW d \in Upload, doc'[d].status = "pending" PROVE \E q \in Req : Waits(q, d)'
    <2>1. doc[d].status = "pending"
      BY <1>5, TaskPending
    <2>2. PICK q \in Req : Waits(q, d)
      BY <2>1 DEF Waiting
    <2>3. CASE q # j
      BY <1>1, <1>2, <2>2, <2>3 DEF Waits
    <2>4. CASE q = j
      <3>1. /\ job'[j] = job[j]
            /\ task'[j] \in {"extracted", "done"} => task[j] \in {"extracted", "done"}
        BY <1>5, <2>2, <2>4, TaskPending DEF Waits
      <3> QED
        BY <1>1, <2>2, <2>4, <3>1 DEF Waits
    <2> QED
      BY <2>3, <2>4
  <1> QED
    BY <1>4, <1>5 DEF Waiting

(* A deletion's step.                                                      *)
LEMMA DeleteWaits ==
  ASSUME TypeOK, Waiting, NEW d \in Upload, DeleteDocument(d)
  PROVE  Waiting'
PROOF
  <1>1. /\ doc' = [doc EXCEPT ![d] = NoDoc]
        /\ job' = [r \in Req |-> IF of[r] = d THEN "absent" ELSE job[r]]
        /\ UNCHANGED <<of, req, queue, task>>
    BY DEF DeleteDocument, reqvars
  <1>2. \A j \in Req : WaitsFor(j)'
    BY <1>1 DEF Waiting, WaitsFor, Underway, Unrecorded
  <1>3. ASSUME NEW e \in Upload, doc'[e].status = "pending" PROVE \E j \in Req : Waits(j, e)'
    <2>1. e # d /\ doc[e].status = "pending"
      BY <1>1, <1>3 DEF TypeOK, NoDoc
    <2>2. PICK j \in Req : Waits(j, e)
      BY <2>1 DEF Waiting
    <2>3. Waits(j, e)'
      BY <1>1, <2>1, <2>2 DEF Waits
    <2> QED
      BY <2>3
  <1> QED
    BY <1>2, <1>3 DEF Waiting

(* A pending job or document is always one that somebody still works for,  *)
(* or whose failure nobody could record: the safety half of JobsSettle.    *)
THEOREM PendingIsUnderwayAlways == Spec => []PendingIsUnderway
PROOF
  <1>1. Init => Waiting
    BY DEF Init, Waiting, WaitsFor, NoDoc
  <1>2. TypeOK /\ Kept /\ Waiting /\ [Next]_vars => Waiting'
    <2>1. CASE UNCHANGED vars
      BY <2>1 DEF Waiting, WaitsFor, Waits, Underway, Unrecorded, vars, reqvars
    <2> QED
      BY <2>1, RequestWaits, TaskWaits, DeleteWaits DEF Next, Run
  <1>3. TypeOK /\ Waiting => PendingIsUnderway
    <2>1. ASSUME TypeOK, NEW j \in Req, NEW d \in Upload, Waits(j, d), WaitsFor(j)
          PROVE  Underway(j) \/ Unrecorded(j) \/ (job[j] = "failed" /\ task[j] = "idle")
      BY <2>1 DEF Waits, WaitsFor, Underway, Unrecorded, TypeOK
    <2>2. ASSUME TypeOK, Waiting, NEW d \in Upload, doc[d].status = "pending"
          PROVE  \E j \in Req : /\ of[j] = d
                                /\ Underway(j) \/ Unrecorded(j) \/ (job[j] = "failed" /\ task[j] = "idle")
      <3>1. PICK j \in Req : Waits(j, d)
        BY <2>2 DEF Waiting
      <3>2. of[j] = d /\ WaitsFor(j)
        BY <2>2, <3>1 DEF Waits, Waiting
      <3> QED
        BY <2>1, <2>2, <3>1, <3>2
    <2> QED
      BY <2>2 DEF Waiting, WaitsFor, PendingIsUnderway
  <1> QED
    BY <1>1, <1>2, <1>3, TypeCorrect, KeptAlways, PTL DEF Spec

=============================================================================
