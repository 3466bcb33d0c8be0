------------------- MODULE PublishPipeline_outcomes_proofs -------------------
(***************************************************************************)
(* What the rows of a post report has happened: a certificate that is      *)
(* finished has an id, whatever retries save; a submission only ends well  *)
(* for a post its job has pushed, and no post is left doing, as long as    *)
(* posts are not retried, or are retried and can only fail together.       *)
(***************************************************************************)
EXTENDS PublishPipeline_ownership_proofs

\* The tuples of the UNCHANGED clauses.
USE DEF linkRest, ordersRest, jobsRest, dispRest, certRest, postRows, certRows, postTaskRows, orderRows, git, counters

-----------------------------------------------------------------------------
(* Certificates. *)

\* A row that a retry has read and is about to save.
SavedRowFits ==
    \A r \in Retriers :
        retry[r].pc = "save" /\ retry[r].row.certState = "finished" => retry[r].row.certId # ""

\* The inductive invariant.
CertificateInv == TypeOK /\ SavedRowFits /\ FinishedCertificateHasId

\* A step that leaves the certificate's columns alone, and begins no save.
LEMMA ElsewhereCertificates ==
    ASSUME CertificateInv, TypeOK', UNCHANGED <<certificateState, certificateId>>,
           \A r \in Retriers : retry'[r].pc = "save" => retry[r].pc = "save" /\ retry'[r].row = retry[r].row
    PROVE  CertificateInv'
  BY DEF CertificateInv, SavedRowFits, FinishedCertificateHasId

\* A retry copies the row, or puts its certificate back to pending.
LEMMA ReadFailedCertificates ==
    ASSUME CertificateInv, NEW r \in Retriers, ReadFailed(r)
    PROVE  SavedRowFits'
<1>1. r[1] \in Posts
  BY DEF Retriers
<1>2. PICK row : /\ retry' = [retry EXCEPT ![r] = [pc |-> "save", row |-> row]]
                 /\ row.certState = "finished" => row.certId # ""
  <2>1. CASE Row(r[1]).certState = "failed" /\ retry' = [retry EXCEPT ![r] = [pc |-> "save", row |-> Recertified(Row(r[1]))]]
    <3>1. Recertified(Row(r[1])).certState = "pending"
      BY DEF Recertified, Row
    <3>2. QED
      BY <2>1, <3>1
  <2>2. CASE \/ retry' = [retry EXCEPT ![r] = [pc |-> "save", row |-> Resubmitted(Row(r[1]))]]
             \/ retry' = [retry EXCEPT ![r] = [pc |-> "save", row |-> Republished(Row(r[1]))]]
    <3>1. /\ Resubmitted(Row(r[1])).certState = certificateState[r[1]]
          /\ Resubmitted(Row(r[1])).certId = certificateId[r[1]]
          /\ Republished(Row(r[1])).certState = certificateState[r[1]]
          /\ Republished(Row(r[1])).certId = certificateId[r[1]]
      BY DEF Resubmitted, Republished, Row
    <3>2. certificateState[r[1]] = "finished" => certificateId[r[1]] # ""
      BY <1>1 DEF CertificateInv, FinishedCertificateHasId
    <3>3. QED
      BY <2>2, <3>1, <3>2
  <2>3. QED
    BY <2>1, <2>2 DEF ReadFailed
<1>3. QED
  BY <1>2 DEF CertificateInv, SavedRowFits, TypeOK

\* Requests and sweeps, and the saves they end with.
LEMMA RetriesCertificates ==
    ASSUME CertificateInv, TypeOK',
           \/ \E p \in Posts : RetryRequest(p) \/ SweepRead(p)
           \/ SweepFailed
           \/ \E r \in Retriers : RetrySave(r)
    PROVE  CertificateInv'
<1>1. ASSUME NEW r \in Retriers, ReadFailed(r), UNCHANGED certRows
      PROVE  CertificateInv'
  <2>1. FinishedCertificateHasId'
    BY <1>1 DEF CertificateInv, FinishedCertificateHasId
  <2>2. QED
    BY <1>1, <2>1, ReadFailedCertificates DEF CertificateInv
<1>2. ASSUME NEW p \in Posts, RetryRequest(p) \/ SweepRead(p)
      PROVE  CertificateInv'
  <2>1. <<p, "request">> \in Retriers /\ <<p, "sweep">> \in Retriers
    BY DEF Retriers
  <2>2. CASE RetryRequest(p)
    BY <1>1, <2>1, <2>2 DEF RetryRequest
  <2>3. CASE SweepRead(p) /\ ReadFailed(<<p, "sweep">>)
    BY <1>1, <2>1, <2>3 DEF SweepRead
  <2>4. CASE SweepRead(p) /\ retry' = [retry EXCEPT ![<<p, "sweep">>] = NoRetry]
    <3>1. \A r \in Retriers : retry'[r].pc = "save" => retry'[r] = retry[r]
      <4>1. \A r \in Retriers : r # <<p, "sweep">> => retry'[r] = retry[r]
        BY <2>1, <2>4 DEF CertificateInv, TypeOK
      <4>2. retry'[<<p, "sweep">>] = NoRetry
        BY <2>1, <2>4 DEF CertificateInv, TypeOK
      <4>3. QED
        BY <4>1, <4>2 DEF NoRetry
    <3>2. QED
      BY <2>4, <3>1, ElsewhereCertificates DEF SweepRead
  <2>5. QED
    BY <1>2, <2>2, <2>3, <2>4 DEF SweepRead
<1>3. CASE SweepFailed
  <2>1. \A r \in Retriers : retry'[r].pc = "save" => retry'[r] = retry[r]
    BY <1>3 DEF SweepFailed, CertificateInv, TypeOK, RetryRun
  <2>2. QED
    BY <1>3, <2>1, ElsewhereCertificates DEF SweepFailed
<1>4. ASSUME NEW r \in Retriers, RetrySave(r)
      PROVE  CertificateInv'
  <2>1. \A q \in Retriers : retry'[q].pc = "save" => retry'[q] = retry[q]
    <3>1. retry' = [retry EXCEPT ![r] = NoRetry]
      BY <1>4 DEF RetrySave
    <3>2. retry \in [Retriers -> RetryRun]
      BY DEF CertificateInv, TypeOK
    <3>3. \A q \in Retriers : retry'[q] = IF q = r THEN NoRetry ELSE retry[q]
      BY <3>1, <3>2
    <3>4. QED
      BY <3>3 DEF NoRetry
  <2>2. SavedRowFits'
    BY <2>1 DEF CertificateInv, SavedRowFits
  <2>3. /\ r[1] \in Posts
        /\ retry[r].row.certState = "finished" => retry[r].row.certId # ""
    BY <1>4 DEF RetrySave, CertificateInv, SavedRowFits, Retriers
  <2>4. /\ certificateState' = [certificateState EXCEPT ![r[1]] = retry[r].row.certState]
        /\ certificateId' = [certificateId EXCEPT ![r[1]] = retry[r].row.certId]
    BY <1>4 DEF RetrySave
  <2>5. FinishedCertificateHasId'
    BY <2>3, <2>4 DEF CertificateInv, FinishedCertificateHasId, TypeOK
  <2>6. QED
    BY <2>2, <2>5 DEF CertificateInv
<1>5. QED
  BY <1>2, <1>3, <1>4

\* The handler of an upload.
LEMMA UploadsCertificates ==
    ASSUME CertificateInv, TypeOK', NEW c \in Certifiers, CertificateStep(c)
    PROVE  CertificateInv'
<1>1. UNCHANGED retry
  BY DEF CertificateStep, DoingCertificate, UploadCertificate, UploadFailed, FailCertificate
<1>2. FinishedCertificateHasId'
  <2>1. CASE DoingCertificate(c) \/ UploadFailed(c)
    BY <2>1 DEF DoingCertificate, UploadFailed, CertificateInv, FinishedCertificateHasId, TypeOK
  <2>2. CASE UploadCertificate(c)
    BY <2>2 DEF UploadCertificate, CertificateInv, FinishedCertificateHasId, TypeOK
  <2>3. CASE FailCertificate(c)
    BY <2>3 DEF FailCertificate, CertificateInv, FinishedCertificateHasId, TypeOK
  <2>4. QED
    BY <2>1, <2>2, <2>3 DEF CertificateStep
<1>3. QED
  BY <1>1, <1>2 DEF CertificateInv, SavedRowFits

\* Nothing else writes these columns or reads a row to save it.
LEMMA OthersCertificates ==
    ASSUME CertificateInv, TypeOK',
           \/ \E p \in Posts : SavePost(p)
           \/ \E l \in Linkers : LinkStep(l)
           \/ \E c \in Callers : GenStep(c)
           \/ \E r \in Retriers : UpdatePublishOrderId(r)
           \/ RequestPublish
           \/ \E d \in Dispatchers : DispatchStep(d) \/ RequestDispatch(d)
           \/ \E t \in PostTaskIds : PostJobStep(t)
           \/ \E t \in PostTaskIds, p \in Posts : ReportErrored(t, p)
           \/ \E j \in PublishJobs : PublishJobStep(j)
    PROVE  CertificateInv'
<1>1. UNCHANGED <<certificateState, certificateId, retry>>
  <2>1. CASE \E l \in Linkers : LinkStep(l)
    BY <2>1 DEF LinkStep, LinkRead, LinkCreate, LinkOrders, LinkIds, LinkPosts
  <2>2. CASE (\E c \in Callers : GenStep(c)) \/ (\E r \in Retriers : UpdatePublishOrderId(r)) \/ RequestPublish
    BY <2>2 DEF GenStep, GenFind, GenCreate, UpdatePublishOrderId, RequestPublish
  <2>3. ASSUME NEW d \in Dispatchers, DispatchStep(d) \/ RequestDispatch(d)
        PROVE  UNCHANGED <<certificateState, certificateId, retry>>
    <3>1. CASE \/ RequestDispatch(d) \/ ReadPublishOrder(d) \/ ReadPostOrder(d) \/ CheckPublish(d) \/ PickPending(d)
               \/ DoingPublishTask(d) \/ DoingPublishOrders(d) \/ DoingPublishPosts(d) \/ DoingPublishStatus(d)
               \/ DispatchPublish(d)
      BY <3>1 DEF RequestDispatch, ReadPublishOrder, ReadPostOrder, CheckPublish, PickPending,
                  DoingPublishTask, DoingPublishOrders, DoingPublishPosts, DoingPublishStatus, DispatchPublish
    <3>2. CASE \/ CreatePostTask(d) \/ BatchPosts(d) \/ CollectPosts(d) \/ DoingPostTask(d) \/ DoingSubmitPost(d)
               \/ DispatchPosts(d) \/ DispatchFailed(d)
      BY <3>2 DEF CreatePostTask, BatchPosts, CollectPosts, DoingPostTask, DoingSubmitPost, DispatchPosts, DispatchFailed
    <3>3. QED
      BY <2>3, <3>1, <3>2 DEF DispatchStep
  <2>4. CASE \E t \in PostTaskIds : PostJobStep(t) \/ \E p \in Posts : ReportErrored(t, p)
    BY <2>4 DEF PostJobStep, PostJobCompleted, PostJobFailed, FailPostTask, FailSubmitPosts,
                FinishPostTask, FinishSubmitPost, ReportErrored
  <2>5. CASE \E j \in PublishJobs : PublishJobStep(j)
    BY <2>5 DEF PublishJobStep, PublishJobBuild, PublishJobCompleted, PublishJobFailed, FinishPublishTask,
                UpdateDomain, FinishPublishOrders, FinishPublishPosts, SetPublished,
                FailPublishTask, FailPublishOrders, FailPublishPosts, SetPublishFailed
  <2>6. CASE \E p \in Posts : SavePost(p)
    BY <2>6 DEF SavePost
  <2>7. QED
    BY <2>1, <2>2, <2>3, <2>4, <2>5, <2>6
<1>2. QED
  BY <1>1, ElsewhereCertificates

\* Every step keeps the invariant.
LEMMA NextCertificates ==
    ASSUME CertificateInv, [Next]_vars
    PROVE  CertificateInv'
<1>1. TypeOK'
  BY NextType DEF CertificateInv
<1>2. CASE UNCHANGED vars
  BY <1>1, <1>2, ElsewhereCertificates DEF vars
<1>3. CASE Restart
  <2>1. \A r \in Retriers : retry'[r].pc # "save"
    BY <1>3 DEF Restart, NoRetry
  <2>2. QED
    BY <1>1, <1>3, <2>1, ElsewhereCertificates DEF Restart
<1>4. CASE Next /\ ~Restart
  BY <1>1, <1>4, RetriesCertificates, UploadsCertificates, OthersCertificates DEF Next
<1>5. QED
  BY <1>2, <1>3, <1>4

\* The states of a certificate and its id are written by uploads that run beside each
\* other and by the stale saves of retries; none of them ever leaves a certificate
\* that is reported as finished without an id.
THEOREM CertificatesFound == Spec => []FinishedCertificateHasId
<1>1. Init => CertificateInv
  <2>1. Init => /\ retry = [r \in Retriers |-> NoRetry]
                /\ certificateState = [p \in Posts |-> ""]
    BY Zenon DEF Init
  <2>2. Init => /\ \A r \in Retriers : retry[r] = NoRetry
                /\ \A p \in Posts : certificateState[p] = ""
    BY <2>1
  <2>3. NoRetry.pc = "none"
    BY DEF NoRetry
  <2>4. QED
    BY <2>2, <2>3, InitType DEF CertificateInv, SavedRowFits, FinishedCertificateHasId
<1>2. CertificateInv /\ [Next]_vars => CertificateInv'
  BY NextCertificates
<1>3. CertificateInv => FinishedCertificateHasId
  BY DEF CertificateInv
<1>4. QED
  BY <1>1, <1>2, <1>3, PTL DEF Spec

-----------------------------------------------------------------------------
(* Submissions, as long as what retries save fits (SavesFit). *)

\* The task a dispatcher prepares is its own, and nothing works for it yet.
TasksApart ==
    \A d \in Dispatchers : PreparesPosts(d) =>
        /\ postTaskState[disp[d].postTask] # "absent" /\ postJob[disp[d].postTask] = "none"
        /\ \A e \in Dispatchers \ {d} : PreparesPosts(e) => disp[e].postTask # disp[d].postTask

\* A task that is not made has no job.
NewTasksWait == \A t \in PostTaskIds : postTaskState[t] = "absent" => postJob[t] = "none"

\* Once the posts of the task are collected, no other post joins it.
BatchIsTask ==
    \A d \in Dispatchers : disp[d].pc \in {"doingPostTask", "doingSubmit"} =>
        \A p \in Posts : postTaskId[p] = disp[d].postTask => p \in batch[disp[d].postTask]

CarriedByTask == \A p \in Posts : submitState[p] = "doing" => p \in batch[postTaskId[p]]

\* The finish handler of a post job runs after its posts have been pushed.
PushedByJob == \A t \in PostTaskIds : gen[t].pc # "none" => postJob[t] = "completed" /\ batch[t] \subseteq repo

\* The inductive invariant is PostInv and this.
CarryInv == TasksApart /\ NewTasksWait /\ BatchIsTask /\ CarriedByTask /\ PushedByJob

\* A step that has nothing to do with post tasks and starts no finish handler.
LEMMA ElsewhereCarried ==
    ASSUME PostInv, CarryInv, UNCHANGED <<disp, postJob, postTaskRows, postTaskId, repo>>,
           \A p \in Posts : submitState'[p] = "doing" => submitState[p] = "doing",
           \A t \in PostTaskIds : gen'[t].pc # "none" => gen[t].pc # "none"
    PROVE  CarryInv'
<1>1. TasksApart' /\ NewTasksWait' /\ BatchIsTask'
  BY DEF CarryInv, TasksApart, NewTasksWait, BatchIsTask, PreparesPosts
<1>2. CarriedByTask' /\ PushedByJob'
  BY DEF CarryInv, CarriedByTask, PushedByJob
<1>3. QED
  BY <1>1, <1>2 DEF CarryInv

\* New posts, certificates, link and generate handlers and publish jobs are elsewhere.
LEMMA OthersCarried ==
    ASSUME PostInv, CarryInv,
           \/ \E p \in Posts : SavePost(p)
           \/ \E c \in Certifiers : CertificateStep(c)
           \/ \E l \in Linkers : LinkStep(l)
           \/ \E c \in Callers : GenStep(c)
           \/ \E r \in Retriers : UpdatePublishOrderId(r)
           \/ RequestPublish
           \/ \E j \in PublishJobs : PublishJobStep(j)
    PROVE  CarryInv'
<1>1. ASSUME NEW p \in Posts, SavePost(p)
      PROVE  CarryInv'
  <2>1. \A q \in Posts : submitState'[q] = "doing" => submitState[q] = "doing"
    BY <1>1 DEF PostInv, TypeOK, SavePost
  <2>2. QED
    BY <1>1, <2>1, ElsewhereCarried DEF SavePost
<1>2. ASSUME NEW l \in Linkers, LinkStep(l)
      PROVE  CarryInv'
  <2>1. UNCHANGED <<submitState, disp, postJob, postTaskRows, postTaskId, repo, gen>>
    BY <1>2 DEF LinkStep, LinkRead, LinkCreate, LinkOrders, LinkIds, LinkPosts
  <2>2. QED
    BY <2>1, ElsewhereCarried
<1>3. ASSUME NEW j \in PublishJobs, PublishJobStep(j)
      PROVE  CarryInv'
  <2>1. UNCHANGED <<submitState, disp, postJob, postTaskRows, postTaskId, repo, gen>>
    BY <1>3 DEF PublishJobStep, PublishJobBuild, PublishJobCompleted, PublishJobFailed, FinishPublishTask,
                UpdateDomain, FinishPublishOrders, FinishPublishPosts, SetPublished,
                FailPublishTask, FailPublishOrders, FailPublishPosts, SetPublishFailed
  <2>2. QED
    BY <2>1, ElsewhereCarried
<1>4. ASSUME NEW c \in Certifiers, CertificateStep(c)
      PROVE  CarryInv'
  <2>1. UNCHANGED <<disp, postJob, postTaskRows, postTaskId, repo, gen>>
    BY <1>4 DEF CertificateStep, DoingCertificate, UploadCertificate, UploadFailed, FailCertificate
  <2>2. \A p \in Posts : submitState'[p] = "doing" => submitState[p] = "doing"
    BY <1>4 DEF CertificateStep, DoingCertificate, UploadCertificate, UploadFailed, FailCertificate, PostInv, TypeOK
  <2>3. QED
    BY <2>1, <2>2, ElsewhereCarried
<1>5. ASSUME NEW c \in Callers, GenStep(c)
      PROVE  CarryInv'
  <2>1. UNCHANGED <<submitState, disp, postJob, postTaskRows, postTaskId, repo>>
    BY <1>5 DEF GenStep, GenFind, GenCreate
  <2>2. gen[c].pc # "none" /\ \A b \in Callers \ {c} : gen'[b] = gen[b]
    BY <1>5 DEF GenStep, GenFind, GenCreate, PostInv, TypeOK
  <2>3. \A t \in PostTaskIds : gen'[t].pc # "none" => gen[t].pc # "none"
    BY <2>2 DEF Callers
  <2>4. QED
    BY <2>1, <2>3, ElsewhereCarried
<1>6. ASSUME NEW r \in Retriers, UpdatePublishOrderId(r)
      PROVE  CarryInv'
  <2>1. UNCHANGED <<submitState, disp, postJob, postTaskRows, postTaskId, repo>>
    BY <1>6 DEF UpdatePublishOrderId
  <2>2. \A t \in PostTaskIds : gen'[t] = gen[t]
    BY <1>6, NamesAssumption DEF UpdatePublishOrderId, PostInv, TypeOK, Callers
  <2>3. QED
    BY <2>1, <2>2, ElsewhereCarried
<1>7. CASE RequestPublish
  <2>1. UNCHANGED <<submitState, disp, postJob, postTaskRows, postTaskId, repo>>
    BY <1>7 DEF RequestPublish
  <2>2. \A t \in PostTaskIds : gen'[t] = gen[t]
    BY <1>7, NamesAssumption DEF RequestPublish, PostInv, TypeOK, Callers
  <2>3. QED
    BY <2>1, <2>2, ElsewhereCarried
<1>8. QED
  BY <1>1, <1>2, <1>3, <1>4, <1>5, <1>6, <1>7

\* A dispatcher that prepares no post job afterwards.
LEMMA DispatcherLeaves ==
    ASSUME PostInv, CarryInv, NEW d \in Dispatchers, Steps(d), ~PreparesPosts(d)',
           UNCHANGED <<submitState, postJob, postTaskRows, postTaskId, repo, gen>>
    PROVE  CarryInv'
<1>1. TasksApart' /\ BatchIsTask'
  BY DEF CarryInv, TasksApart, BatchIsTask, PreparesPosts, Steps
<1>2. NewTasksWait' /\ CarriedByTask' /\ PushedByJob'
  BY DEF CarryInv, NewTasksWait, CarriedByTask, PushedByJob
<1>3. QED
  BY <1>1, <1>2 DEF CarryInv

\* Steps of a dispatcher that have nothing to do with post jobs.
LEMMA DispatchLeaves ==
    ASSUME TypeOK, NEW d \in Dispatchers,
           \/ ReadPublishOrder(d) \/ ReadPostOrder(d) \/ RequestDispatch(d)
           \/ CheckPublish(d) \/ PickPending(d) \/ DoingPublishTask(d) \/ DoingPublishOrders(d)
           \/ DoingPublishPosts(d) \/ DoingPublishStatus(d) \/ DispatchPublish(d) \/ DispatchFailed(d)
    PROVE  Steps(d) /\ ~PreparesPosts(d)'
<1>1. CASE ReadPublishOrder(d)
  BY <1>1 DEF ReadPublishOrder, Idle, Steps, TypeOK, PreparesPosts
<1>2. CASE ReadPostOrder(d)
  BY <1>2 DEF ReadPostOrder, Idle, Steps, TypeOK, DispatcherRun, PreparesPosts
<1>3. CASE PickPending(d)
  BY <1>3 DEF PickPending, Idle, Steps, TypeOK, DispatcherRun, PreparesPosts
<1>4. CASE RequestDispatch(d) \/ CheckPublish(d)
  BY <1>4, Moves DEF RequestDispatch, CheckPublish, PreparesPosts
<1>5. CASE DoingPublishTask(d) \/ DoingPublishOrders(d) \/ DoingPublishPosts(d) \/ DoingPublishStatus(d)
  BY <1>5, Moves DEF DoingPublishTask, DoingPublishOrders, DoingPublishPosts, DoingPublishStatus, PreparesPosts
<1>6. CASE DispatchPublish(d)
  BY <1>6, Moves DEF DispatchPublish, PreparesPosts
<1>7. CASE DispatchFailed(d)
  BY <1>7, Moves DEF DispatchFailed, PreparesPosts
<1>8. QED
  BY <1>1, <1>2, <1>3, <1>4, <1>5, <1>6, <1>7

\* They keep the invariant.
LEMMA DispatchElsewhereCarried ==
    ASSUME PostInv, CarryInv, NEW d \in Dispatchers,
           \/ ReadPublishOrder(d) \/ ReadPostOrder(d) \/ RequestDispatch(d)
           \/ CheckPublish(d) \/ PickPending(d) \/ DoingPublishTask(d) \/ DoingPublishOrders(d)
           \/ DoingPublishPosts(d) \/ DoingPublishStatus(d) \/ DispatchPublish(d) \/ DispatchFailed(d)
    PROVE  CarryInv'
<1>1. UNCHANGED <<submitState, postJob, postTaskRows, postTaskId, repo, gen>>
  BY DEF ReadPublishOrder, ReadPostOrder, RequestDispatch, CheckPublish, PickPending, DoingPublishTask,
         DoingPublishOrders, DoingPublishPosts, DoingPublishStatus, DispatchPublish, DispatchFailed
<1>2. Steps(d) /\ ~PreparesPosts(d)'
  BY DispatchLeaves DEF PostInv
<1>3. QED
  BY <1>1, <1>2, DispatcherLeaves

\* A dispatcher that prepares a post job stays apart from the others when it moves on.
LEMMA StaysApart ==
    ASSUME PostInv, CarryInv, NEW d \in Dispatchers, Steps(d), PreparesPosts(d),
           disp'[d].postTask = disp[d].postTask, UNCHANGED postJob,
           postTaskState'[disp[d].postTask] # "absent",
           \A t \in PostTaskIds \ {disp[d].postTask} : postTaskState'[t] = postTaskState[t]
    PROVE  TasksApart' /\ NewTasksWait'
<1>1. PICK t \in PostTaskIds : t = disp[d].postTask
  BY DEF PostInv, DispatcherHasPostTask, PreparesPosts
<1>2. ASSUME NEW e \in Dispatchers, PreparesPosts(e)
      PROVE  disp[e].postTask \in PostTaskIds
  BY <1>2 DEF PostInv, DispatcherHasPostTask, PreparesPosts
<1>3. \A e \in Dispatchers \ {d} : PreparesPosts(e)' => PreparesPosts(e) /\ disp'[e] = disp[e]
  BY DEF Steps, PreparesPosts
<1>4. TasksApart'
  BY <1>1, <1>2, <1>3 DEF CarryInv, TasksApart
<1>5. NewTasksWait'
  BY <1>1 DEF CarryInv, NewTasksWait, TasksApart
<1>6. QED
  BY <1>4, <1>5

\* A dispatcher creates a task, gives it the pending posts, collects and marks them.
LEMMA PrepareCarried ==
    ASSUME PostInv, CarryInv, NEW d \in Dispatchers,
           CreatePostTask(d) \/ BatchPosts(d) \/ CollectPosts(d) \/ DoingPostTask(d) \/ DoingSubmitPost(d)
    PROVE  CarryInv'
<1>1. TypeOK
  BY DEF PostInv
<1>2. CASE CreatePostTask(d)
  <2>1. UNCHANGED <<submitState, postJob, batch, postTaskId, repo, gen>>
    BY <1>2 DEF CreatePostTask
  <2>2. CASE disp' = [disp EXCEPT ![d] = Idle] /\ UNCHANGED postTaskState
    <3>1. Steps(d) /\ disp'[d].pc = "idle"
      BY <1>1, <2>2, Moves
    <3>2. ~PreparesPosts(d)'
      BY <3>1 DEF PreparesPosts
    <3>3. QED
      BY <2>1, <2>2, <3>1, <3>2, DispatcherLeaves
  <2>3. CASE \E t \in PostTaskIds :
                /\ postTaskState[t] = "absent"
                /\ postTaskState' = [postTaskState EXCEPT ![t] = "pending"]
                /\ disp' = [disp EXCEPT ![d].pc = "batch", ![d].postTask = t]
    <3>1. PICK t \in PostTaskIds :
             /\ postTaskState[t] = "absent"
             /\ postTaskState' = [postTaskState EXCEPT ![t] = "pending"]
             /\ disp' = [disp EXCEPT ![d].pc = "batch", ![d].postTask = t]
      BY <2>3
    <3>2. disp[d] \in DispatcherRun /\ disp'[d] = [disp[d] EXCEPT !.pc = "batch", !.postTask = t] /\ Steps(d)
      BY <1>1, <3>1 DEF TypeOK, Steps
    <3>3. disp'[d].postTask = t /\ disp'[d].pc = "batch"
      BY <3>2 DEF DispatcherRun
    <3>4. postTaskState'[t] # "absent" /\ \A u \in PostTaskIds \ {t} : postTaskState'[u] = postTaskState[u]
      BY <1>1, <3>1 DEF TypeOK
    <3>5. postJob[t] = "none"
      BY <3>1 DEF CarryInv, NewTasksWait
    <3>6. \A e \in Dispatchers \ {d} : PreparesPosts(e)' =>
            PreparesPosts(e) /\ disp'[e] = disp[e] /\ disp[e].postTask \in PostTaskIds \ {t}
      BY <3>1, <3>2 DEF Steps, PreparesPosts, PostInv, DispatcherHasPostTask, CarryInv, TasksApart
    <3>7. TasksApart'
      BY <2>1, <3>3, <3>4, <3>5, <3>6 DEF CarryInv, TasksApart
    <3>8. NewTasksWait'
      BY <2>1, <3>4, <3>5 DEF CarryInv, NewTasksWait
    <3>9. BatchIsTask'
      BY <2>1, <3>2, <3>3 DEF CarryInv, BatchIsTask, Steps
    <3>10. CarriedByTask' /\ PushedByJob'
      BY <2>1 DEF CarryInv, CarriedByTask, PushedByJob
    <3>11. QED
      BY <3>7, <3>8, <3>9, <3>10 DEF CarryInv
  <2>4. QED
    BY <1>2, <2>2, <2>3 DEF CreatePostTask
<1>3. ASSUME BatchPosts(d) \/ CollectPosts(d) \/ DoingPostTask(d) \/ DoingSubmitPost(d)
      PROVE  /\ Steps(d) /\ PreparesPosts(d) /\ disp'[d].postTask = disp[d].postTask
             /\ disp[d].postTask \in PostTaskIds
             /\ TasksApart' /\ NewTasksWait'
  <2>1. Steps(d) /\ PreparesPosts(d) /\ disp'[d].postTask = disp[d].postTask
    BY <1>1, <1>3, Moves, MovesPosts DEF BatchPosts, CollectPosts, DoingPostTask, DoingSubmitPost, PreparesPosts
  <2>2. PICK t \in PostTaskIds : t = disp[d].postTask
    BY <2>1 DEF PostInv, DispatcherHasPostTask, PreparesPosts
  <2>3. postTaskState[t] # "absent" /\ UNCHANGED postJob
    BY <1>3, <2>1, <2>2 DEF CarryInv, TasksApart, BatchPosts, CollectPosts, DoingPostTask, DoingSubmitPost
  <2>4. postTaskState'[t] # "absent" /\ \A u \in PostTaskIds \ {t} : postTaskState'[u] = postTaskState[u]
    BY <1>1, <1>3, <2>2, <2>3 DEF BatchPosts, CollectPosts, DoingPostTask, DoingSubmitPost, TypeOK
  <2>5. QED
    BY <2>1, <2>2, <2>3, <2>4, StaysApart
<1>4. CASE BatchPosts(d)
  <2>1. disp[d].pc = "batch" /\ disp'[d].pc = "collect"
    BY <1>1, <1>4, Moves DEF BatchPosts
  <2>2. ASSUME NEW e \in Dispatchers, disp'[e].pc \in {"doingPostTask", "doingSubmit"},
               NEW p \in Posts, postTaskId'[p] = disp'[e].postTask
        PROVE  p \in batch'[disp'[e].postTask]
    <3>1. e # d /\ disp'[e] = disp[e]
      BY <1>3, <1>4, <2>1, <2>2 DEF Steps
    <3>2. PreparesPosts(e) /\ disp[e].postTask # disp[d].postTask
      BY <1>3, <1>4, <2>2, <3>1 DEF CarryInv, TasksApart, PreparesPosts
    <3>3. postTaskId'[p] = IF submitState[p] = "pending" THEN disp[d].postTask ELSE postTaskId[p]
      BY <1>4 DEF BatchPosts
    <3>4. postTaskId[p] = disp[e].postTask
      BY <2>2, <3>1, <3>2, <3>3
    <3>5. QED
      BY <1>4, <2>2, <3>1, <3>4 DEF CarryInv, BatchIsTask, BatchPosts
  <2>3. BatchIsTask'
    BY <2>2 DEF BatchIsTask
  <2>4. CarriedByTask' /\ PushedByJob'
    BY <1>4 DEF CarryInv, CarriedByTask, PushedByJob, BatchPosts
  <2>5. QED
    BY <1>3, <1>4, <2>3, <2>4 DEF CarryInv
<1>5. CASE CollectPosts(d)
  <2>1. PICK t \in PostTaskIds : t = disp[d].postTask
    BY <1>3, <1>5
  <2>2. /\ batch'[t] = {p \in Posts : postTaskId[p] = t}
        /\ \A u \in PostTaskIds \ {t} : batch'[u] = batch[u]
        /\ UNCHANGED <<submitState, postTaskId, postJob, repo, gen>>
    BY <1>1, <1>5, <2>1 DEF CollectPosts, TypeOK
  <2>3. ASSUME NEW e \in Dispatchers, disp'[e].pc \in {"doingPostTask", "doingSubmit"},
               NEW p \in Posts, postTaskId'[p] = disp'[e].postTask
        PROVE  p \in batch'[disp'[e].postTask]
    <3>1. CASE e = d
      BY <1>3, <1>5, <2>1, <2>2, <2>3, <3>1
    <3>2. CASE e # d
      <4>1. disp'[e] = disp[e]
        BY <1>3, <1>5, <3>2 DEF Steps
      <4>2. PreparesPosts(e) /\ disp[e].postTask \in PostTaskIds \ {t}
        BY <1>3, <1>5, <2>1, <2>3, <3>2, <4>1
           DEF CarryInv, TasksApart, PreparesPosts, PostInv, DispatcherHasPostTask
      <4>3. QED
        BY <2>2, <2>3, <4>1, <4>2 DEF CarryInv, BatchIsTask
    <3>3. QED
      BY <3>1, <3>2
  <2>4. BatchIsTask'
    BY <2>3 DEF BatchIsTask
  <2>5. CarriedByTask'
    <3>1. ASSUME NEW p \in Posts, submitState[p] = "doing"
          PROVE  p \in batch'[postTaskId[p]]
      <4>1. postTaskId[p] \in PostTaskIds /\ p \in batch[postTaskId[p]]
        BY <3>1 DEF PostInv, DoingPostIsOwned, CarryInv, CarriedByTask
      <4>2. QED
        BY <2>2, <4>1
    <3>2. QED
      BY <2>2, <3>1 DEF CarriedByTask
  <2>6. PushedByJob'
    <3>1. postJob[t] = "none"
      BY <1>3, <1>5, <2>1 DEF CarryInv, TasksApart
    <3>2. QED
      BY <2>2, <3>1 DEF CarryInv, PushedByJob
  <2>7. QED
    BY <1>3, <1>5, <2>4, <2>5, <2>6 DEF CarryInv
<1>6. CASE DoingPostTask(d)
  <2>1. UNCHANGED <<submitState, postTaskId, batch, postJob, repo, gen>>
    BY <1>6 DEF DoingPostTask
  <2>2. disp[d].pc = "doingPostTask"
    BY <1>6 DEF DoingPostTask
  <2>3. BatchIsTask'
    BY <1>3, <1>6, <2>1, <2>2 DEF CarryInv, BatchIsTask, Steps
  <2>4. CarriedByTask' /\ PushedByJob'
    BY <2>1 DEF CarryInv, CarriedByTask, PushedByJob
  <2>5. QED
    BY <1>3, <1>6, <2>3, <2>4 DEF CarryInv
<1>7. CASE DoingSubmitPost(d)
  <2>1. UNCHANGED <<postTaskId, batch, postJob, repo, gen>> /\ disp[d].pc = "doingSubmit" /\ disp'[d].pc = "postConfig"
    BY <1>1, <1>7, Moves DEF DoingSubmitPost
  <2>2. BatchIsTask'
    BY <1>3, <1>7, <2>1 DEF CarryInv, BatchIsTask, Steps
  <2>3. ASSUME NEW p \in Posts, submitState'[p] = "doing"
        PROVE  p \in batch[postTaskId[p]]
    <3>1. CASE postTaskId[p] = disp[d].postTask
      BY <2>1, <3>1 DEF CarryInv, BatchIsTask
    <3>2. CASE postTaskId[p] # disp[d].postTask
      BY <1>7, <2>3, <3>2 DEF DoingSubmitPost, CarryInv, CarriedByTask
    <3>3. QED
      BY <3>1, <3>2
  <2>4. CarriedByTask' /\ PushedByJob'
    BY <2>1, <2>3 DEF CarryInv, CarriedByTask, PushedByJob
  <2>5. QED
    BY <1>3, <1>7, <2>2, <2>4 DEF CarryInv
<1>8. QED
  BY <1>2, <1>4, <1>5, <1>6, <1>7

\* The job of t is queued, goes on or ends.
LEMMA JobCarried ==
    ASSUME PostInv, CarryInv, NEW t \in PostTaskIds, UNCHANGED postTaskId,
           \A d \in Dispatchers : PreparesPosts(d)' => PreparesPosts(d) /\ disp'[d] = disp[d] /\ disp[d].postTask # t,
           postTaskState'[t] # "absent", repo \subseteq repo',
           \A u \in PostTaskIds \ {t} :
               /\ postJob'[u] = postJob[u] /\ gen'[u] = gen[u]
               /\ batch'[u] = batch[u] /\ postTaskState'[u] = postTaskState[u],
           gen'[t].pc # "none" => postJob'[t] = "completed" /\ batch'[t] \subseteq repo',
           \A p \in Posts : submitState'[p] = "doing" =>
               submitState[p] = "doing" /\ (postTaskId[p] = t => p \in batch'[t])
    PROVE  CarryInv'
<1>1. \A d \in Dispatchers : PreparesPosts(d)' => disp'[d].postTask \in PostTaskIds \ {t}
  BY DEF PostInv, DispatcherHasPostTask, PreparesPosts
<1>2. TasksApart'
  BY <1>1 DEF CarryInv, TasksApart
<1>3. NewTasksWait'
  BY DEF CarryInv, NewTasksWait
<1>4. BatchIsTask'
  <2>1. SUFFICES ASSUME NEW d \in Dispatchers, disp'[d].pc \in {"doingPostTask", "doingSubmit"},
                        NEW p \in Posts, postTaskId'[p] = disp'[d].postTask
                 PROVE  p \in batch'[disp'[d].postTask]
    BY DEF BatchIsTask
  <2>2. PreparesPosts(d)'
    BY <2>1 DEF PreparesPosts
  <2>3. QED
    BY <1>1, <2>1, <2>2 DEF CarryInv, BatchIsTask
<1>5. CarriedByTask'
  <2>1. SUFFICES ASSUME NEW p \in Posts, submitState'[p] = "doing"
                 PROVE  p \in batch'[postTaskId[p]]
    BY DEF CarriedByTask
  <2>2. postTaskId[p] \in PostTaskIds /\ p \in batch[postTaskId[p]]
    BY <2>1 DEF PostInv, DoingPostIsOwned, CarryInv, CarriedByTask
  <2>3. QED
    BY <2>1, <2>2
<1>6. PushedByJob'
  BY DEF CarryInv, PushedByJob
<1>7. QED
  BY <1>2, <1>3, <1>4, <1>5, <1>6 DEF CarryInv

\* The dispatcher queues the job, or calls its fail handler.
LEMMA QueueCarried ==
    ASSUME PostInv, CarryInv, NEW d \in Dispatchers, DispatchPosts(d)
    PROVE  CarryInv'
<1>1. TypeOK
  BY DEF PostInv
<1>2. /\ Steps(d) /\ disp[d].pc = "postConfig" /\ disp'[d].pc \in {"idle", "awaitPost"}
  BY <1>1, Moves DEF DispatchPosts
<1>3. PICK t \in PostTaskIds : t = disp[d].postTask
  BY <1>2 DEF PostInv, DispatcherHasPostTask
<1>4. postTaskState[t] # "absent" /\ postJob[t] = "none"
  BY <1>2, <1>3 DEF CarryInv, TasksApart, PreparesPosts
<1>5. ASSUME NEW e \in Dispatchers, PreparesPosts(e)'
      PROVE  PreparesPosts(e) /\ disp'[e] = disp[e] /\ disp[e].postTask # t
  <2>1. e # d /\ disp'[e] = disp[e] /\ PreparesPosts(e) /\ PreparesPosts(d)
    BY <1>2, <1>5 DEF PreparesPosts, Steps
  <2>2. QED
    BY <1>3, <2>1 DEF CarryInv, TasksApart
<1>6. UNCHANGED <<submitState, postTaskId, postTaskState, batch, repo, gen>>
  BY DEF DispatchPosts
<1>7. \A u \in PostTaskIds \ {t} : postJob'[u] = postJob[u]
  BY <1>1, <1>3 DEF DispatchPosts, TypeOK
<1>8. gen[t].pc = "none"
  BY <1>4 DEF CarryInv, PushedByJob
<1>9. \A p \in Posts : submitState[p] = "doing" => p \in batch[postTaskId[p]]
  BY DEF CarryInv, CarriedByTask
<1>10. QED
  BY <1>4, <1>5, <1>6, <1>7, <1>8, <1>9, JobCarried

\* A post job, its handlers and its reports.
LEMMA PostJobCarried ==
    ASSUME PostInv, CarryInv, NEW t \in PostTaskIds,
           PostJobStep(t) \/ \E p \in Posts : ReportErrored(t, p)
    PROVE  CarryInv'
<1>1. TypeOK
  BY DEF PostInv
<1>2. postJob[t] # "none"
  <2>1. CASE FinishPostTask(t) \/ FinishSubmitPost(t)
    BY <2>1 DEF FinishPostTask, FinishSubmitPost, CarryInv, PushedByJob
  <2>2. CASE \/ PostJobCompleted(t) \/ PostJobFailed(t) \/ FailPostTask(t) \/ FailSubmitPosts(t)
             \/ \E p \in Posts : ReportErrored(t, p)
    BY <2>2 DEF PostJobCompleted, PostJobFailed, FailPostTask, FailSubmitPosts, ReportErrored
  <2>3. QED
    BY <2>1, <2>2 DEF PostJobStep
<1>3. UNCHANGED <<disp, postTaskId>>
  BY DEF PostJobStep, PostJobCompleted, PostJobFailed, FailPostTask, FailSubmitPosts, FinishPostTask,
         FinishSubmitPost, ReportErrored
<1>4. \A d \in Dispatchers : PreparesPosts(d)' => PreparesPosts(d) /\ disp'[d] = disp[d] /\ disp[d].postTask # t
  BY <1>2, <1>3 DEF PreparesPosts, CarryInv, TasksApart
<1>5. postTaskState[t] # "absent"
  BY <1>2 DEF CarryInv, NewTasksWait
<1>6. \A p \in Posts : submitState[p] = "doing" => p \in batch[postTaskId[p]]
  BY DEF CarryInv, CarriedByTask
<1>7. gen[t].pc # "none" => postJob[t] = "completed" /\ batch[t] \subseteq repo
  BY DEF CarryInv, PushedByJob
<1>8. CASE PostJobCompleted(t)
  <2>1. /\ UNCHANGED <<submitState, postTaskState, batch>>
        /\ repo' = repo \union batch[t] /\ postJob'[t] = "completed"
        /\ \A u \in PostTaskIds \ {t} : postJob'[u] = postJob[u] /\ gen'[u] = gen[u]
    BY <1>1, <1>8 DEF PostJobCompleted, TypeOK, Callers
  <2>2. QED
    BY <1>3, <1>4, <1>5, <1>6, <2>1, JobCarried
<1>9. CASE PostJobFailed(t)
  <2>1. /\ UNCHANGED <<submitState, postTaskState, batch, gen>>
        /\ repo \subseteq repo' /\ gen[t].pc = "none"
        /\ \A u \in PostTaskIds \ {t} : postJob'[u] = postJob[u]
    BY <1>1, <1>7, <1>9 DEF PostJobFailed, TypeOK
  <2>2. QED
    BY <1>3, <1>4, <1>5, <1>6, <2>1, JobCarried
<1>10. CASE FailPostTask(t)
  <2>1. /\ UNCHANGED <<submitState, batch, gen, repo>> /\ gen[t].pc = "none"
        /\ postTaskState'[t] # "absent"
        /\ \A u \in PostTaskIds \ {t} : postJob'[u] = postJob[u] /\ postTaskState'[u] = postTaskState[u]
    BY <1>1, <1>7, <1>10 DEF FailPostTask, TypeOK
  <2>2. QED
    BY <1>3, <1>4, <1>6, <2>1, JobCarried
<1>11. CASE FailSubmitPosts(t)
  <2>1. /\ UNCHANGED <<postTaskState, batch, gen, repo>> /\ gen[t].pc = "none"
        /\ \A u \in PostTaskIds \ {t} : postJob'[u] = postJob[u]
        /\ \A p \in Posts : submitState'[p] = "doing" => submitState[p] = "doing"
    BY <1>1, <1>7, <1>11 DEF FailSubmitPosts, TypeOK
  <2>2. QED
    BY <1>3, <1>4, <1>5, <1>6, <2>1, JobCarried
<1>12. CASE FinishPostTask(t)
  <2>1. /\ UNCHANGED <<submitState, batch, postJob, repo>> /\ gen[t].pc # "none"
        /\ postTaskState'[t] # "absent"
        /\ \A u \in PostTaskIds \ {t} : postTaskState'[u] = postTaskState[u] /\ gen'[u] = gen[u]
    BY <1>1, <1>12 DEF FinishPostTask, TypeOK, Callers
  <2>2. QED
    BY <1>3, <1>4, <1>6, <1>7, <2>1, JobCarried
<1>13. CASE FinishSubmitPost(t)
  <2>1. /\ UNCHANGED <<postTaskState, batch, repo>>
        /\ gen' = [gen EXCEPT ![t] = NoGen]
        /\ \A u \in PostTaskIds \ {t} : postJob'[u] = postJob[u]
        /\ \A p \in Posts : submitState'[p] = "doing" => submitState[p] = "doing"
    BY <1>1, <1>13 DEF FinishSubmitPost, TypeOK
  <2>2. gen'[t].pc = "none" /\ \A u \in PostTaskIds \ {t} : gen'[u] = gen[u]
    BY <1>1, <2>1 DEF TypeOK, Callers, NoGen
  <2>3. QED
    BY <1>3, <1>4, <1>5, <1>6, <2>1, <2>2, JobCarried
<1>14. ASSUME NEW q \in Posts, ReportErrored(t, q)
       PROVE  CarryInv'
  <2>1. /\ UNCHANGED <<postTaskState, postJob, gen, repo>> /\ gen[t].pc = "none"
        /\ batch' = [batch EXCEPT ![t] = @ \ {q}]
        /\ submitState' = [submitState EXCEPT ![q] = "failed"]
    BY <1>7, <1>14 DEF ReportErrored
  <2>2. batch'[t] = batch[t] \ {q} /\ \A u \in PostTaskIds \ {t} : batch'[u] = batch[u]
    BY <1>1, <2>1 DEF TypeOK
  <2>3. \A p \in Posts : submitState'[p] = "doing" => submitState[p] = "doing" /\ p # q
    BY <1>1, <2>1 DEF TypeOK
  <2>4. QED
    BY <1>3, <1>4, <1>5, <1>6, <2>1, <2>2, <2>3, JobCarried
<1>15. QED
  BY <1>8, <1>9, <1>10, <1>11, <1>12, <1>13, <1>14 DEF PostJobStep

\* Tasks that were being prepared stay as they are, and handlers are gone.
LEMMA RestartCarried ==
    ASSUME PostInv, CarryInv, Restart
    PROVE  CarryInv'
<1>1. disp' = [d \in Dispatchers |-> Idle] /\ gen' = [c \in Callers |-> NoGen]
  BY DEF Restart
<1>2. \A d \in Dispatchers : disp'[d].pc = "idle"
  BY <1>1 DEF Idle
<1>3. \A t \in PostTaskIds : gen'[t].pc = "none"
  BY <1>1 DEF NoGen, Callers
<1>4. TasksApart' /\ BatchIsTask'
  BY <1>2 DEF TasksApart, BatchIsTask, PreparesPosts
<1>5. NewTasksWait'
  <2>1. SUFFICES ASSUME NEW t \in PostTaskIds, postTaskState[t] = "absent"
                 PROVE  postJob'[t] = "none"
    BY DEF NewTasksWait, Restart
  <2>2. postJob[t] = "none" /\ ~DispatchingPost(t)
    BY <2>1 DEF CarryInv, NewTasksWait, TasksApart, DispatchingPost, PreparesPosts
  <2>3. QED
    BY <2>2 DEF Restart
<1>6. CarriedByTask' /\ PushedByJob'
  BY <1>3 DEF Restart, CarryInv, CarriedByTask, PushedByJob
<1>7. QED
  BY <1>4, <1>5, <1>6 DEF CarryInv

\* A retry reads the post, and saves it: into no task that is being prepared.
LEMMA RetryCarried ==
    ASSUME PostInv, CarryInv, SavesFit,
           \/ SweepFailed
           \/ \E p \in Posts : RetryRequest(p) \/ SweepRead(p)
           \/ \E r \in Retriers : RetrySave(r)
    PROVE  CarryInv'
<1>1. TypeOK
  BY DEF PostInv
<1>2. CASE SweepFailed
  BY <1>2, ElsewhereCarried DEF SweepFailed
<1>3. ASSUME NEW p \in Posts, RetryRequest(p) \/ SweepRead(p)
      PROVE  CarryInv'
  <2>1. UNCHANGED <<submitState, disp, postJob, postTaskRows, postTaskId, repo>>
    BY <1>3 DEF RetryRequest, SweepRead
  <2>2. gen' = gen \/ \E r \in Retriers : gen' = [gen EXCEPT ![r] = [GenStart EXCEPT !.task = postTaskId[r[1]]]]
    BY <1>3 DEF RetryRequest, SweepRead, ReadFailed, Row, Retriers
  <2>3. \A t \in PostTaskIds : gen'[t] = gen[t]
    BY <1>1, <2>2, NamesAssumption DEF TypeOK, Callers
  <2>4. QED
    BY <2>1, <2>3, ElsewhereCarried
<1>4. ASSUME NEW r \in Retriers, RetrySave(r)
      PROVE  CarryInv'
  <2>1. /\ UNCHANGED <<disp, postJob, postTaskRows, repo, gen>>
        /\ retry[r].row.submit # "doing"
        /\ \A d \in Dispatchers : PreparesPosts(d) => retry[r].row.task # disp[d].postTask
    BY <1>4 DEF RetrySave, SavesFit
  <2>2. /\ \A p \in Posts : postTaskId'[p] = IF p = r[1] THEN retry[r].row.task ELSE postTaskId[p]
        /\ \A p \in Posts : submitState'[p] = IF p = r[1] THEN retry[r].row.submit ELSE submitState[p]
    BY <1>1, <1>4 DEF RetrySave, TypeOK
  <2>3. TasksApart' /\ NewTasksWait' /\ PushedByJob'
    BY <2>1 DEF CarryInv, TasksApart, NewTasksWait, PushedByJob, PreparesPosts
  <2>4. BatchIsTask'
    BY <2>1, <2>2 DEF CarryInv, BatchIsTask, PreparesPosts
  <2>5. CarriedByTask'
    BY <2>1, <2>2 DEF CarryInv, CarriedByTask
  <2>6. QED
    BY <2>3, <2>4, <2>5 DEF CarryInv
<1>5. QED
  BY <1>2, <1>3, <1>4

\* Every step keeps the invariant,
LEMMA NextCarried ==
    ASSUME PostInv, CarryInv, SavesFit, [Next]_vars
    PROVE  PostInv' /\ CarryInv'
<1>1. PostInv'
  BY NextPosts
<1> SUFFICES CarryInv'
  BY <1>1
<1>2. CASE UNCHANGED vars
  BY <1>2, ElsewhereCarried DEF vars
<1>3. CASE Next
  <2>1. CASE \/ \E p \in Posts : SavePost(p) \/ RetryRequest(p) \/ SweepRead(p)
             \/ SweepFailed
             \/ \E r \in Retriers : RetrySave(r)
    BY <2>1, RetryCarried, OthersCarried
  <2>2. CASE \/ \E l \in Linkers : LinkStep(l)
             \/ \E c \in Callers : GenStep(c)
             \/ \E r \in Retriers : UpdatePublishOrderId(r)
             \/ RequestPublish
             \/ \E j \in PublishJobs : PublishJobStep(j)
             \/ \E c \in Certifiers : CertificateStep(c)
    BY <2>2, OthersCarried
  <2>3. ASSUME NEW d \in Dispatchers, DispatchStep(d) \/ RequestDispatch(d)
        PROVE  CarryInv'
    BY <2>3, DispatchElsewhereCarried, PrepareCarried, QueueCarried DEF DispatchStep
  <2>4. CASE \E t \in PostTaskIds : PostJobStep(t) \/ \E p \in Posts : ReportErrored(t, p)
    BY <2>4, PostJobCarried
  <2>5. CASE Restart
    BY <2>5, RestartCarried
  <2>6. QED
    BY <1>3, <2>1, <2>2, <2>3, <2>4, <2>5 DEF Next
<1>4. QED
  BY <1>2, <1>3

\* and only the finish handler of a post job, or a retry of a post that was pushed
\* before, ends a submission well.
LEMMA OnlyFinishSubmits ==
    ASSUME PostInv, CarryInv, SavesFit, [Next]_vars,
           NEW p \in Posts, submitState[p] = "doing", submitState'[p] = "finished"
    PROVE  p \in batch[postTaskId[p]] /\ p \in repo
<1>1. TypeOK
  BY DEF PostInv
<1>2. (\E t \in PostTaskIds : FinishSubmitPost(t)) \/ \E r \in Retriers : RetrySave(r)
  <2>1. Next
    BY DEF vars
  <2>2. ASSUME NEW q \in Posts
        PROVE  ~SavePost(q)
    BY <1>1 DEF SavePost, TypeOK
  <2>3. ~ \/ \E q \in Posts : RetryRequest(q) \/ SweepRead(q)
          \/ SweepFailed
    BY DEF RetryRequest, SweepRead, SweepFailed
  <2>4. ~ \E c \in Certifiers : CertificateStep(c)
    BY <1>1 DEF CertificateStep, DoingCertificate, UploadCertificate, UploadFailed, FailCertificate, TypeOK
  <2>5. ~ \E l \in Linkers : LinkStep(l)
    BY DEF LinkStep, LinkRead, LinkCreate, LinkOrders, LinkIds, LinkPosts
  <2>6. ~ ((\E c \in Callers : GenStep(c)) \/ (\E r \in Retriers : UpdatePublishOrderId(r)) \/ RequestPublish)
    BY DEF GenStep, GenFind, GenCreate, UpdatePublishOrderId, RequestPublish
  <2>7. ASSUME NEW d \in Dispatchers, DispatchStep(d) \/ RequestDispatch(d)
        PROVE  FALSE
    <3>1. submitState' = submitState \/ DoingSubmitPost(d)
      BY <2>7 DEF DispatchStep, RequestDispatch, ReadPublishOrder, ReadPostOrder, CheckPublish, PickPending,
                DoingPublishTask, DoingPublishOrders, DoingPublishPosts, DoingPublishStatus, DispatchPublish,
                CreatePostTask, BatchPosts, CollectPosts, DoingPostTask, DispatchPosts, DispatchFailed
    <3>2. QED
      BY <3>1 DEF DoingSubmitPost
  <2>8. ~ \E j \in PublishJobs : PublishJobStep(j)
    BY DEF PublishJobStep, PublishJobBuild, PublishJobCompleted, PublishJobFailed, FinishPublishTask,
           UpdateDomain, FinishPublishOrders, FinishPublishPosts, SetPublished,
           FailPublishTask, FailPublishOrders, FailPublishPosts, SetPublishFailed
  <2>9. ~ Restart
    BY DEF Restart
  <2>10. ~ \E t \in PostTaskIds, q \in Posts : ReportErrored(t, q)
    BY <1>1 DEF ReportErrored, TypeOK
  <2>11. ASSUME NEW t \in PostTaskIds, PostJobStep(t)
         PROVE  FinishSubmitPost(t)
    BY <2>11 DEF PostJobStep, PostJobCompleted, PostJobFailed, FailPostTask, FailSubmitPosts, FinishPostTask
  <2>12. QED
    BY <2>1, <2>2, <2>3, <2>4, <2>5, <2>6, <2>7, <2>8, <2>9, <2>10, <2>11 DEF Next
<1>3. ASSUME NEW r \in Retriers, RetrySave(r)
      PROVE  p \in batch[postTaskId[p]] /\ p \in repo
  <2>1. p = r[1] /\ retry[r].row.submit = "finished"
    BY <1>1, <1>3 DEF RetrySave, TypeOK
  <2>2. QED
    BY <1>3, <2>1 DEF RetrySave, SavesFit, CarryInv, CarriedByTask
<1>4. ASSUME NEW t \in PostTaskIds, FinishSubmitPost(t)
      PROVE  p \in batch[postTaskId[p]] /\ p \in repo
  <2>1. postTaskId[p] = t
    BY <1>1, <1>4 DEF FinishSubmitPost, TypeOK
  <2>2. gen[t].pc # "none"
    BY <1>4 DEF FinishSubmitPost
  <2>3. QED
    BY <2>1, <2>2 DEF CarryInv, CarriedByTask, PushedByJob
<1>5. QED
  BY <1>2, <1>3, <1>4

-----------------------------------------------------------------------------
(* Retries, where the posts of a task only fail together: no post has a       *)
(* certificate, and no worker reports a single post.                          *)

FailTogether == CertificateTypes = {} /\ MaxReports = 0

NothingCertified ==
    /\ \A c \in Certifiers : cert[c].pc = "none"
    /\ \A p \in Posts : certificateState[p] = ""
    /\ \A r \in Retriers : retry[r].pc = "save" => retry[r].row.certState = ""

\* The two states of a post go together, and only a post that has been pushed is
\* linked to a publish order.
StatesAgree ==
    \A p \in Posts :
        /\ submitState[p] = "absent" => postTaskId[p] = NoTask
        /\ submitState[p] \in {"absent", "pending"} => publishState[p] = submitState[p]
        /\ submitState[p] = "doing" => publishState[p] = "pending"
        /\ submitState[p] = "failed" => publishState[p] = "failed"
        /\ submitState[p] = "finished" => p \in repo
        /\ publishSiteOrderId[p] # NoId \/ publishSiteTaskId[p] # NoId => submitState[p] = "finished"

\* What is saved starts over: with the submission, or with the publication of a
\* post that has been pushed.
SavesStartOver ==
    \A r \in Retriers : retry[r].pc = "save" =>
        LET row == retry[r].row IN
        /\ row.publish = "pending" /\ row.order = NoId /\ row.publishTask = NoId
        /\ \/ row.submit = "pending" /\ row.task = NoTask
           \/ row.submit = "finished" /\ r[1] \in repo

\* The posts of a task are submitted together and fail together.
TasksAgree ==
    \A p, q \in Posts : postTaskId[p] # NoTask /\ postTaskId[q] = postTaskId[p] => submitState[q] = submitState[p]

\* The posts of a task that is being prepared wait until they are marked.
TasksWait ==
    /\ \A d \in Dispatchers, p \in Posts : PreparesPosts(d) /\ postTaskId[p] = disp[d].postTask =>
         submitState[p] = IF disp[d].pc = "postConfig" THEN "doing" ELSE "pending"
    /\ \A t \in PostTaskIds, p \in Posts : postTaskState[t] = "absent" => postTaskId[p] # t

\* The post tasks of the posts that are to be published again.
Retried(t) == \E r \in Retriers : \/ retry[r].pc = "save" /\ retry[r].row.task = t
                                  \/ gen[r].pc # "none" /\ gen[r].task = t

\* All their posts have been submitted, and stay so: what updatePublishOrderId
\* does to every post of the task is right for each of them.
RetriedTasks ==
    \A t \in PostTaskIds : Retried(t) =>
        /\ postTaskState[t] # "absent"
        /\ \A d \in Dispatchers : PreparesPosts(d) => disp[d].postTask # t
        /\ \A p \in Posts : postTaskId[p] = t => submitState[p] = "finished"

\* The inductive invariant is OwnershipInv, PostInv, CarryInv and this.
RetryInv == NothingCertified /\ StatesAgree /\ SavesStartOver /\ TasksAgree /\ TasksWait /\ RetriedTasks

\* It is what makes the saves of stale rows harmless.
LEMMA RetriesFit ==
    ASSUME PostInv, RetryInv
    PROVE  SavesFit
<1>1. SUFFICES ASSUME NEW r \in Retriers, retry[r].pc = "save"
               PROVE  /\ retry[r].row.submit # "doing"
                      /\ retry[r].row.submit = "finished" => r[1] \in repo
                      /\ \A d \in Dispatchers : PreparesPosts(d) => retry[r].row.task # disp[d].postTask
  BY DEF SavesFit
<1>2. /\ retry[r].row.submit # "doing"
      /\ retry[r].row.submit = "finished" => r[1] \in repo
  BY <1>1 DEF RetryInv, SavesStartOver
<1>3. ASSUME NEW d \in Dispatchers, PreparesPosts(d)
      PROVE  retry[r].row.task # disp[d].postTask
  <2>1. disp[d].postTask \in PostTaskIds
    BY <1>3 DEF PostInv, DispatcherHasPostTask, PreparesPosts
  <2>2. Retried(retry[r].row.task)
    BY <1>1 DEF Retried
  <2>3. QED
    BY <1>3, <2>1, <2>2 DEF RetryInv, RetriedTasks
<1>4. QED
  BY <1>2, <1>3

\* A step that leaves the submissions and the post tasks alone, and publishes
\* submitted posts at most.
LEMMA QuietRetries ==
    ASSUME RetryInv, UNCHANGED <<submitState, postTaskId, certificateState>>, repo \subseteq repo',
           \A c \in Certifiers : cert'[c].pc = "none",
           \A p \in Posts : submitState[p] # "finished" =>
               /\ publishState'[p] = publishState[p]
               /\ publishSiteOrderId'[p] = publishSiteOrderId[p] /\ publishSiteTaskId'[p] = publishSiteTaskId[p],
           \A t \in PostTaskIds : postTaskState'[t] = "absent" => postTaskState[t] = "absent",
           \A d \in Dispatchers : PreparesPosts(d)' =>
               /\ PreparesPosts(d) /\ disp'[d].postTask = disp[d].postTask
               /\ disp'[d].pc = "postConfig" <=> disp[d].pc = "postConfig",
           \A r \in Retriers : retry'[r].pc = "save" => retry'[r] = retry[r],
           \A r \in Retriers : gen'[r].pc # "none" => gen[r].pc # "none" /\ gen'[r].task = gen[r].task
    PROVE  RetryInv'
<1>1. NothingCertified'
  <2>1. ASSUME NEW r \in Retriers, retry'[r].pc = "save"
        PROVE  retry'[r].row.certState = ""
    <3>1. retry'[r] = retry[r]
      BY <2>1
    <3>2. retry[r].pc = "save"
      BY <2>1, <3>1
    <3>3. retry[r].row.certState = ""
      BY <3>2 DEF RetryInv, NothingCertified
    <3>4. QED
      BY <3>1, <3>3
  <2>2. \A p \in Posts : certificateState'[p] = ""
    BY DEF RetryInv, NothingCertified
  <2>3. QED
    BY <2>1, <2>2 DEF NothingCertified
<1>2. StatesAgree'
  BY DEF RetryInv, StatesAgree
<1>3. SavesStartOver'
  BY DEF RetryInv, SavesStartOver
<1>4. TasksAgree'
  BY DEF RetryInv, TasksAgree
<1>5. TasksWait'
  BY DEF RetryInv, TasksWait
<1>6. RetriedTasks'
  <2>1. SUFFICES ASSUME NEW t \in PostTaskIds, Retried(t)'
                 PROVE  /\ postTaskState'[t] # "absent"
                        /\ \A d \in Dispatchers : PreparesPosts(d)' => disp'[d].postTask # t
                        /\ \A p \in Posts : postTaskId'[p] = t => submitState'[p] = "finished"
    BY DEF RetriedTasks
  <2>2. Retried(t)
    BY <2>1 DEF Retried
  <2>3. QED
    BY <2>2 DEF RetryInv, RetriedTasks
<1>7. QED
  BY <1>1, <1>2, <1>3, <1>4, <1>5, <1>6 DEF RetryInv

\* A new post is in no task, and asks for no certificate.
LEMMA SaveRetries ==
    ASSUME TypeOK, RetryInv, FailTogether, NEW p \in Posts, SavePost(p)
    PROVE  RetryInv'
<1>1. /\ submitState[p] = "absent" /\ postTaskId[p] = NoTask
      /\ UNCHANGED <<postTaskId, publishSiteOrderId, publishSiteTaskId, certificateState, postTaskState,
                     disp, retry, gen, repo>>
  BY DEF SavePost, RetryInv, StatesAgree
<1>2. /\ submitState'[p] = "pending" /\ publishState'[p] = "pending"
      /\ \A q \in Posts \ {p} : submitState'[q] = submitState[q] /\ publishState'[q] = publishState[q]
  BY DEF SavePost, TypeOK
<1>3. NothingCertified'
  <2>1. cert' = [cert EXCEPT ![<<p, "save">>] = NoCert]
    BY DEF SavePost, FailTogether, CertStart
  <2>2. \A c \in Certifiers : cert'[c].pc = "none"
    BY <2>1 DEF TypeOK, NoCert, RetryInv, NothingCertified
  <2>3. QED
    BY <1>1, <2>2 DEF RetryInv, NothingCertified
<1>4. StatesAgree'
  BY <1>1, <1>2 DEF RetryInv, StatesAgree
<1>5. SavesStartOver'
  BY <1>1 DEF RetryInv, SavesStartOver
<1>6. TasksAgree'
  BY <1>1, <1>2 DEF RetryInv, TasksAgree
<1>7. TasksWait'
  <2>1. ASSUME NEW d \in Dispatchers, NEW q \in Posts, PreparesPosts(d), postTaskId[q] = disp[d].postTask
        PROVE  submitState'[q] = submitState[q]
    <3>1. submitState[q] # "absent"
      BY <2>1 DEF RetryInv, TasksWait
    <3>2. QED
      BY <1>1, <1>2, <3>1
  <2>2. QED
    BY <1>1, <2>1 DEF RetryInv, TasksWait, PreparesPosts
<1>8. RetriedTasks'
  BY <1>1, <1>2 DEF RetryInv, RetriedTasks, Retried, PreparesPosts
<1>9. QED
  BY <1>3, <1>4, <1>5, <1>6, <1>7, <1>8 DEF RetryInv

\* The rows a retry makes of the post it has read.
LEMMA StartsOver ==
    ASSUME NEW p \in Posts
    PROVE  /\ Resubmitted(Row(p)).submit = "pending" /\ Resubmitted(Row(p)).publish = "pending"
           /\ Resubmitted(Row(p)).task = NoTask
           /\ Resubmitted(Row(p)).order = publishSiteOrderId[p]
           /\ Resubmitted(Row(p)).publishTask = publishSiteTaskId[p]
           /\ Resubmitted(Row(p)).certState = certificateState[p]
           /\ Republished(Row(p)).submit = submitState[p] /\ Republished(Row(p)).publish = "pending"
           /\ Republished(Row(p)).task = postTaskId[p]
           /\ Republished(Row(p)).order = NoId /\ Republished(Row(p)).publishTask = NoId
           /\ Republished(Row(p)).certState = certificateState[p]
BY DEF Resubmitted, Republished, Row

\* The row that a retry has read starts over, and the task of a submitted post is
\* as its posts are.
LEMMA ReadRetries ==
    ASSUME PostInv, RetryInv, NEW r \in Retriers, ReadFailed(r),
           UNCHANGED <<submitState, publishState, postTaskId, publishSiteOrderId, publishSiteTaskId,
                       certificateState, postTaskState, disp, repo>>
    PROVE  RetryInv'
<1> DEFINE p == r[1]
<1>1. TypeOK /\ p \in Posts /\ r \in Callers
  BY DEF PostInv, Retriers, Callers
<1>2. certificateState[p] = "" /\ UNCHANGED cert
  BY <1>1 DEF ReadFailed, Row, RetryInv, NothingCertified
<1>3. \/ /\ submitState[p] = "failed"
         /\ retry' = [retry EXCEPT ![r] = [pc |-> "save", row |-> Resubmitted(Row(p))]]
         /\ gen' = gen
      \/ /\ submitState[p] = "finished"
         /\ retry' = [retry EXCEPT ![r] = [pc |-> "save", row |-> Republished(Row(p))]]
         /\ gen' = [gen EXCEPT ![r] = [GenStart EXCEPT !.task = postTaskId[p]]]
  <2>1. submitState[p] # "failed" /\ publishState[p] = "failed" => submitState[p] = "finished"
    BY <1>1 DEF RetryInv, StatesAgree, TypeOK, RowState
  <2>2. QED
    BY <1>2, <2>1 DEF ReadFailed, Row
<1>4. /\ retry'[r].pc = "save" /\ retry'[r].row.publish = "pending"
      /\ retry'[r].row.certState = "" /\ retry'[r].row.order = NoId /\ retry'[r].row.publishTask = NoId
      /\ \/ submitState[p] = "failed" /\ retry'[r].row.submit = "pending" /\ retry'[r].row.task = NoTask
         \/ submitState[p] = "finished" /\ retry'[r].row.submit = "finished" /\ retry'[r].row.task = postTaskId[p]
  <2>1. CASE submitState[p] = "failed"
    <3>1. retry'[r] = [pc |-> "save", row |-> Resubmitted(Row(p))]
      BY <1>1, <1>3, <2>1 DEF TypeOK
    <3>2. /\ publishSiteOrderId[p] = NoId /\ publishSiteTaskId[p] = NoId
      BY <1>1, <2>1 DEF RetryInv, StatesAgree
    <3>3. retry'[r].pc = "save" /\ retry'[r].row = Resubmitted(Row(p))
      BY <3>1
    <3>4. QED
      BY <1>1, <1>2, <2>1, <3>2, <3>3, StartsOver
  <2>2. CASE submitState[p] # "failed"
    <3>1. retry'[r] = [pc |-> "save", row |-> Republished(Row(p))] /\ submitState[p] = "finished"
      BY <1>1, <1>3, <2>2 DEF TypeOK
    <3>2. retry'[r].pc = "save" /\ retry'[r].row = Republished(Row(p))
      BY <3>1
    <3>3. QED
      BY <1>1, <1>2, <2>2, <3>1, <3>2, StartsOver
  <2>3. QED
    BY <2>1, <2>2
<1>5. \A s \in Retriers \ {r} : retry'[s] = retry[s] /\ gen'[s] = gen[s]
  BY <1>1, <1>3 DEF TypeOK, Callers
<1>6. gen'[r] = gen[r] \/ (submitState[p] = "finished" /\ gen'[r].task = postTaskId[p])
  <2>1. CASE gen' = gen
    BY <2>1
  <2>2. CASE submitState[p] = "finished" /\ gen' = [gen EXCEPT ![r] = [GenStart EXCEPT !.task = postTaskId[p]]]
    <3>1. gen'[r] = [GenStart EXCEPT !.task = postTaskId[p]]
      BY <1>1, <2>2 DEF TypeOK
    <3>2. QED
      BY <2>2, <3>1 DEF GenStart, NoGen
  <2>3. QED
    BY <1>3, <2>1, <2>2
<1>7. NothingCertified'
  BY <1>2, <1>4, <1>5 DEF RetryInv, NothingCertified
<1>8. SavesStartOver'
  <2>1. submitState[p] = "finished" => p \in repo
    BY <1>1 DEF RetryInv, StatesAgree
  <2>2. ASSUME NEW s \in Retriers, retry'[s].pc = "save"
        PROVE  /\ retry'[s].row.publish = "pending" /\ retry'[s].row.order = NoId /\ retry'[s].row.publishTask = NoId
               /\ \/ retry'[s].row.submit = "pending" /\ retry'[s].row.task = NoTask
                  \/ retry'[s].row.submit = "finished" /\ s[1] \in repo
    <3>1. CASE s = r
      BY <1>4, <2>1, <3>1
    <3>2. CASE s # r
      <4>1. retry[s].pc = "save" /\ retry'[s].row = retry[s].row
        BY <1>5, <2>2, <3>2
      <4>2. QED
        BY <4>1 DEF RetryInv, SavesStartOver
    <3>3. QED
      BY <3>1, <3>2
  <2>3. QED
    BY <2>2 DEF SavesStartOver
<1>9. StatesAgree' /\ TasksAgree' /\ TasksWait'
  BY DEF RetryInv, StatesAgree, TasksAgree, TasksWait, PreparesPosts
<1>10. RetriedTasks'
  <2>1. SUFFICES ASSUME NEW t \in PostTaskIds, Retried(t)'
                 PROVE  /\ postTaskState[t] # "absent"
                        /\ \A d \in Dispatchers : PreparesPosts(d) => disp[d].postTask # t
                        /\ \A q \in Posts : postTaskId[q] = t => submitState[q] = "finished"
    BY DEF RetriedTasks, PreparesPosts
  <2>2. Retried(t) \/ (submitState[p] = "finished" /\ postTaskId[p] = t)
    <3>1. PICK s \in Retriers : \/ retry'[s].pc = "save" /\ retry'[s].row.task = t
                                \/ gen'[s].pc # "none" /\ gen'[s].task = t
      BY <2>1 DEF Retried
    <3>2. CASE s # r
      <4>1. retry'[s] = retry[s] /\ gen'[s] = gen[s]
        BY <1>5, <3>2
      <4>2. QED
        BY <3>1, <4>1 DEF Retried
    <3>3. CASE s = r /\ retry'[s].row.task = t
      <4>1. retry'[r].row.task = t /\ t # NoTask
        BY <3>3, NamesAssumption
      <4>2. QED
        BY <1>4, <4>1
    <3>4. CASE s = r /\ gen'[s].pc # "none" /\ gen'[s].task = t
      <4>1. gen'[r].pc # "none" /\ gen'[r].task = t
        BY <3>4
      <4>2. CASE gen'[r] = gen[r]
        <5>1. gen[r].pc # "none" /\ gen[r].task = t
          BY <4>1, <4>2
        <5>2. QED
          BY <5>1 DEF Retried
      <4>3. QED
        BY <1>6, <4>1, <4>2
    <3>5. QED
      BY <3>1, <3>2, <3>3, <3>4
  <2>3. CASE Retried(t)
    BY <2>3 DEF RetryInv, RetriedTasks
  <2>4. CASE submitState[p] = "finished" /\ postTaskId[p] = t
    <3>1. \A q \in Posts : postTaskId[q] = t => submitState[q] = "finished"
      BY <1>1, <2>4, NamesAssumption DEF RetryInv, TasksAgree
    <3>2. postTaskState[t] # "absent"
      BY <1>1, <2>4 DEF RetryInv, TasksWait
    <3>3. \A d \in Dispatchers : PreparesPosts(d) => disp[d].postTask # t
      BY <1>1, <2>4 DEF RetryInv, TasksWait
    <3>4. QED
      BY <3>1, <3>2, <3>3
  <2>5. QED
    BY <2>2, <2>3, <2>4
<1>11. QED
  BY <1>7, <1>8, <1>9, <1>10 DEF RetryInv

\* The save takes the post out of its task, or puts it back into a submitted one.
LEMMA WriteRetries ==
    ASSUME PostInv, RetryInv, NEW r \in Retriers, RetrySave(r)
    PROVE  RetryInv'
<1> DEFINE p == r[1]
<1>1. TypeOK /\ p \in Posts
  BY DEF PostInv, Retriers
<1> DEFINE row == retry[r].row
<1>2. /\ row.publish = "pending" /\ row.order = NoId /\ row.publishTask = NoId /\ row.certState = ""
      /\ \/ row.submit = "pending" /\ row.task = NoTask
         \/ row.submit = "finished" /\ p \in repo
  BY DEF RetrySave, RetryInv, SavesStartOver, NothingCertified
<1>3. /\ submitState'[p] = row.submit /\ publishState'[p] = row.publish /\ postTaskId'[p] = row.task
      /\ publishSiteOrderId'[p] = row.order /\ publishSiteTaskId'[p] = row.publishTask
      /\ certificateState'[p] = row.certState
  BY <1>1 DEF RetrySave, TypeOK
<1>4. \A q \in Posts \ {p} :
         /\ submitState'[q] = submitState[q] /\ publishState'[q] = publishState[q] /\ postTaskId'[q] = postTaskId[q]
         /\ publishSiteOrderId'[q] = publishSiteOrderId[q] /\ publishSiteTaskId'[q] = publishSiteTaskId[q]
         /\ certificateState'[q] = certificateState[q]
  BY <1>1 DEF RetrySave, TypeOK
<1>5. UNCHANGED <<postTaskState, disp, cert, gen, repo>>
  BY DEF RetrySave
<1>6. retry'[r].pc = "none" /\ \A s \in Retriers \ {r} : retry'[s] = retry[s]
  BY <1>1 DEF RetrySave, NoRetry, TypeOK
<1>7. Retried(row.task)
  BY DEF RetrySave, Retried
<1>8. row.task \in PostTaskIds =>
        /\ row.submit = "finished" /\ postTaskState[row.task] # "absent"
        /\ \A d \in Dispatchers : PreparesPosts(d) => disp[d].postTask # row.task
        /\ \A q \in Posts : postTaskId[q] = row.task => submitState[q] = "finished"
  BY <1>2, <1>7, NamesAssumption DEF RetryInv, RetriedTasks
<1>9. NothingCertified' /\ SavesStartOver'
  <2>1. NothingCertified'
    <3>1. \A q \in Posts : certificateState'[q] = ""
      BY <1>2, <1>3, <1>4 DEF RetryInv, NothingCertified
    <3>2. \A s \in Retriers : retry'[s].pc = "save" => s # r
      BY <1>6
    <3>3. \A s \in Retriers : retry'[s].pc = "save" => retry'[s].row.certState = ""
      BY <1>6, <3>2 DEF RetryInv, NothingCertified
    <3>4. QED
      BY <1>5, <3>1, <3>3 DEF RetryInv, NothingCertified
  <2>2. SavesStartOver'
    <3>1. SUFFICES ASSUME NEW s \in Retriers \ {r}, retry[s].pc = "save"
                   PROVE  /\ retry[s].row.publish = "pending"
                          /\ retry[s].row.order = NoId /\ retry[s].row.publishTask = NoId
                          /\ \/ retry[s].row.submit = "pending" /\ retry[s].row.task = NoTask
                             \/ retry[s].row.submit = "finished" /\ s[1] \in repo
      BY <1>5, <1>6 DEF SavesStartOver
    <3>2. QED
      BY <3>1 DEF RetryInv, SavesStartOver
  <2>3. QED
    BY <2>1, <2>2
<1>10. StatesAgree'
  <2>1. SUFFICES ASSUME NEW q \in Posts
                 PROVE  (/\ submitState[q] = "absent" => postTaskId[q] = NoTask
                         /\ submitState[q] \in {"absent", "pending"} => publishState[q] = submitState[q]
                         /\ submitState[q] = "doing" => publishState[q] = "pending"
                         /\ submitState[q] = "failed" => publishState[q] = "failed"
                         /\ submitState[q] = "finished" => q \in repo
                         /\ publishSiteOrderId[q] # NoId \/ publishSiteTaskId[q] # NoId => submitState[q] = "finished")'
    BY DEF StatesAgree
  <2>2. CASE q = p
    BY <1>2, <1>3, <1>5, <2>2
  <2>3. CASE q # p
    BY <1>4, <1>5, <2>3 DEF RetryInv, StatesAgree
  <2>4. QED
    BY <2>2, <2>3
<1>11. TasksAgree'
  <2>1. row.task \in PostTaskIds \union {NoTask}
    BY <1>1 DEF RetrySave, TypeOK, RetryRun, PostRow
  <2>2. QED
    BY <1>3, <1>4, <1>8, <2>1 DEF RetryInv, TasksAgree
<1>12. TasksWait'
  <2>1. \A d \in Dispatchers : PreparesPosts(d) => disp[d].postTask \in PostTaskIds
    BY DEF PostInv, DispatcherHasPostTask, PreparesPosts
  <2>2. QED
    BY <1>3, <1>4, <1>5, <1>8, <2>1 DEF RetryInv, TasksWait, PreparesPosts
<1>13. RetriedTasks'
  <2>1. SUFFICES ASSUME NEW t \in PostTaskIds, Retried(t)'
                 PROVE  /\ postTaskState'[t] # "absent"
                        /\ \A d \in Dispatchers : PreparesPosts(d)' => disp'[d].postTask # t
                        /\ \A q \in Posts : postTaskId'[q] = t => submitState'[q] = "finished"
    BY DEF RetriedTasks
  <2>2. Retried(t)
    BY <1>5, <1>6, <2>1 DEF Retried
  <2>3. QED
    BY <1>3, <1>4, <1>5, <1>8, <2>2 DEF RetryInv, RetriedTasks, PreparesPosts
<1>14. QED
  BY <1>9, <1>10, <1>11, <1>12, <1>13 DEF RetryInv

\* Steps of a dispatcher that have nothing to do with post jobs; posts that are
\* marked for a publication are linked to it.
LEMMA DispatchElsewhereRetries ==
    ASSUME OwnershipInv, PostInv, RetryInv, NEW d \in Dispatchers,
           \/ ReadPublishOrder(d) \/ ReadPostOrder(d) \/ RequestDispatch(d)
           \/ CheckPublish(d) \/ PickPending(d) \/ DoingPublishTask(d) \/ DoingPublishOrders(d)
           \/ DoingPublishPosts(d) \/ DoingPublishStatus(d) \/ DispatchPublish(d) \/ DispatchFailed(d)
    PROVE  RetryInv'
<1>1. Steps(d) /\ ~PreparesPosts(d)'
  BY DispatchLeaves DEF PostInv
<1>2. \A e \in Dispatchers : PreparesPosts(e)' => PreparesPosts(e) /\ disp'[e] = disp[e]
  BY <1>1 DEF Steps, PreparesPosts
<1>3. UNCHANGED <<submitState, postTaskId, publishSiteOrderId, publishSiteTaskId, certificateState, cert,
                  postTaskState, retry, gen, repo>>
  BY DEF ReadPublishOrder, ReadPostOrder, RequestDispatch, CheckPublish, PickPending, DoingPublishTask,
         DoingPublishOrders, DoingPublishPosts, DoingPublishStatus, DispatchPublish, DispatchFailed
<1>4. ASSUME NEW p \in Posts, submitState[p] # "finished"
      PROVE  publishState'[p] = publishState[p]
  <2>1. CASE DoingPublishPosts(d)
    <3>1. disp[d].publishTask # NoId
      BY <2>1 DEF DoingPublishPosts, OwnershipInv, DispatcherHasTask, PublishTaskIds, NoId
    <3>2. publishSiteTaskId[p] = NoId
      BY <1>4 DEF RetryInv, StatesAgree
    <3>3. QED
      BY <2>1, <3>1, <3>2 DEF DoingPublishPosts
  <2>2. CASE publishState' = publishState
    BY <2>2
  <2>3. QED
    BY <2>1, <2>2 DEF ReadPublishOrder, ReadPostOrder, RequestDispatch, CheckPublish, PickPending,
         DoingPublishTask, DoingPublishOrders, DoingPublishStatus, DispatchPublish, DispatchFailed
<1>5. \A c \in Certifiers : cert'[c].pc = "none"
  BY <1>3 DEF RetryInv, NothingCertified
<1>6. QED
  BY <1>2, <1>3, <1>4, <1>5, QuietRetries

\* A dispatcher creates a task, gives it the pending posts, collects and marks them.
LEMMA PrepareRetries ==
    ASSUME PostInv, CarryInv, RetryInv, NEW d \in Dispatchers,
           \/ CreatePostTask(d) \/ BatchPosts(d) \/ CollectPosts(d) \/ DoingPostTask(d)
           \/ DoingSubmitPost(d) \/ DispatchPosts(d)
    PROVE  RetryInv'
<1>1. TypeOK /\ (\A e \in Dispatchers : PreparesPosts(e) => disp[e].postTask \in PostTaskIds)
  BY DEF PostInv, DispatcherHasPostTask, PreparesPosts
<1>2. UNCHANGED <<publishState, publishSiteOrderId, publishSiteTaskId, certificateState, cert, retry, gen, repo>>
  BY DEF CreatePostTask, BatchPosts, CollectPosts, DoingPostTask, DoingSubmitPost, DispatchPosts
<1>3. NothingCertified' /\ SavesStartOver'
  BY <1>2 DEF RetryInv, NothingCertified, SavesStartOver
<1>4. \A c \in Certifiers : cert'[c].pc = "none"
  BY <1>2 DEF RetryInv, NothingCertified
<1>5. CASE CreatePostTask(d)
  <2>1. UNCHANGED <<submitState, postTaskId>>
    BY <1>5 DEF CreatePostTask
  <2>2. CASE disp' = [disp EXCEPT ![d] = Idle] /\ UNCHANGED postTaskState
    <3>1. Steps(d) /\ disp'[d].pc = "idle"
      BY <1>1, <2>2, Moves
    <3>2. \A e \in Dispatchers : PreparesPosts(e)' => PreparesPosts(e) /\ disp'[e] = disp[e]
      BY <3>1 DEF PreparesPosts, Steps
    <3>3. QED
      BY <1>2, <1>4, <2>1, <2>2, <3>2, QuietRetries
  <2>3. CASE \E t \in PostTaskIds :
                /\ postTaskState[t] = "absent"
                /\ postTaskState' = [postTaskState EXCEPT ![t] = "pending"]
                /\ disp' = [disp EXCEPT ![d].pc = "batch", ![d].postTask = t]
    <3>1. PICK t \in PostTaskIds :
             /\ postTaskState[t] = "absent"
             /\ postTaskState' = [postTaskState EXCEPT ![t] = "pending"]
             /\ disp' = [disp EXCEPT ![d].pc = "batch", ![d].postTask = t]
      BY <2>3
    <3>2. disp[d] \in DispatcherRun /\ disp'[d] = [disp[d] EXCEPT !.pc = "batch", !.postTask = t] /\ Steps(d)
      BY <1>1, <3>1 DEF TypeOK, Steps
    <3>3. disp'[d].postTask = t /\ disp'[d].pc = "batch"
      BY <3>2 DEF DispatcherRun
    <3>4. postTaskState'[t] = "pending" /\ \A u \in PostTaskIds \ {t} : postTaskState'[u] = postTaskState[u]
      BY <1>1, <3>1 DEF TypeOK
    <3>5. StatesAgree' /\ TasksAgree'
      BY <1>2, <2>1 DEF RetryInv, StatesAgree, TasksAgree
    <3>6. \A p \in Posts : postTaskId[p] # t
      BY <3>1 DEF RetryInv, TasksWait
    <3>7. TasksWait'
      <4>1. ASSUME NEW e \in Dispatchers, NEW p \in Posts, PreparesPosts(e)', postTaskId[p] = disp'[e].postTask
            PROVE  submitState[p] = IF disp'[e].pc = "postConfig" THEN "doing" ELSE "pending"
        <5>1. e # d
          BY <3>3, <3>6, <4>1
        <5>2. disp'[e] = disp[e] /\ PreparesPosts(e)
          BY <3>2, <4>1, <5>1 DEF Steps, PreparesPosts
        <5>3. QED
          BY <4>1, <5>2 DEF RetryInv, TasksWait
      <4>2. \A u \in PostTaskIds, p \in Posts : postTaskState'[u] = "absent" => postTaskId[p] # u
        BY <3>4 DEF RetryInv, TasksWait
      <4>3. QED
        BY <2>1, <4>1, <4>2 DEF TasksWait
    <3>8. ~Retried(t)
      BY <3>1 DEF RetryInv, RetriedTasks
    <3>9. RetriedTasks'
      <4>1. SUFFICES ASSUME NEW u \in PostTaskIds, Retried(u)'
                     PROVE  /\ postTaskState'[u] # "absent"
                            /\ \A e \in Dispatchers : PreparesPosts(e)' => disp'[e].postTask # u
                            /\ \A p \in Posts : postTaskId'[p] = u => submitState'[p] = "finished"
        BY DEF RetriedTasks
      <4>2. Retried(u) /\ u # t
        BY <1>2, <3>8, <4>1 DEF Retried
      <4>3. ASSUME NEW e \in Dispatchers, PreparesPosts(e)'
            PROVE  disp'[e].postTask # u
        <5>1. CASE e = d
          BY <3>3, <4>2, <5>1
        <5>2. CASE e # d
          <6>1. disp'[e] = disp[e] /\ PreparesPosts(e)
            BY <3>2, <4>3, <5>2 DEF Steps, PreparesPosts
          <6>2. QED
            BY <4>2, <6>1 DEF RetryInv, RetriedTasks
        <5>3. QED
          BY <5>1, <5>2
      <4>4. QED
        BY <2>1, <3>4, <4>2, <4>3 DEF RetryInv, RetriedTasks
    <3>10. QED
      BY <1>3, <3>5, <3>7, <3>9 DEF RetryInv
  <2>4. QED
    BY <1>5, <2>2, <2>3 DEF CreatePostTask
<1>6. CASE BatchPosts(d)
  <2>1. /\ Steps(d) /\ disp[d].pc = "batch"
        /\ disp'[d].pc = "collect" /\ disp'[d].postTask = disp[d].postTask
    BY <1>1, <1>6, Moves, MovesPosts DEF BatchPosts
  <2>2. UNCHANGED <<submitState, postTaskState>> /\ PreparesPosts(d)
    BY <1>6, <2>1 DEF BatchPosts, PreparesPosts
  <2>3. PICK t \in PostTaskIds : t = disp[d].postTask
    BY <1>1, <2>2
  <2>4. \A p \in Posts : postTaskId'[p] = IF submitState[p] = "pending" THEN t ELSE postTaskId[p]
    BY <1>6, <2>3 DEF BatchPosts
  <2>5. \A p \in Posts : postTaskId[p] = t => submitState[p] = "pending"
    BY <2>1, <2>2, <2>3 DEF RetryInv, TasksWait
  <2>6. \A e \in Dispatchers \ {d} : PreparesPosts(e) => disp[e].postTask \in PostTaskIds \ {t}
    BY <1>1, <2>2, <2>3 DEF CarryInv, TasksApart
  <2>7. StatesAgree'
    BY <1>2, <2>2, <2>4 DEF RetryInv, StatesAgree
  <2>8. TasksAgree'
    BY <2>2, <2>4, <2>5 DEF RetryInv, TasksAgree
  <2>9. TasksWait'
    <3>1. ASSUME NEW e \in Dispatchers, NEW p \in Posts, PreparesPosts(e)', postTaskId'[p] = disp'[e].postTask
          PROVE  submitState'[p] = IF disp'[e].pc = "postConfig" THEN "doing" ELSE "pending"
      <4>1. CASE e = d
        BY <2>1, <2>2, <2>3, <2>4, <2>5, <3>1, <4>1
      <4>2. CASE e # d
        <5>1. disp'[e] = disp[e] /\ PreparesPosts(e)
          BY <2>1, <3>1, <4>2 DEF Steps, PreparesPosts
        <5>2. postTaskId[p] = disp[e].postTask
          BY <2>4, <2>6, <3>1, <4>2, <5>1
        <5>3. QED
          BY <2>2, <5>1, <5>2 DEF RetryInv, TasksWait
      <4>3. QED
        BY <4>1, <4>2
    <3>2. postTaskState[t] # "absent"
      BY <2>2, <2>3 DEF CarryInv, TasksApart
    <3>3. \A u \in PostTaskIds, p \in Posts : postTaskState'[u] = "absent" => postTaskId'[p] # u
      BY <2>2, <2>4, <3>2 DEF RetryInv, TasksWait
    <3>4. QED
      BY <3>1, <3>3 DEF TasksWait
  <2>10. RetriedTasks'
    <3>1. SUFFICES ASSUME NEW u \in PostTaskIds, Retried(u)'
                   PROVE  /\ postTaskState'[u] # "absent"
                          /\ \A e \in Dispatchers : PreparesPosts(e)' => disp'[e].postTask # u
                          /\ \A p \in Posts : postTaskId'[p] = u => submitState'[p] = "finished"
      BY DEF RetriedTasks
    <3>2. Retried(u)
      BY <1>2, <3>1 DEF Retried
    <3>3. u # t
      BY <2>2, <2>3, <3>2 DEF RetryInv, RetriedTasks
    <3>4. QED
      BY <2>1, <2>2, <2>3, <2>4, <3>2, <3>3 DEF RetryInv, RetriedTasks, PreparesPosts, Steps
  <2>11. QED
    BY <1>3, <2>7, <2>8, <2>9, <2>10 DEF RetryInv
<1>7. CASE CollectPosts(d) \/ DoingPostTask(d)
  <2>1. /\ Steps(d) /\ disp[d].pc \in {"collect", "doingPostTask"}
        /\ disp'[d].pc \in {"doingPostTask", "doingSubmit"} /\ disp'[d].postTask = disp[d].postTask
    BY <1>1, <1>7, Moves, MovesPosts DEF CollectPosts, DoingPostTask
  <2>2. \A e \in Dispatchers : PreparesPosts(e)' =>
            /\ PreparesPosts(e) /\ disp'[e].postTask = disp[e].postTask
            /\ disp'[e].pc = "postConfig" <=> disp[e].pc = "postConfig"
    BY <2>1 DEF PreparesPosts, Steps
  <2>3. UNCHANGED <<submitState, postTaskId>> /\ \A t \in PostTaskIds : postTaskState'[t] = "absent" => postTaskState[t] = "absent"
    BY <1>1, <1>7 DEF CollectPosts, DoingPostTask, TypeOK
  <2>4. QED
    BY <1>2, <1>4, <2>2, <2>3, QuietRetries
<1>8. CASE DispatchPosts(d)
  <2>1. Steps(d) /\ disp'[d].pc \in {"idle", "awaitPost"}
    BY <1>1, <1>8, Moves DEF DispatchPosts
  <2>2. \A e \in Dispatchers : PreparesPosts(e)' => PreparesPosts(e) /\ disp'[e] = disp[e]
    BY <2>1 DEF PreparesPosts, Steps
  <2>3. UNCHANGED <<submitState, postTaskId, postTaskState>>
    BY <1>8 DEF DispatchPosts
  <2>4. QED
    BY <1>2, <1>4, <2>2, <2>3, QuietRetries
<1>9. CASE DoingSubmitPost(d)
  <2>1. /\ Steps(d) /\ disp[d].pc = "doingSubmit"
        /\ disp'[d].pc = "postConfig" /\ disp'[d].postTask = disp[d].postTask
    BY <1>1, <1>9, Moves, MovesPosts DEF DoingSubmitPost
  <2>2. UNCHANGED <<postTaskId, postTaskState>> /\ PreparesPosts(d)
    BY <1>9, <2>1 DEF DoingSubmitPost, PreparesPosts
  <2>3. PICK t \in PostTaskIds : t = disp[d].postTask
    BY <1>1, <2>2
  <2>4. \A p \in Posts : submitState'[p] = IF postTaskId[p] = t THEN "doing" ELSE submitState[p]
    BY <1>9, <2>3 DEF DoingSubmitPost
  <2>5. \A p \in Posts : postTaskId[p] = t => submitState[p] = "pending"
    BY <2>1, <2>2, <2>3 DEF RetryInv, TasksWait
  <2>6. \A e \in Dispatchers \ {d} : PreparesPosts(e) => disp[e].postTask \in PostTaskIds \ {t}
    BY <1>1, <2>2, <2>3 DEF CarryInv, TasksApart
  <2>7. StatesAgree'
    <3>1. SUFFICES ASSUME NEW p \in Posts
                   PROVE  (/\ submitState[p] = "absent" => postTaskId[p] = NoTask
                           /\ submitState[p] \in {"absent", "pending"} => publishState[p] = submitState[p]
                           /\ submitState[p] = "doing" => publishState[p] = "pending"
                           /\ submitState[p] = "failed" => publishState[p] = "failed"
                           /\ submitState[p] = "finished" => p \in repo
                           /\ publishSiteOrderId[p] # NoId \/ publishSiteTaskId[p] # NoId => submitState[p] = "finished")'
      BY DEF StatesAgree
    <3>2. CASE postTaskId[p] = t
      BY <1>2, <2>2, <2>4, <2>5, <3>2 DEF RetryInv, StatesAgree
    <3>3. CASE postTaskId[p] # t
      BY <1>2, <2>2, <2>4, <3>3 DEF RetryInv, StatesAgree
    <3>4. QED
      BY <3>2, <3>3
  <2>8. TasksAgree'
    BY <2>2, <2>4 DEF RetryInv, TasksAgree
  <2>9. TasksWait'
    BY <2>1, <2>2, <2>3, <2>4, <2>6 DEF RetryInv, TasksWait, PreparesPosts, Steps
  <2>10. RetriedTasks'
    <3>1. SUFFICES ASSUME NEW u \in PostTaskIds, Retried(u)'
                   PROVE  /\ postTaskState'[u] # "absent"
                          /\ \A e \in Dispatchers : PreparesPosts(e)' => disp'[e].postTask # u
                          /\ \A p \in Posts : postTaskId'[p] = u => submitState'[p] = "finished"
      BY DEF RetriedTasks
    <3>2. Retried(u)
      BY <1>2, <3>1 DEF Retried
    <3>3. u # t
      BY <2>2, <2>3, <3>2 DEF RetryInv, RetriedTasks
    <3>4. QED
      BY <2>1, <2>2, <2>3, <2>4, <3>2, <3>3 DEF RetryInv, RetriedTasks, PreparesPosts, Steps
  <2>11. QED
    BY <1>3, <2>7, <2>8, <2>9, <2>10 DEF RetryInv
<1>10. QED
  BY <1>5, <1>6, <1>7, <1>8, <1>9

\* The posts of a job that are doing end together, failed or submitted.
LEMMA EndRetries ==
    ASSUME PostInv, CarryInv, RetryInv, NEW t \in PostTaskIds, FailSubmitPosts(t) \/ FinishSubmitPost(t)
    PROVE  RetryInv'
<1>1. TypeOK /\ UNCHANGED <<postTaskId, publishSiteTaskId, certificateState, cert, postTaskState, disp, retry, repo>>
  BY DEF PostInv, FailSubmitPosts, FinishSubmitPost
<1>2. \A r \in Retriers : gen'[r] = gen[r]
  BY <1>1, NamesAssumption DEF FailSubmitPosts, FinishSubmitPost, TypeOK, Callers
<1> DEFINE ended(p) == postTaskId[p] = t /\ submitState[p] = "doing"
<1>3. \A p \in Posts : ~ended(p) =>
         /\ submitState'[p] = submitState[p] /\ publishState'[p] = publishState[p]
         /\ publishSiteOrderId'[p] = publishSiteOrderId[p]
  BY DEF FailSubmitPosts, FinishSubmitPost
<1>4. PICK end \in {"failed", "finished"} :
         \A p \in Posts : ended(p) =>
            /\ submitState'[p] = end
            /\ end = "failed" => publishState'[p] = "failed" /\ publishSiteOrderId'[p] = publishSiteOrderId[p]
            /\ end = "finished" => p \in repo
  <2>1. CASE FailSubmitPosts(t)
    BY <2>1 DEF FailSubmitPosts
  <2>2. CASE FinishSubmitPost(t)
    <3>1. \A p \in Posts : ended(p) => p \in repo
      BY <2>2 DEF FinishSubmitPost, CarryInv, CarriedByTask, PushedByJob
    <3>2. \A p \in Posts : ended(p) => submitState'[p] = "finished"
      BY <2>2 DEF FinishSubmitPost
    <3>3. QED
      BY <3>1, <3>2
  <2>3. QED
    BY <2>1, <2>2
<1>5. postJob[t] # "none"
  BY DEF FailSubmitPosts, FinishSubmitPost, CarryInv, PushedByJob
<1>6. NothingCertified' /\ SavesStartOver'
  BY <1>1 DEF RetryInv, NothingCertified, SavesStartOver
<1>7. StatesAgree'
  <2>1. SUFFICES ASSUME NEW p \in Posts
                 PROVE  (/\ submitState[p] = "absent" => postTaskId[p] = NoTask
                         /\ submitState[p] \in {"absent", "pending"} => publishState[p] = submitState[p]
                         /\ submitState[p] = "doing" => publishState[p] = "pending"
                         /\ submitState[p] = "failed" => publishState[p] = "failed"
                         /\ submitState[p] = "finished" => p \in repo
                         /\ publishSiteOrderId[p] # NoId \/ publishSiteTaskId[p] # NoId => submitState[p] = "finished")'
    BY DEF StatesAgree
  <2>2. CASE ended(p)
    <3>1. publishSiteOrderId[p] = NoId /\ publishSiteTaskId[p] = NoId
      BY <2>2 DEF RetryInv, StatesAgree
    <3>2. QED
      BY <1>1, <1>4, <2>2, <3>1
  <2>3. CASE ~ended(p)
    BY <1>1, <1>3, <2>3 DEF RetryInv, StatesAgree
  <2>4. QED
    BY <2>2, <2>3
<1>8. TasksAgree'
  <2>1. SUFFICES ASSUME NEW p \in Posts, NEW q \in Posts, postTaskId[p] # NoTask, postTaskId[q] = postTaskId[p]
                 PROVE  submitState'[q] = submitState'[p]
    BY <1>1 DEF TasksAgree
  <2>2. submitState[q] = submitState[p]
    BY <2>1 DEF RetryInv, TasksAgree
  <2>3. QED
    BY <1>3, <1>4, <2>1, <2>2
<1>9. TasksWait'
  <2>1. \A d \in Dispatchers : PreparesPosts(d) => disp[d].postTask # t
    BY <1>5 DEF CarryInv, TasksApart
  <2>2. QED
    BY <1>1, <1>3, <2>1 DEF RetryInv, TasksWait, PreparesPosts
<1>10. RetriedTasks'
  <2>1. SUFFICES ASSUME NEW u \in PostTaskIds, Retried(u)'
                 PROVE  /\ postTaskState'[u] # "absent"
                        /\ \A e \in Dispatchers : PreparesPosts(e)' => disp'[e].postTask # u
                        /\ \A p \in Posts : postTaskId'[p] = u => submitState'[p] = "finished"
    BY DEF RetriedTasks
  <2>2. Retried(u)
    BY <1>1, <1>2, <2>1 DEF Retried
  <2>3. \A p \in Posts : postTaskId[p] = u => ~ended(p)
    BY <2>2 DEF RetryInv, RetriedTasks
  <2>4. QED
    BY <1>1, <1>3, <2>2, <2>3 DEF RetryInv, RetriedTasks, PreparesPosts
<1>11. QED
  BY <1>6, <1>7, <1>8, <1>9, <1>10 DEF RetryInv

\* Handlers that generate, link, publish or push do not disturb it.
LEMMA OthersRetries ==
    ASSUME OwnershipInv, PostInv, RetryInv, FailTogether,
           \/ SweepFailed
           \/ \E c \in Certifiers : CertificateStep(c)
           \/ \E l \in Linkers : LinkStep(l)
           \/ \E c \in Callers : GenStep(c)
           \/ \E r \in Retriers : UpdatePublishOrderId(r)
           \/ RequestPublish
           \/ \E j \in PublishJobs : PublishJobStep(j)
           \/ \E t \in PostTaskIds : \/ PostJobCompleted(t) \/ PostJobFailed(t) \/ FailPostTask(t) \/ FinishPostTask(t)
                                     \/ \E p \in Posts : ReportErrored(t, p)
           \/ Restart
    PROVE  RetryInv'
<1>1. TypeOK /\ \A c \in Certifiers : cert[c].pc = "none"
  BY DEF PostInv, RetryInv, NothingCertified
<1>2. CASE SweepFailed
  <2>1. UNCHANGED <<postRows, certificateState, postTaskState, disp, gen, cert, repo>>
    BY <1>2 DEF SweepFailed
  <2>2. \A r \in Retriers : retry'[r].pc = "save" => retry'[r] = retry[r]
    <3>1. SUFFICES ASSUME NEW r \in Retriers, retry'[r] # retry[r]
                   PROVE  retry'[r].pc # "save"
      OBVIOUS
    <3>2. retry[r] \in RetryRun /\ retry'[r] = [retry[r] EXCEPT !.pc = "read"]
      BY <1>1, <1>2, <3>1 DEF SweepFailed, TypeOK
    <3>3. QED
      BY <3>2 DEF RetryRun
  <2>3. QED
    BY <1>1, <2>1, <2>2, QuietRetries DEF PreparesPosts
<1>3. CASE \E c \in Certifiers : CertificateStep(c)
  BY <1>1, <1>3 DEF CertificateStep, DoingCertificate, UploadCertificate, UploadFailed, FailCertificate
<1>4. ASSUME NEW l \in Linkers, LinkStep(l)
      PROVE  RetryInv'
  <2>1. UNCHANGED <<submitState, publishState, postTaskId, publishSiteOrderId, certificateState, cert,
                    postTaskState, disp, retry, gen, repo>>
    BY <1>4 DEF LinkStep, LinkRead, LinkCreate, LinkOrders, LinkIds, LinkPosts
  <2>2. ASSUME NEW p \in Posts, submitState[p] # "finished"
        PROVE  publishSiteTaskId'[p] = publishSiteTaskId[p]
    <3>1. publishSiteOrderId[p] = NoId
      BY <2>2 DEF RetryInv, StatesAgree
    <3>2. NoId \notin link[l].orders
      BY <1>1 DEF TypeOK, LinkRun, OrderIds, NoId
    <3>3. QED
      BY <1>4, <3>1, <3>2 DEF LinkStep, LinkRead, LinkCreate, LinkOrders, LinkIds, LinkPosts
  <2>3. QED
    BY <1>1, <2>1, <2>2, QuietRetries DEF PreparesPosts
<1>5. ASSUME NEW c \in Callers, GenStep(c)
      PROVE  RetryInv'
  <2>1. UNCHANGED <<postRows, certificateState, cert, postTaskState, disp, retry, repo>>
    BY <1>5 DEF GenStep, GenFind, GenCreate
  <2>2. ASSUME NEW r \in Retriers, gen'[r].pc # "none"
        PROVE  gen[r].pc # "none" /\ gen'[r].task = gen[r].task
    <3>1. r \in Callers /\ r # OrderRequest /\ gen[r] \in GenRun
      BY <1>1, NamesAssumption DEF Callers, TypeOK
    <3>2. CASE r # c
      BY <1>1, <1>5, <2>2, <3>1, <3>2 DEF GenStep, GenFind, GenCreate, TypeOK
    <3>3. CASE r = c
      <4>1. gen[r].pc # "none"
        BY <1>5, <3>3 DEF GenStep, GenFind, GenCreate
      <4>2. \/ gen'[r] = [gen[r] EXCEPT !.pc = "create"]
            \/ \E o : gen'[r] = GenReturn(r, o)
        BY <1>1, <1>5, <3>1, <3>3 DEF GenStep, GenFind, GenCreate, TypeOK
      <4>3. \A o : GenReturn(r, o).task = gen[r].task
        BY <3>1 DEF GenReturn, GenRun
      <4>4. QED
        BY <3>1, <4>1, <4>2, <4>3 DEF GenRun
    <3>4. QED
      BY <3>2, <3>3
  <2>3. QED
    BY <1>1, <2>1, <2>2, QuietRetries DEF PreparesPosts
<1>6. ASSUME NEW r \in Retriers, UpdatePublishOrderId(r)
      PROVE  RetryInv'
  <2>1. UNCHANGED <<submitState, publishState, postTaskId, publishSiteTaskId, certificateState, cert,
                    postTaskState, disp, retry, repo>>
    BY <1>6 DEF UpdatePublishOrderId
  <2>2. gen'[r].pc = "none" /\ \A s \in Retriers \ {r} : gen'[s] = gen[s]
    BY <1>1, <1>6 DEF UpdatePublishOrderId, TypeOK, Callers, NoGen
  <2>3. ASSUME NEW p \in Posts, submitState[p] # "finished"
        PROVE  publishSiteOrderId'[p] = publishSiteOrderId[p]
    <3>1. gen[r].task \in PostTaskIds \union {NoTask}
      BY <1>1 DEF TypeOK, Callers, GenRun
    <3>2. Retried(gen[r].task)
      BY <1>6 DEF UpdatePublishOrderId, Retried
    <3>3. postTaskId[p] # gen[r].task \/ gen[r].task = NoTask
      BY <2>3, <3>1, <3>2 DEF RetryInv, RetriedTasks
    <3>4. QED
      BY <1>6, <3>3 DEF UpdatePublishOrderId
  <2>4. QED
    BY <1>1, <2>1, <2>2, <2>3, QuietRetries DEF PreparesPosts
<1>7. CASE RequestPublish
  <2>1. UNCHANGED <<postRows, certificateState, cert, postTaskState, disp, retry, repo>>
    BY <1>7 DEF RequestPublish
  <2>2. \A r \in Retriers : gen'[r] = gen[r]
    BY <1>1, <1>7, NamesAssumption DEF RequestPublish, TypeOK, Callers
  <2>3. QED
    BY <1>1, <2>1, <2>2, QuietRetries DEF PreparesPosts
<1>8. ASSUME NEW j \in PublishJobs, PublishJobStep(j)
      PROVE  RetryInv'
  <2>1. UNCHANGED <<submitState, postTaskId, publishSiteOrderId, publishSiteTaskId, certificateState, cert,
                    postTaskState, disp, retry, gen, repo>>
    BY <1>8 DEF PublishJobStep, PublishJobBuild, PublishJobCompleted, PublishJobFailed, FinishPublishTask,
                UpdateDomain, FinishPublishOrders, FinishPublishPosts, SetPublished,
                FailPublishTask, FailPublishOrders, FailPublishPosts, SetPublishFailed
  <2>2. ASSUME NEW p \in Posts, submitState[p] # "finished"
        PROVE  publishState'[p] = publishState[p]
    <3>1. publishSiteTaskId[p] # j[1]
      BY <2>2 DEF RetryInv, StatesAgree, PublishJobs, PublishTaskIds, NoId
    <3>2. QED
      BY <1>8, <3>1 DEF PublishJobStep, PublishJobBuild, PublishJobCompleted, PublishJobFailed, FinishPublishTask,
                UpdateDomain, FinishPublishOrders, FinishPublishPosts, SetPublished,
                FailPublishTask, FailPublishOrders, FailPublishPosts, SetPublishFailed
  <2>3. QED
    BY <1>1, <2>1, <2>2, QuietRetries DEF PreparesPosts
<1>9. ASSUME NEW t \in PostTaskIds, PostJobCompleted(t) \/ PostJobFailed(t) \/ FailPostTask(t) \/ FinishPostTask(t)
      PROVE  RetryInv'
  <2>1. UNCHANGED <<postRows, certificateState, cert, disp, retry>> /\ repo \subseteq repo'
    BY <1>9 DEF PostJobCompleted, PostJobFailed, FailPostTask, FinishPostTask
  <2>2. \A u \in PostTaskIds : postTaskState'[u] = "absent" => postTaskState[u] = "absent"
    BY <1>1, <1>9 DEF PostJobCompleted, PostJobFailed, FailPostTask, FinishPostTask, TypeOK
  <2>3. \A r \in Retriers : gen'[r] = gen[r]
    BY <1>1, <1>9, NamesAssumption DEF PostJobCompleted, PostJobFailed, FailPostTask, FinishPostTask, TypeOK, Callers
  <2>4. QED
    BY <1>1, <2>1, <2>2, <2>3, QuietRetries DEF PreparesPosts
<1>10. ASSUME NEW t \in PostTaskIds, NEW p \in Posts, ReportErrored(t, p)
       PROVE  FALSE
  BY <1>1, <1>10 DEF ReportErrored, TypeOK, FailTogether
<1>11. CASE Restart
  <2>1. UNCHANGED <<postRows, certificateState, postTaskState, repo>>
    BY <1>11 DEF Restart
  <2>2. /\ \A d \in Dispatchers : disp'[d].pc = "idle"
        /\ \A r \in Retriers : retry'[r].pc = "none" /\ gen'[r].pc = "none"
        /\ \A c \in Certifiers : cert'[c].pc = "none"
    BY <1>11 DEF Restart, Idle, NoRetry, NoGen, NoCert, Callers
  <2>3. \A d \in Dispatchers : ~PreparesPosts(d)'
    BY <2>2 DEF PreparesPosts
  <2>4. QED
    BY <2>1, <2>2, <2>3, QuietRetries
<1>12. QED
  BY <1>2, <1>3, <1>4, <1>5, <1>6, <1>7, <1>8, <1>9, <1>10, <1>11

\* Every step keeps the invariant.
LEMMA NextRetries ==
    ASSUME OwnershipInv, PostInv, CarryInv, RetryInv, FailTogether, [Next]_vars
    PROVE  RetryInv'
<1>1. TypeOK
  BY DEF PostInv
<1>2. CASE UNCHANGED vars
  <2>1. \A c \in Certifiers : cert'[c].pc = "none"
    BY <1>2 DEF vars, RetryInv, NothingCertified
  <2>2. QED
    BY <1>2, <2>1, QuietRetries DEF vars, PreparesPosts
<1>3. CASE Next
  <2>1. ASSUME NEW p \in Posts, SavePost(p) \/ RetryRequest(p) \/ SweepRead(p)
        PROVE  RetryInv'
    <3>1. CASE SavePost(p)
      BY <1>1, <3>1, SaveRetries
    <3>2. CASE RetryRequest(p)
      <4>1. <<p, "request">> \in Retriers
        BY DEF Retriers
      <4>2. QED
        BY <3>2, <4>1, ReadRetries DEF RetryRequest
    <3>3. CASE SweepRead(p)
      <4>1. <<p, "sweep">> \in Retriers
        BY DEF Retriers
      <4>2. CASE ReadFailed(<<p, "sweep">>)
        BY <3>3, <4>1, <4>2, ReadRetries DEF SweepRead
      <4>3. CASE retry' = [retry EXCEPT ![<<p, "sweep">>] = NoRetry] /\ UNCHANGED <<gen, cert>>
        <5>1. UNCHANGED <<postRows, certificateState, postTaskState, disp, gen, cert, repo>>
          BY <3>3, <4>3 DEF SweepRead
        <5>2. \A r \in Retriers : retry'[r].pc = "save" => retry'[r] = retry[r]
          BY <1>1, <4>3 DEF NoRetry, TypeOK
        <5>3. \A c \in Certifiers : cert'[c].pc = "none"
          BY <5>1 DEF RetryInv, NothingCertified
        <5>4. QED
          BY <5>1, <5>2, <5>3, QuietRetries DEF PreparesPosts
      <4>4. QED
        BY <3>3, <4>2, <4>3 DEF SweepRead
    <3>4. QED
      BY <2>1, <3>1, <3>2, <3>3
  <2>2. CASE \E r \in Retriers : RetrySave(r)
    BY <2>2, WriteRetries
  <2>3. CASE \/ SweepFailed
             \/ \E c \in Certifiers : CertificateStep(c)
             \/ \E l \in Linkers : LinkStep(l)
             \/ \E c \in Callers : GenStep(c)
             \/ \E r \in Retriers : UpdatePublishOrderId(r)
             \/ RequestPublish
             \/ \E j \in PublishJobs : PublishJobStep(j)
             \/ Restart
    BY <2>3, OthersRetries
  <2>4. ASSUME NEW d \in Dispatchers, DispatchStep(d) \/ RequestDispatch(d)
        PROVE  RetryInv'
    BY <2>4, DispatchElsewhereRetries, PrepareRetries DEF DispatchStep
  <2>5. CASE \E t \in PostTaskIds : PostJobStep(t) \/ \E p \in Posts : ReportErrored(t, p)
    BY <2>5, OthersRetries, EndRetries DEF PostJobStep
  <2>6. QED
    BY <1>3, <2>1, <2>2, <2>3, <2>4, <2>5 DEF Next
<1>4. QED
  BY <1>2, <1>3

\* The backend starts with none of it.
LEMMA InitPosts == Init => PostInv /\ CarryInv /\ RetryInv
<1> SUFFICES ASSUME Init
             PROVE  PostInv /\ CarryInv /\ RetryInv
  OBVIOUS
<1>1. /\ disp = [d \in Dispatchers |-> Idle]
      /\ retry = [r \in Retriers |-> NoRetry]
      /\ gen = [c \in Callers |-> IF c = OrderRequest /\ JustDeployed THEN [NoGen EXCEPT !.pc = "find"] ELSE NoGen]
      /\ cert = [c \in Certifiers |-> NoCert]
      /\ postJob = [t \in PostTaskIds |-> "none"]
  BY Zenon DEF Init
<1>2. /\ certificateState = [p \in Posts |-> ""]
      /\ submitState = [p \in Posts |-> "absent"]
      /\ publishState = [p \in Posts |-> "absent"]
      /\ postTaskId = [p \in Posts |-> NoTask]
      /\ publishSiteOrderId = [p \in Posts |-> NoId]
      /\ publishSiteTaskId = [p \in Posts |-> NoId]
  BY Zenon DEF Init
<1>3. /\ \A d \in Dispatchers : disp[d].pc = "idle"
      /\ \A r \in Retriers : retry[r].pc = "none"
      /\ \A c \in Certifiers : cert[c].pc = "none"
      /\ \A t \in PostTaskIds : postJob[t] = "none"
  BY <1>1 DEF Idle, NoRetry, NoCert
<1>4. \A p \in Posts : /\ submitState[p] = "absent" /\ publishState[p] = "absent"
                       /\ certificateState[p] = "" /\ postTaskId[p] = NoTask
                       /\ publishSiteOrderId[p] = NoId /\ publishSiteTaskId[p] = NoId
  BY <1>2
<1>5. \A c \in PostTaskIds \union Retriers : gen[c].pc = "none"
  <2>1. \A c \in PostTaskIds \union Retriers : c \in Callers /\ c # OrderRequest
    BY NamesAssumption DEF Callers
  <2>2. \A c \in PostTaskIds \union Retriers : gen[c] = NoGen
    BY <1>1, <2>1
  <2>3. QED
    BY <2>2 DEF NoGen
<1>6. PostInv
  BY <1>3, <1>4, InitType DEF PostInv, DispatcherHasPostTask, DoingPostIsOwned
<1>7. CarryInv
  BY <1>3, <1>4, <1>5 DEF CarryInv, TasksApart, NewTasksWait, BatchIsTask, CarriedByTask, PushedByJob, PreparesPosts
<1>8. NothingCertified /\ SavesStartOver
  BY <1>3, <1>4 DEF NothingCertified, SavesStartOver
<1>9. StatesAgree /\ TasksAgree
  BY <1>4 DEF StatesAgree, TasksAgree
<1>10. TasksWait /\ RetriedTasks
  <2>1. \A t \in PostTaskIds : ~Retried(t)
    BY <1>3, <1>5 DEF Retried
  <2>2. \A d \in Dispatchers : ~PreparesPosts(d)
    BY <1>3 DEF PreparesPosts
  <2>3. TasksWait
    BY <1>4, <2>2, NamesAssumption DEF TasksWait
  <2>4. QED
    BY <2>1, <2>3 DEF RetriedTasks
<1>11. QED
  BY <1>6, <1>7, <1>8, <1>9, <1>10 DEF RetryInv

\* The invariants together, for the properties that need them where a post is retried.
RetryingInv == OwnershipInv /\ PostInv /\ CarryInv /\ RetryInv

LEMMA NextRetrying ==
    ASSUME FailTogether, RetryingInv, [Next]_vars
    PROVE  RetryingInv'
BY RetriesFit, NextOwnership, NextCarried, NextRetries DEF RetryingInv

LEMMA InitRetrying == Init => RetryingInv
BY InitOwnership, InitPosts DEF RetryingInv

-----------------------------------------------------------------------------
(* What both hypotheses give. *)

\* Nothing was ever retried, or what is retried fits.
SavesInv == OwnershipInv /\ PostInv /\ CarryInv /\ (NothingRetried \/ (FailTogether /\ RetryInv))

\* The invariants hold together.
LEMMA NextSaves ==
    ASSUME SavesInv, [Next]_vars
    PROVE  SavesInv' /\ SavesFit
<1>1. TypeOK
  BY DEF SavesInv, PostInv
<1>2. SavesFit
  BY <1>1, NeverRetried, RetriesFit DEF SavesInv
<1>3. OwnershipInv' /\ PostInv' /\ CarryInv'
  BY <1>2, NextOwnership, NextCarried DEF SavesInv
<1>4. CASE NothingRetried
  BY <1>1, <1>2, <1>3, <1>4, StaysUnretried DEF SavesInv
<1>5. CASE FailTogether /\ RetryInv
  <2>1. RetryInv' /\ FailTogether'
    BY <1>5, NextRetries DEF SavesInv, FailTogether
  <2>2. QED
    BY <1>2, <1>3, <2>1 DEF SavesInv
<1>6. QED
  BY <1>4, <1>5 DEF SavesInv

\* The backend starts without retries.
LEMMA InitUnretried ==
    ASSUME NoRetries
    PROVE  Init => NothingRetried
<1>1. Init => sweeps = 0 /\ retry = [r \in Retriers |-> NoRetry]
  BY Zenon DEF Init
<1>2. QED
  BY <1>1 DEF NothingRetried, NoRetry

\* They hold at the start.
LEMMA InitSaves ==
    ASSUME NoRetries \/ FailTogether
    PROVE  Init => SavesInv
BY InitOwnership, InitPosts, InitUnretried DEF SavesInv

\* As long as no post is retried, or the posts of a task can only fail together, no
\* post is left with a submission that is doing and no post job whose end settles it,
\* whatever fails, is reported, saved or restarts.
THEOREM PostsOwned ==
    ASSUME NoRetries \/ FailTogether
    PROVE  Spec => []DoingPostIsOwned
<1>1. SavesInv /\ [Next]_vars => SavesInv'
  BY NextSaves
<1>2. SavesInv => DoingPostIsOwned
  BY DEF SavesInv, PostInv
<1>3. QED
  BY InitSaves, <1>1, <1>2, PTL DEF Spec

\* Under the same conditions, what is reported as submitted has been collected for
\* its job, not reported as failed by it, and pushed, for any number of posts, tasks,
\* dispatchers, reports and restarts.
THEOREM SubmissionsCarried ==
    ASSUME NoRetries \/ FailTogether
    PROVE  Spec => SubmittedWasCarried
<1>1. SavesInv /\ [Next]_vars => SavesInv'
  BY NextSaves
<1>2. SavesInv /\ [Next]_vars =>
        [\A p \in Posts : submitState[p] = "doing" /\ submitState'[p] = "finished"
           => p \in batch[postTaskId[p]] /\ p \in repo]_vars
  BY NextSaves, OnlyFinishSubmits DEF SavesInv
<1>3. QED
  BY InitSaves, <1>1, <1>2, PTL DEF Spec, SubmittedWasCarried
=============================================================================
