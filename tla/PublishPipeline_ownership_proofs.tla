------------------ MODULE PublishPipeline_ownership_proofs ------------------
(***************************************************************************)
(* Nothing is left behind in a state that blocks the user: proofs of       *)
(* DoingOrderIsOwned and PublishingIsOwned for any number of posts, tasks, *)
(* dispatchers, failures, retries and restarts, and that DoingPostIsOwned  *)
(* is kept by every step as long as what retries are about to save fits.   *)
(***************************************************************************)
EXTENDS PublishPipeline_proofs

\* The tuples of the UNCHANGED clauses.
USE DEF linkRest, ordersRest, jobsRest, dispRest, certRest, postRows, certRows, postTaskRows, orderRows, git, counters

\* The strengthening both need: a dispatcher that prepares a publish job has
\* picked its task.
DispatcherHasTask ==
    \A d \in Dispatchers :
        disp[d].pc \in {"doingTask", "doingOrders", "doingPosts", "doingStatus", "publishConfig"}
          => disp[d].publishTask \in PublishTaskIds

\* The inductive invariant.
OwnershipInv == TypeOK /\ DispatcherHasTask /\ DoingOrderIsOwned /\ PublishingIsOwned

\* Initially no order is doing and the site is not PUBLISHING.
LEMMA InitOwnership == Init => OwnershipInv
<1>1. Init => /\ disp = [d \in Dispatchers |-> Idle]
              /\ orderState = [o \in OrderIds |-> "absent"]
              /\ siteStatus = IF JustDeployed THEN "DEPLOYED" ELSE "PUBLISHED"
  BY Zenon DEF Init
<1>2. Init => /\ \A d \in Dispatchers : disp[d].pc = "idle"
              /\ \A o \in OrderIds : orderState[o] = "absent"
              /\ siteStatus # "PUBLISHING"
  BY <1>1 DEF Idle
<1>3. QED
  BY <1>2, InitType DEF OwnershipInv, DispatcherHasTask, DoingOrderIsOwned, PublishingIsOwned

-----------------------------------------------------------------------------
(* Steps that neither dispatch nor end a publish job. *)

\* A step that leaves the dispatchers, the publish jobs and the status alone,
\* and the task of each order that is doing, keeps the invariant.
LEMMA ElsewhereOwnership ==
    ASSUME OwnershipInv, TypeOK', UNCHANGED <<disp, publishJob, siteStatus>>,
           \A o \in OrderIds : orderState'[o] = "doing" => orderState[o] = "doing" /\ orderTaskId'[o] = orderTaskId[o]
    PROVE  OwnershipInv'
<1>1. \A j \in PublishJobs : OwnsOrders(j)' <=> OwnsOrders(j)
  BY DEF OwnsOrders, DispatchingPublish
<1>2. DoingOrderIsOwned'
  BY <1>1 DEF OwnershipInv, DoingOrderIsOwned
<1>3. DispatcherHasTask' /\ PublishingIsOwned'
  BY DEF OwnershipInv, DispatcherHasTask, PublishingIsOwned
<1>4. QED
  BY <1>2, <1>3 DEF OwnershipInv

\* Link and generate handlers move pending and failed orders only.
LEMMA LinkingOwnership ==
    ASSUME OwnershipInv, TypeOK',
           \/ \E l \in Linkers : LinkStep(l)
           \/ \E c \in Callers : GenStep(c)
           \/ \E r \in Retriers : UpdatePublishOrderId(r)
           \/ RequestPublish
    PROVE  OwnershipInv'
<1>1. ASSUME NEW l \in Linkers, LinkOrders(l)
      PROVE  OwnershipInv'
  <2>1. \A o \in OrderIds : orderState[o] = "doing" => orderTaskId'[o] = orderTaskId[o]
    BY <1>1 DEF LinkOrders
  <2>2. QED
    BY <1>1, <2>1, ElsewhereOwnership DEF LinkOrders
<1>2. ASSUME NEW c \in Callers, GenCreate(c)
      PROVE  OwnershipInv'
  <2>1. \A o \in OrderIds : orderState'[o] = "doing" => orderState[o] = "doing"
    BY <1>2 DEF GenCreate, OwnershipInv, TypeOK
  <2>2. QED
    BY <1>2, <2>1, ElsewhereOwnership DEF GenCreate
<1>3. ASSUME NEW l \in Linkers, LinkRead(l) \/ LinkCreate(l) \/ LinkIds(l) \/ LinkPosts(l)
      PROVE  OwnershipInv'
  BY <1>3, ElsewhereOwnership DEF LinkRead, LinkCreate, LinkIds, LinkPosts
<1>4. ASSUME NEW c \in Callers, GenFind(c)
      PROVE  OwnershipInv'
  BY <1>4, ElsewhereOwnership DEF GenFind
<1>5. ASSUME NEW r \in Retriers, UpdatePublishOrderId(r)
      PROVE  OwnershipInv'
  BY <1>5, ElsewhereOwnership DEF UpdatePublishOrderId
<1>6. CASE RequestPublish
  BY <1>6, ElsewhereOwnership DEF RequestPublish
<1>7. QED
  BY <1>1, <1>2, <1>3, <1>4, <1>5, <1>6 DEF LinkStep, GenStep

\* Posts, retries, certificates and post jobs do not touch orders, publish jobs and the status.
LEMMA PostsOwnership ==
    ASSUME OwnershipInv, TypeOK',
           \/ \E p \in Posts : SavePost(p) \/ RetryRequest(p) \/ SweepRead(p)
           \/ SweepFailed
           \/ \E r \in Retriers : RetrySave(r)
           \/ \E c \in Certifiers : CertificateStep(c)
           \/ \E t \in PostTaskIds : PostJobStep(t) \/ \E p \in Posts : ReportErrored(t, p)
    PROVE  OwnershipInv'
<1>1. UNCHANGED <<disp, publishJob, siteStatus, orderState, orderTaskId>>
  <2>1. ASSUME NEW p \in Posts, SavePost(p) \/ RetryRequest(p) \/ SweepRead(p)
        PROVE  UNCHANGED <<disp, publishJob, siteStatus, orderState, orderTaskId>>
    BY <2>1 DEF SavePost, RetryRequest, SweepRead
  <2>2. ASSUME SweepFailed \/ \E r \in Retriers : RetrySave(r)
        PROVE  UNCHANGED <<disp, publishJob, siteStatus, orderState, orderTaskId>>
    BY <2>2 DEF SweepFailed, RetrySave
  <2>3. ASSUME NEW t \in PostTaskIds, PostJobStep(t) \/ \E p \in Posts : ReportErrored(t, p)
        PROVE  UNCHANGED <<disp, publishJob, siteStatus, orderState, orderTaskId>>
    BY <2>3 DEF PostJobStep, PostJobCompleted, PostJobFailed, FailPostTask, FailSubmitPosts,
                FinishPostTask, FinishSubmitPost, ReportErrored
  <2>4. ASSUME NEW c \in Certifiers, CertificateStep(c)
        PROVE  UNCHANGED <<disp, publishJob, siteStatus, orderState, orderTaskId>>
    BY <2>4 DEF CertificateStep, DoingCertificate, UploadCertificate, UploadFailed, FailCertificate
  <2>5. QED
    BY <2>1, <2>2, <2>3, <2>4
<1>2. QED
  BY <1>1, ElsewhereOwnership

-----------------------------------------------------------------------------
(* The dispatcher. *)

\* Steps of which and after which a dispatcher prepares a publish job.
Preparing == {"doingTask", "doingOrders", "doingPosts", "doingStatus", "publishConfig"}
Queueing  == {"doingPosts", "doingStatus", "publishConfig"}

\* One dispatcher takes a step.
Steps(d) == \A e \in Dispatchers \ {d} : disp'[e] = disp[e]

\* A dispatcher that is not preparing a publish job, before and after.
LEMMA OtherDispatchOwnership ==
    ASSUME OwnershipInv, TypeOK', NEW d \in Dispatchers, Steps(d),
           UNCHANGED <<publishJob, siteStatus, orderState, orderTaskId>>,
           disp[d].pc \notin Queueing, disp'[d].pc \notin Preparing
    PROVE  OwnershipInv'
<1>1. DispatcherHasTask'
  BY DEF OwnershipInv, DispatcherHasTask, Steps, Preparing
<1>2. ASSUME NEW j \in PublishJobs, OwnsOrders(j)
      PROVE  OwnsOrders(j)'
  BY <1>2 DEF OwnsOrders, DispatchingPublish, Steps, Queueing, PublishJobs
<1>3. DoingOrderIsOwned'
  BY <1>2 DEF OwnershipInv, DoingOrderIsOwned
<1>4. PublishingIsOwned'
  BY DEF OwnershipInv, PublishingIsOwned, Steps, Queueing
<1>5. QED
  BY <1>1, <1>3, <1>4 DEF OwnershipInv

\* What a dispatcher's record is after it moved on or returned.
LEMMA Moves ==
    ASSUME TypeOK, NEW d \in Dispatchers
    PROVE  /\ disp' = [disp EXCEPT ![d] = Idle] => Steps(d) /\ disp'[d].pc = "idle"
           /\ \A step : disp' = [disp EXCEPT ![d].pc = step]
                => Steps(d) /\ disp'[d].pc = step /\ disp'[d].publishTask = disp[d].publishTask
<1>1. ASSUME disp' = [disp EXCEPT ![d] = Idle]
      PROVE  Steps(d) /\ disp'[d].pc = "idle"
  <2>1. Steps(d) /\ disp'[d] = Idle
    BY <1>1 DEF TypeOK, Steps
  <2>2. QED
    BY <2>1 DEF Idle
<1>2. ASSUME NEW step, disp' = [disp EXCEPT ![d].pc = step]
      PROVE  Steps(d) /\ disp'[d].pc = step /\ disp'[d].publishTask = disp[d].publishTask
  BY <1>2 DEF TypeOK, Steps, DispatcherRun
<1>3. QED
  BY <1>1, <1>2

\* Steps of a dispatcher before it has a publish task, and for post jobs.
LEMMA SelectOwnership ==
    ASSUME OwnershipInv, TypeOK', NEW d \in Dispatchers,
           \/ ReadPublishOrder(d) \/ ReadPostOrder(d) \/ RequestDispatch(d) \/ CheckPublish(d)
           \/ CreatePostTask(d) \/ BatchPosts(d) \/ CollectPosts(d) \/ DoingPostTask(d)
           \/ DoingSubmitPost(d) \/ DispatchPosts(d) \/ DispatchFailed(d)
    PROVE  OwnershipInv'
<1>1. disp \in [Dispatchers -> DispatcherRun] /\ disp' \in [Dispatchers -> DispatcherRun]
  BY DEF OwnershipInv, TypeOK
<1>3. CASE ReadPublishOrder(d)
  <2>1. Steps(d) /\ disp[d].pc = "idle" /\ disp'[d].pc = "readPost"
    BY <1>1, <1>3 DEF ReadPublishOrder, Steps, Idle
  <2>2. QED
    BY <1>3, <2>1, OtherDispatchOwnership DEF ReadPublishOrder, Queueing, Preparing
<1>4. CASE ReadPostOrder(d)
  <2>1. Steps(d) /\ disp[d].pc = "readPost"
    BY <1>1, <1>4 DEF ReadPostOrder, Steps
  <2>2. disp'[d].pc \in {"publish", "posts", "idle"}
    BY <1>1, <1>4 DEF ReadPostOrder, Idle, DispatcherRun
  <2>3. QED
    BY <1>4, <2>1, <2>2, OtherDispatchOwnership DEF ReadPostOrder, Queueing, Preparing
<1>5. CASE RequestDispatch(d)
  <2>1. Steps(d) /\ disp[d].pc = "idle" /\ disp'[d].pc \in {"publish", "posts"}
    BY <1>5, Moves DEF RequestDispatch, OwnershipInv
  <2>2. QED
    BY <1>5, <2>1, OtherDispatchOwnership DEF RequestDispatch, Queueing, Preparing
<1>6. CASE CheckPublish(d)
  <2>1. Steps(d) /\ disp[d].pc = "publish" /\ disp'[d].pc \in {"linking", "idle"}
    BY <1>6, Moves DEF CheckPublish, OwnershipInv
  <2>2. QED
    BY <1>6, <2>1, OtherDispatchOwnership DEF CheckPublish, Queueing, Preparing
<1>7. CASE CreatePostTask(d)
  <2>1. disp[d].pc = "posts"
    BY <1>7 DEF CreatePostTask
  <2>2. Steps(d) /\ disp'[d].pc \in {"batch", "idle"}
    <3>1. CASE disp' = [disp EXCEPT ![d] = Idle]
      BY <3>1, Moves DEF OwnershipInv
    <3>2. CASE \E t \in PostTaskIds : disp' = [disp EXCEPT ![d].pc = "batch", ![d].postTask = t]
      <4>1. PICK t \in PostTaskIds : disp' = [disp EXCEPT ![d].pc = "batch", ![d].postTask = t]
        BY <3>2
      <4>2. disp'[d] = [disp[d] EXCEPT !.pc = "batch", !.postTask = t]
        BY <1>1, <4>1
      <4>3. disp[d] \in DispatcherRun
        BY <1>1
      <4>4. disp'[d].pc = "batch"
        BY <4>2, <4>3 DEF DispatcherRun
      <4>5. QED
        BY <1>1, <4>1, <4>4 DEF Steps
    <3>3. QED
      BY <1>7, <3>1, <3>2 DEF CreatePostTask
  <2>3. QED
    BY <1>7, <2>1, <2>2, OtherDispatchOwnership DEF CreatePostTask, Queueing, Preparing
<1>8. CASE BatchPosts(d) \/ CollectPosts(d) \/ DoingPostTask(d) \/ DoingSubmitPost(d)
  <2>1. /\ Steps(d)
        /\ disp[d].pc \in {"batch", "collect", "doingPostTask", "doingSubmit"}
        /\ disp'[d].pc \in {"collect", "doingPostTask", "doingSubmit", "postConfig"}
    BY <1>8, Moves DEF BatchPosts, CollectPosts, DoingPostTask, DoingSubmitPost, OwnershipInv
  <2>2. UNCHANGED <<publishJob, siteStatus, orderState, orderTaskId>>
    BY <1>8 DEF BatchPosts, CollectPosts, DoingPostTask, DoingSubmitPost
  <2>3. QED
    BY <2>1, <2>2, OtherDispatchOwnership DEF Queueing, Preparing
<1>9. CASE DispatchPosts(d) \/ DispatchFailed(d)
  <2>1. /\ Steps(d)
        /\ disp[d].pc \in {"postConfig", "awaitPublish", "awaitPost"}
        /\ disp'[d].pc \in {"awaitPost", "idle"}
    BY <1>9, Moves DEF DispatchPosts, DispatchFailed, OwnershipInv
  <2>2. QED
    BY <1>9, <2>1, OtherDispatchOwnership DEF DispatchPosts, DispatchFailed, Queueing, Preparing
<1>10. QED
  BY <1>3, <1>4, <1>5, <1>6, <1>7, <1>8, <1>9

\* A dispatcher marks its task, the task's orders and posts, and the site.
LEMMA PrepareOwnership ==
    ASSUME OwnershipInv, TypeOK', NEW d \in Dispatchers,
           \/ PickPending(d) \/ DoingPublishTask(d) \/ DoingPublishOrders(d)
           \/ DoingPublishPosts(d) \/ DoingPublishStatus(d)
    PROVE  OwnershipInv'
<1> DEFINE t == disp[d].publishTask
<1>1. ASSUME Steps(d), UNCHANGED publishJob,
             disp[d].pc \notin Queueing \/ (disp'[d].pc \in Queueing /\ disp'[d].publishTask = t),
             NEW j \in PublishJobs, OwnsOrders(j)
      PROVE  OwnsOrders(j)'
  BY <1>1 DEF OwnsOrders, DispatchingPublish, Steps, Queueing, PublishJobs
<1>2. CASE PickPending(d)
  <2>1. disp[d].pc = "linking" /\ UNCHANGED <<publishJob, siteStatus, orderState, orderTaskId>>
    BY <1>2 DEF PickPending
  <2>2. CASE disp' = [disp EXCEPT ![d] = Idle]
    <3>1. Steps(d) /\ disp'[d].pc = "idle"
      BY <2>2, Moves DEF OwnershipInv
    <3>2. QED
      BY <2>1, <3>1, OtherDispatchOwnership DEF Queueing, Preparing
  <2>3. CASE PendingPublishTasks # {} /\ disp' = [disp EXCEPT ![d].pc = "doingTask",
                                                    ![d].publishTask = Newest(PendingPublishTasks)]
    <3>1. Newest(PendingPublishTasks) \in PublishTaskIds
      BY <2>3, Selected DEF OwnershipInv
    <3>2. disp[d] \in DispatcherRun /\ disp'[d] = [disp[d] EXCEPT !.pc = "doingTask",
                                                    !.publishTask = Newest(PendingPublishTasks)]
      BY <2>3 DEF OwnershipInv, TypeOK
    <3>3. disp'[d].pc = "doingTask" /\ disp'[d].publishTask \in PublishTaskIds
      BY <3>1, <3>2 DEF DispatcherRun
    <3>4. Steps(d)
      BY <2>3 DEF OwnershipInv, TypeOK, Steps
    <3>5. DispatcherHasTask'
      BY <3>3, <3>4 DEF OwnershipInv, DispatcherHasTask, Steps
    <3>6. DoingOrderIsOwned'
      <4>1. disp[d].pc \notin Queueing
        BY <2>1 DEF Queueing
      <4>2. ASSUME NEW j \in PublishJobs, OwnsOrders(j)
            PROVE  OwnsOrders(j)'
        BY <2>1, <3>4, <4>1, <4>2 DEF OwnsOrders, DispatchingPublish, Steps, Queueing, PublishJobs
      <4>3. QED
        BY <2>1, <4>2 DEF OwnershipInv, DoingOrderIsOwned
    <3>7. PublishingIsOwned'
      BY <2>1, <3>4 DEF OwnershipInv, PublishingIsOwned, Steps
    <3>8. QED
      BY <3>5, <3>6, <3>7 DEF OwnershipInv
  <2>4. QED
    BY <1>2, <2>2, <2>3 DEF PickPending
<1>3. CASE DoingPublishTask(d) \/ DoingPublishOrders(d) \/ DoingPublishPosts(d) \/ DoingPublishStatus(d)
  <2>1. /\ Steps(d) /\ disp'[d].publishTask = t
        /\ disp[d].pc \in {"doingTask", "doingOrders", "doingPosts", "doingStatus"}
        /\ disp'[d].pc = CASE disp[d].pc = "doingTask"   -> "doingOrders"
                           [] disp[d].pc = "doingOrders" -> "doingPosts"
                           [] disp[d].pc = "doingPosts"  -> "doingStatus"
                           [] disp[d].pc = "doingStatus" -> "publishConfig"
    BY <1>3, Moves DEF DoingPublishTask, DoingPublishOrders, DoingPublishPosts, DoingPublishStatus, OwnershipInv
  <2>2. UNCHANGED <<publishJob, orderTaskId>>
    BY <1>3 DEF DoingPublishTask, DoingPublishOrders, DoingPublishPosts, DoingPublishStatus
  <2>3. DispatcherHasTask'
    BY <2>1 DEF OwnershipInv, DispatcherHasTask, Steps
  <2>4. ASSUME NEW o \in OrderIds, orderState'[o] = "doing"
        PROVE  \E j \in PublishJobs : j[1] = orderTaskId'[o] /\ OwnsOrders(j)'
    <3>1. CASE orderState[o] = "doing"
      <4>1. PICK j \in PublishJobs : j[1] = orderTaskId[o] /\ OwnsOrders(j)
        BY <3>1 DEF OwnershipInv, DoingOrderIsOwned
      <4>2. OwnsOrders(j)'
        BY <1>1, <2>1, <2>2, <4>1 DEF Queueing
      <4>3. QED
        BY <2>2, <4>1, <4>2
    <3>2. CASE orderState[o] # "doing"
      <4>1. DoingPublishOrders(d) /\ orderTaskId[o] = t
        BY <1>3, <2>4, <3>2 DEF DoingPublishTask, DoingPublishOrders, DoingPublishPosts, DoingPublishStatus
      <4>2. disp[d].pc = "doingOrders"
        BY <4>1 DEF DoingPublishOrders
      <4>3. PICK j \in PublishJobs : j = <<t, d>>
        BY <4>2 DEF OwnershipInv, DispatcherHasTask, PublishJobs
      <4>4. OwnsOrders(j)'
        BY <2>1, <4>2, <4>3 DEF OwnsOrders, DispatchingPublish
      <4>5. QED
        BY <2>2, <4>1, <4>3, <4>4
    <3>3. QED
      BY <3>1, <3>2
  <2>5. PublishingIsOwned'
    <3>1. CASE disp[d].pc = "doingStatus"
      BY <2>1, <3>1 DEF PublishingIsOwned
    <3>2. CASE disp[d].pc # "doingStatus"
      <4>1. UNCHANGED siteStatus
        BY <1>3, <3>2 DEF DoingPublishTask, DoingPublishOrders, DoingPublishPosts, DoingPublishStatus
      <4>2. QED
        BY <2>1, <2>2, <4>1 DEF OwnershipInv, PublishingIsOwned, Steps
    <3>3. QED
      BY <3>1, <3>2
  <2>6. QED
    BY <2>3, <2>4, <2>5 DEF OwnershipInv, DoingOrderIsOwned
<1>4. QED
  BY <1>2, <1>3

\* The job of the task is queued, or its fail handler starts.
LEMMA QueueOwnership ==
    ASSUME OwnershipInv, TypeOK', NEW d \in Dispatchers, DispatchPublish(d)
    PROVE  OwnershipInv'
<1> DEFINE job == <<disp[d].publishTask, d>>
<1>1. job \in PublishJobs
  BY DEF DispatchPublish, OwnershipInv, DispatcherHasTask, PublishJobs
<1>2. PICK state \in {"active", "fail"} : publishJob' = [publishJob EXCEPT ![job] = state]
  BY DEF DispatchPublish
<1>3. publishJob'[job] \in {"active", "fail"} /\ \A j \in PublishJobs \ {job} : publishJob'[j] = publishJob[j]
  BY <1>1, <1>2 DEF OwnershipInv, TypeOK
<1>4. Steps(d) /\ disp'[d].pc \in {"idle", "awaitPublish"}
  BY Moves DEF DispatchPublish, OwnershipInv
<1>5. UNCHANGED <<siteStatus, orderState, orderTaskId>>
  BY DEF DispatchPublish
<1>6. DispatcherHasTask'
  BY <1>4 DEF OwnershipInv, DispatcherHasTask, Steps
<1>7. ASSUME NEW j \in PublishJobs, OwnsOrders(j)
      PROVE  OwnsOrders(j)'
  <2>1. CASE j = job
    BY <1>3, <2>1 DEF OwnsOrders, WorksOnOrders
  <2>2. CASE j # job
    <3>1. DispatchingPublish(j) => DispatchingPublish(j)'
      BY <1>4, <2>2 DEF DispatchingPublish, Steps, PublishJobs
    <3>2. QED
      BY <1>3, <1>7, <2>2, <3>1 DEF OwnsOrders
  <2>3. QED
    BY <2>1, <2>2
<1>8. DoingOrderIsOwned'
  BY <1>5, <1>7 DEF OwnershipInv, DoingOrderIsOwned
<1>9. PublishingIsOwned'
  BY <1>1, <1>3 DEF PublishingIsOwned
<1>10. QED
  BY <1>6, <1>8, <1>9 DEF OwnershipInv

-----------------------------------------------------------------------------
(* Publish jobs and their handlers. *)

\* One publish job takes a step.
JobSteps(j) == \A k \in PublishJobs \ {j} : publishJob'[k] = publishJob[k]

\* A job's state after it advanced.
LEMMA Advances ==
    ASSUME TypeOK, NEW j \in PublishJobs, NEW from, NEW to, AdvancePublish(j, from, to)
    PROVE  publishJob[j] = from /\ publishJob'[j] = to /\ JobSteps(j)
BY DEF AdvancePublish, TypeOK, JobSteps

\* A job goes on and its handler still has its orders to write.
LEMMA GoesOnOwnership ==
    ASSUME OwnershipInv, TypeOK', NEW j \in PublishJobs, JobSteps(j),
           UNCHANGED <<disp, siteStatus, orderState, orderTaskId>>,
           publishJob[j] # "none", publishJob'[j] \in WorksOnOrders
    PROVE  OwnershipInv'
<1>1. ASSUME NEW k \in PublishJobs, OwnsOrders(k)
      PROVE  OwnsOrders(k)'
  BY <1>1 DEF OwnsOrders, DispatchingPublish, JobSteps
<1>2. DoingOrderIsOwned'
  BY <1>1 DEF OwnershipInv, DoingOrderIsOwned
<1>3. DispatcherHasTask'
  BY DEF OwnershipInv, DispatcherHasTask
<1>4. PublishingIsOwned'
  BY DEF OwnershipInv, PublishingIsOwned, JobSteps, WorksOnOrders
<1>5. QED
  BY <1>2, <1>3, <1>4 DEF OwnershipInv

\* The handler has written its task's orders: none of them is doing any more.
LEMMA EndsOwnership ==
    ASSUME OwnershipInv, TypeOK', NEW j \in PublishJobs, JobSteps(j), UNCHANGED <<disp, siteStatus, orderTaskId>>,
           publishJob[j] # "none", publishJob'[j] \notin {"none", "done"},
           \A o \in OrderIds : orderState'[o] = "doing" => orderState[o] = "doing" /\ orderTaskId[o] # j[1]
    PROVE  OwnershipInv'
<1>1. ASSUME NEW k \in PublishJobs, k[1] # j[1], OwnsOrders(k)
      PROVE  OwnsOrders(k)'
  BY <1>1 DEF OwnsOrders, DispatchingPublish, JobSteps
<1>2. DoingOrderIsOwned'
  <2>1. SUFFICES ASSUME NEW o \in OrderIds, orderState'[o] = "doing"
                 PROVE  \E k \in PublishJobs : k[1] = orderTaskId'[o] /\ OwnsOrders(k)'
    BY DEF DoingOrderIsOwned
  <2>2. orderState[o] = "doing" /\ orderTaskId[o] # j[1]
    BY <2>1
  <2>3. PICK k \in PublishJobs : k[1] = orderTaskId[o] /\ OwnsOrders(k)
    BY <2>2 DEF OwnershipInv, DoingOrderIsOwned
  <2>4. OwnsOrders(k)'
    BY <1>1, <2>2, <2>3
  <2>5. QED
    BY <2>3, <2>4
<1>3. DispatcherHasTask'
  BY DEF OwnershipInv, DispatcherHasTask
<1>4. PublishingIsOwned'
  BY DEF OwnershipInv, PublishingIsOwned, JobSteps
<1>5. QED
  BY <1>2, <1>3, <1>4 DEF OwnershipInv

\* A publish job and its handlers.
LEMMA PublishJobOwnership ==
    ASSUME OwnershipInv, TypeOK', NEW j \in PublishJobs, PublishJobStep(j)
    PROVE  OwnershipInv'
<1>1. TypeOK
  BY DEF OwnershipInv
<1>2. CASE \/ PublishJobBuild(j) \/ PublishJobCompleted(j) \/ PublishJobFailed(j)
           \/ FinishPublishTask(j) \/ UpdateDomain(j) \/ FailPublishTask(j)
  <2>1. PICK from \in {"active", "building", "finish", "domain", "fail"}, to \in WorksOnOrders :
          AdvancePublish(j, from, to)
    BY <1>2 DEF PublishJobBuild, PublishJobCompleted, PublishJobFailed, FinishPublishTask, UpdateDomain,
                FailPublishTask, WorksOnOrders
  <2>2. publishJob[j] # "none" /\ publishJob'[j] \in WorksOnOrders /\ JobSteps(j)
    BY <1>1, <2>1, Advances
  <2>3. UNCHANGED <<disp, siteStatus, orderState, orderTaskId>>
    BY <1>2 DEF PublishJobBuild, PublishJobCompleted, PublishJobFailed, FinishPublishTask, UpdateDomain,
                FailPublishTask
  <2>4. QED
    BY <2>2, <2>3, GoesOnOwnership
<1>3. CASE FinishPublishOrders(j) \/ FailPublishOrders(j)
  <2>1. publishJob[j] # "none" /\ publishJob'[j] \in {"finishPosts", "failPosts"} /\ JobSteps(j)
    BY <1>1, <1>3, Advances DEF FinishPublishOrders, FailPublishOrders
  <2>2. ASSUME NEW o \in OrderIds, orderState'[o] = "doing"
        PROVE  orderState[o] = "doing" /\ orderTaskId[o] # j[1]
    BY <1>3, <2>2 DEF FinishPublishOrders, FailPublishOrders
  <2>3. UNCHANGED <<disp, siteStatus, orderTaskId>>
    BY <1>3 DEF FinishPublishOrders, FailPublishOrders
  <2>4. QED
    BY <2>1, <2>2, <2>3, EndsOwnership
<1>4. CASE FinishPublishPosts(j) \/ FailPublishPosts(j) \/ SetPublished(j) \/ SetPublishFailed(j)
  <2>1. /\ publishJob[j] \in {"finishPosts", "failPosts", "setPublished", "failStatus"} /\ JobSteps(j)
        /\ publishJob'[j] \in {"setPublished", "failStatus", "done"}
    BY <1>1, <1>4, Advances DEF FinishPublishPosts, FailPublishPosts, SetPublished, SetPublishFailed
  <2>2. UNCHANGED <<disp, orderState, orderTaskId>>
    BY <1>4 DEF FinishPublishPosts, FailPublishPosts, SetPublished, SetPublishFailed
  <2>3. ASSUME NEW k \in PublishJobs, OwnsOrders(k)
        PROVE  OwnsOrders(k)'
    <3>1. k = j => DispatchingPublish(k)
      BY <2>1, <2>3 DEF OwnsOrders, WorksOnOrders
    <3>2. QED
      BY <2>1, <2>2, <2>3, <3>1 DEF OwnsOrders, DispatchingPublish, JobSteps
  <2>4. DoingOrderIsOwned'
    BY <2>2, <2>3 DEF OwnershipInv, DoingOrderIsOwned
  <2>5. DispatcherHasTask'
    BY <2>2 DEF OwnershipInv, DispatcherHasTask
  <2>6. PublishingIsOwned'
    <3>1. CASE SetPublished(j) \/ SetPublishFailed(j)
      BY <3>1 DEF SetPublished, SetPublishFailed, PublishingIsOwned
    <3>2. CASE FinishPublishPosts(j) \/ FailPublishPosts(j)
      <4>1. publishJob'[j] \in {"setPublished", "failStatus"}
        BY <1>1, <3>2, Advances DEF FinishPublishPosts, FailPublishPosts
      <4>2. QED
        BY <4>1 DEF PublishingIsOwned
    <3>3. QED
      BY <1>4, <3>1, <3>2
  <2>7. QED
    BY <2>4, <2>5, <2>6 DEF OwnershipInv
<1>5. QED
  BY <1>2, <1>3, <1>4 DEF PublishJobStep

\* The restart of the backend turns what was being worked for into "lost".
LEMMA RestartOwnership ==
    ASSUME OwnershipInv, TypeOK', Restart
    PROVE  OwnershipInv'
<1>1. ASSUME NEW j \in PublishJobs, OwnsOrders(j)
      PROVE  OwnsOrders(j)'
  BY <1>1 DEF Restart, OwnsOrders, WorksOnOrders
<1>2. DoingOrderIsOwned'
  BY <1>1 DEF Restart, OwnershipInv, DoingOrderIsOwned
<1>3. DispatcherHasTask'
  BY DEF Restart, DispatcherHasTask, Idle
<1>4. PublishingIsOwned'
  <2>1. SUFFICES ASSUME siteStatus = "PUBLISHING"
                 PROVE  \E j \in PublishJobs : publishJob'[j] \notin {"none", "done"}
    BY DEF Restart, PublishingIsOwned
  <2>2. CASE \E d \in Dispatchers : disp[d].pc = "publishConfig"
    <3>1. PICK d \in Dispatchers : disp[d].pc = "publishConfig"
      BY <2>2
    <3>2. PICK j \in PublishJobs : j = <<disp[d].publishTask, d>>
      BY <3>1 DEF OwnershipInv, DispatcherHasTask, PublishJobs
    <3>3. publishJob'[j] = "lost"
      BY <3>1, <3>2 DEF Restart, DispatchingPublish
    <3>4. QED
      BY <3>3
  <2>3. CASE \E j \in PublishJobs : publishJob[j] \notin {"none", "done"}
    BY <2>3 DEF Restart
  <2>4. QED
    BY <2>1, <2>2, <2>3 DEF OwnershipInv, PublishingIsOwned
<1>5. QED
  BY <1>2, <1>3, <1>4 DEF OwnershipInv

-----------------------------------------------------------------------------
(* The theorems. *)

\* Every step keeps the invariant.
LEMMA NextOwnership ==
    ASSUME OwnershipInv, [Next]_vars
    PROVE  OwnershipInv'
<1>1. TypeOK'
  BY NextType DEF OwnershipInv
<1>2. CASE UNCHANGED vars
  BY <1>1, <1>2, ElsewhereOwnership DEF vars
<1>3. CASE Next
  <2>1. CASE \/ \E p \in Posts : SavePost(p) \/ RetryRequest(p) \/ SweepRead(p)
             \/ SweepFailed
             \/ \E r \in Retriers : RetrySave(r)
             \/ \E c \in Certifiers : CertificateStep(c)
             \/ \E t \in PostTaskIds : PostJobStep(t) \/ \E p \in Posts : ReportErrored(t, p)
    BY <1>1, <2>1, PostsOwnership
  <2>2. CASE \/ \E l \in Linkers : LinkStep(l)
             \/ \E c \in Callers : GenStep(c)
             \/ \E r \in Retriers : UpdatePublishOrderId(r)
             \/ RequestPublish
    BY <1>1, <2>2, LinkingOwnership
  <2>3. ASSUME NEW d \in Dispatchers, DispatchStep(d) \/ RequestDispatch(d)
        PROVE  OwnershipInv'
    BY <1>1, <2>3, SelectOwnership, PrepareOwnership, QueueOwnership DEF DispatchStep
  <2>4. CASE \E j \in PublishJobs : PublishJobStep(j)
    BY <1>1, <2>4, PublishJobOwnership
  <2>5. CASE Restart
    BY <1>1, <2>5, RestartOwnership
  <2>6. QED
    BY <1>3, <2>1, <2>2, <2>3, <2>4, <2>5 DEF Next
<1>4. QED
  BY <1>2, <1>3

\* A publish order is never left doing without a publish task whose handlers end it,
\* whatever linkOrGeneratePublishSiteTask does to the orders meanwhile; and a site in
\* PUBLISHING always has a publish job whose end sets another status, unless the
\* handler of that job died.
THEOREM PublicationsOwned == Spec => []PublicationIsOwned
<1>1. OwnershipInv /\ [Next]_vars => OwnershipInv'
  BY NextOwnership
<1>2. OwnershipInv => PublicationIsOwned
  BY DEF OwnershipInv, PublicationIsOwned
<1>3. QED
  BY InitOwnership, <1>1, <1>2, PTL DEF Spec

-----------------------------------------------------------------------------
(* Posts. The row a retry saves was read before, so a save is harmless only   *)
(* where what it writes back still fits: see SavesFit, which holds when no     *)
(* post is ever retried, and when the posts of a task can only fail together.  *)

\* A dispatcher that prepares a post job has created its task.
DispatcherHasPostTask ==
    \A d \in Dispatchers :
        disp[d].pc \in {"batch", "collect", "doingPostTask", "doingSubmit", "postConfig"}
          => disp[d].postTask \in PostTaskIds

\* The dispatcher has a post task, and has not queued its job.
PreparesPosts(d) == disp[d].pc \in {"batch", "collect", "doingPostTask", "doingSubmit", "postConfig"}

\* What a retry is about to save puts no post into a job, or into a job that is
\* being prepared, and calls no post submitted that was never pushed.
SavesFit ==
    \A r \in Retriers : retry[r].pc = "save" =>
        /\ retry[r].row.submit # "doing"
        /\ retry[r].row.submit = "finished" => r[1] \in repo
        /\ \A d \in Dispatchers : PreparesPosts(d) => retry[r].row.task # disp[d].postTask

\* The inductive invariant, as long as SavesFit holds.
PostInv == TypeOK /\ DispatcherHasPostTask /\ DoingPostIsOwned

\* Nobody retries, for good.
NoRetries == MaxRetries = 0 /\ MaxSweeps = 0
NothingRetried == NoRetries /\ sweeps = 0 /\ \A r \in Retriers : retry[r].pc = "none"

\* Without retries there is nothing to save.
LEMMA NeverRetried ==
    ASSUME TypeOK, NothingRetried
    PROVE  /\ ~ SweepFailed
           /\ ~ \E p \in Posts : RetryRequest(p) \/ SweepRead(p)
           /\ ~ \E r \in Retriers : RetrySave(r)
           /\ SavesFit
<1>1. ASSUME NEW p \in Posts
      PROVE  ~RetryRequest(p) /\ ~SweepRead(p)
  <2>1. <<p, "sweep">> \in Retriers /\ ~(retries < MaxRetries)
    BY DEF NothingRetried, NoRetries, TypeOK, Retriers
  <2>2. QED
    BY <2>1 DEF NothingRetried, RetryRequest, SweepRead
<1>2. QED
  BY <1>1 DEF NothingRetried, RetrySave, SweepFailed, SavesFit

\* No step starts a retry: a new post starts a sweep only if there may be one.
LEMMA StaysUnretried ==
    ASSUME TypeOK, NothingRetried, [Next]_vars
    PROVE  NothingRetried'
<1>1. CASE UNCHANGED vars
  BY <1>1 DEF vars, NothingRetried
<1>2. CASE \E p \in Posts : SavePost(p)
  BY <1>2 DEF NothingRetried, NoRetries, SavePost
<1>3. CASE \/ \E c \in Certifiers : CertificateStep(c)
           \/ \E l \in Linkers : LinkStep(l)
           \/ \E c \in Callers : GenStep(c)
           \/ \E r \in Retriers : UpdatePublishOrderId(r)
           \/ RequestPublish
  <2>1. UNCHANGED <<retry, sweeps>>
    BY <1>3 DEF CertificateStep, DoingCertificate, UploadCertificate, UploadFailed, FailCertificate,
                LinkStep, LinkRead, LinkCreate, LinkOrders, LinkIds, LinkPosts,
                GenStep, GenFind, GenCreate, UpdatePublishOrderId, RequestPublish
  <2>2. QED
    BY <2>1 DEF NothingRetried
<1>4. CASE \E d \in Dispatchers : DispatchStep(d) \/ RequestDispatch(d)
  <2>1. UNCHANGED <<retry, sweeps>>
    BY <1>4 DEF DispatchStep, RequestDispatch, ReadPublishOrder, ReadPostOrder, CheckPublish, PickPending,
                DoingPublishTask, DoingPublishOrders, DoingPublishPosts, DoingPublishStatus, DispatchPublish,
                CreatePostTask, BatchPosts, CollectPosts, DoingPostTask, DoingSubmitPost, DispatchPosts, DispatchFailed
  <2>2. QED
    BY <2>1 DEF NothingRetried
<1>5. CASE \/ \E t \in PostTaskIds : PostJobStep(t) \/ \E p \in Posts : ReportErrored(t, p)
           \/ \E j \in PublishJobs : PublishJobStep(j)
  <2>1. UNCHANGED <<retry, sweeps>>
    BY <1>5 DEF PostJobStep, PostJobCompleted, PostJobFailed, FailPostTask, FailSubmitPosts, FinishPostTask,
                FinishSubmitPost, ReportErrored,
                PublishJobStep, PublishJobBuild, PublishJobCompleted, PublishJobFailed, FinishPublishTask,
                UpdateDomain, FinishPublishOrders, FinishPublishPosts, SetPublished,
                FailPublishTask, FailPublishOrders, FailPublishPosts, SetPublishFailed
  <2>2. QED
    BY <2>1 DEF NothingRetried
<1>6. CASE Restart
  BY <1>6 DEF NothingRetried, Restart, NoRetry
<1>7. QED
  BY <1>1, <1>2, <1>3, <1>4, <1>5, <1>6, NeverRetried DEF Next

\* A step that leaves the dispatchers and the post jobs alone, and the post task
\* of each post that is doing, keeps the invariant.
LEMMA ElsewherePosts ==
    ASSUME PostInv, TypeOK', UNCHANGED <<disp, postJob>>,
           \A p \in Posts : submitState'[p] = "doing" => submitState[p] = "doing" /\ postTaskId'[p] = postTaskId[p]
    PROVE  PostInv'
<1>1. \A t \in PostTaskIds : OwnsPosts(t)' <=> OwnsPosts(t)
  BY DEF OwnsPosts, DispatchingPost
<1>2. DoingPostIsOwned'
  <2>1. SUFFICES ASSUME NEW p \in Posts, submitState'[p] = "doing"
                 PROVE  postTaskId'[p] \in PostTaskIds /\ OwnsPosts(postTaskId[p])'
    BY DEF DoingPostIsOwned
  <2>2. PICK t \in PostTaskIds : t = postTaskId[p] /\ t = postTaskId'[p] /\ OwnsPosts(t)
    BY <2>1 DEF PostInv, DoingPostIsOwned
  <2>3. QED
    BY <1>1, <2>2
<1>3. DispatcherHasPostTask'
  BY DEF PostInv, DispatcherHasPostTask
<1>4. QED
  BY <1>2, <1>3 DEF PostInv

\* New posts, certificates, link and generate handlers and publish jobs are elsewhere.
LEMMA OthersPosts ==
    ASSUME PostInv, TypeOK',
           \/ \E p \in Posts : SavePost(p)
           \/ \E c \in Certifiers : CertificateStep(c)
           \/ \E l \in Linkers : LinkStep(l)
           \/ \E c \in Callers : GenStep(c)
           \/ \E r \in Retriers : UpdatePublishOrderId(r)
           \/ RequestPublish
           \/ \E j \in PublishJobs : PublishJobStep(j)
    PROVE  PostInv'
<1>1. ASSUME NEW p \in Posts, SavePost(p)
      PROVE  PostInv'
  <2>1. \A q \in Posts : submitState'[q] = "doing" => submitState[q] = "doing"
    BY <1>1 DEF PostInv, TypeOK, SavePost
  <2>2. QED
    BY <1>1, <2>1, ElsewherePosts DEF SavePost
<1>2. ASSUME NEW l \in Linkers, LinkStep(l)
      PROVE  PostInv'
  <2>1. UNCHANGED <<submitState, postTaskId, disp, postJob>>
    BY <1>2 DEF LinkStep, LinkRead, LinkCreate, LinkOrders, LinkIds, LinkPosts
  <2>2. QED
    BY <2>1, ElsewherePosts
<1>3. ASSUME (\E c \in Callers : GenStep(c)) \/ (\E r \in Retriers : UpdatePublishOrderId(r)) \/ RequestPublish
      PROVE  PostInv'
  <2>1. UNCHANGED <<submitState, postTaskId, disp, postJob>>
    BY <1>3 DEF GenStep, GenFind, GenCreate, UpdatePublishOrderId, RequestPublish
  <2>2. QED
    BY <2>1, ElsewherePosts
<1>4. ASSUME NEW j \in PublishJobs, PublishJobStep(j)
      PROVE  PostInv'
  <2>1. UNCHANGED <<submitState, postTaskId, disp, postJob>>
    BY <1>4 DEF PublishJobStep, PublishJobBuild, PublishJobCompleted, PublishJobFailed, FinishPublishTask,
                UpdateDomain, FinishPublishOrders, FinishPublishPosts, SetPublished,
                FailPublishTask, FailPublishOrders, FailPublishPosts, SetPublishFailed
  <2>2. QED
    BY <2>1, ElsewherePosts
<1>5. ASSUME NEW c \in Certifiers, CertificateStep(c)
      PROVE  PostInv'
  <2>1. UNCHANGED <<postTaskId, disp, postJob>>
    BY <1>5 DEF CertificateStep, DoingCertificate, UploadCertificate, UploadFailed, FailCertificate
  <2>2. \A p \in Posts : submitState'[p] = "doing" => submitState[p] = "doing"
    BY <1>5 DEF CertificateStep, DoingCertificate, UploadCertificate, UploadFailed, FailCertificate, PostInv, TypeOK
  <2>3. QED
    BY <2>1, <2>2, ElsewherePosts
<1>6. QED
  BY <1>1, <1>2, <1>3, <1>4, <1>5

-----------------------------------------------------------------------------
(* Dispatchers and post jobs. *)

\* A dispatcher that is not about to queue a post job.
LEMMA OtherDispatchPosts ==
    ASSUME PostInv, TypeOK', NEW d \in Dispatchers, Steps(d),
           UNCHANGED <<submitState, postTaskId, postJob>>, disp[d].pc # "postConfig",
           disp'[d].pc \in {"batch", "collect", "doingPostTask", "doingSubmit", "postConfig"}
             => disp'[d].postTask \in PostTaskIds
    PROVE  PostInv'
<1>1. DispatcherHasPostTask'
  BY DEF PostInv, DispatcherHasPostTask, Steps
<1>2. ASSUME NEW t \in PostTaskIds, OwnsPosts(t)
      PROVE  OwnsPosts(t)'
  BY <1>2 DEF OwnsPosts, DispatchingPost, Steps
<1>3. DoingPostIsOwned'
  <2>1. SUFFICES ASSUME NEW p \in Posts, submitState[p] = "doing"
                 PROVE  postTaskId'[p] \in PostTaskIds /\ OwnsPosts(postTaskId[p])'
    BY DEF DoingPostIsOwned
  <2>2. PICK t \in PostTaskIds : t = postTaskId[p] /\ t = postTaskId'[p] /\ OwnsPosts(t)
    BY <2>1 DEF PostInv, DoingPostIsOwned
  <2>3. QED
    BY <1>2, <2>2
<1>4. QED
  BY <1>1, <1>3 DEF PostInv

\* A dispatcher that moves without taking another post task.
LEMMA MovesPosts ==
    ASSUME TypeOK, NEW d \in Dispatchers
    PROVE  \A step : disp' = [disp EXCEPT ![d].pc = step] => disp'[d].postTask = disp[d].postTask
BY DEF TypeOK, DispatcherRun

\* Steps of a dispatcher that have nothing to do with post jobs.
LEMMA DispatchElsewhere ==
    ASSUME PostInv, TypeOK', NEW d \in Dispatchers,
           \/ ReadPublishOrder(d) \/ ReadPostOrder(d) \/ RequestDispatch(d)
           \/ CheckPublish(d) \/ PickPending(d) \/ DoingPublishTask(d) \/ DoingPublishOrders(d)
           \/ DoingPublishPosts(d) \/ DoingPublishStatus(d) \/ DispatchPublish(d) \/ DispatchFailed(d)
    PROVE  PostInv'
<1> DEFINE Elsewhere == {"idle", "readPost", "publish", "posts", "linking", "doingTask", "doingOrders",
                         "doingPosts", "doingStatus", "publishConfig", "awaitPublish", "awaitPost"}
<1>1. TypeOK
  BY DEF PostInv
<1>2. UNCHANGED <<submitState, postTaskId, postJob>>
  BY DEF ReadPublishOrder, ReadPostOrder, RequestDispatch, CheckPublish, PickPending, DoingPublishTask,
         DoingPublishOrders, DoingPublishPosts, DoingPublishStatus, DispatchPublish, DispatchFailed
<1>3. Steps(d) /\ disp[d].pc \in Elsewhere /\ disp'[d].pc \in Elsewhere
  <2>1. CASE ReadPublishOrder(d)
    BY <1>1, <2>1 DEF ReadPublishOrder, Idle, Steps, TypeOK
  <2>2. CASE ReadPostOrder(d)
    BY <1>1, <2>2 DEF ReadPostOrder, Idle, Steps, TypeOK, DispatcherRun
  <2>3. CASE PickPending(d)
    BY <1>1, <2>3 DEF PickPending, Idle, Steps, TypeOK, DispatcherRun
  <2>4. CASE RequestDispatch(d) \/ CheckPublish(d)
    BY <1>1, <2>4, Moves DEF RequestDispatch, CheckPublish
  <2>7. CASE DispatchPublish(d) \/ DispatchFailed(d)
    BY <1>1, <2>7, Moves DEF DispatchPublish, DispatchFailed
  <2>5. CASE DoingPublishTask(d) \/ DoingPublishOrders(d) \/ DoingPublishPosts(d) \/ DoingPublishStatus(d)
    BY <1>1, <2>5, Moves DEF DoingPublishTask, DoingPublishOrders, DoingPublishPosts, DoingPublishStatus
  <2>6. QED
    BY <2>1, <2>2, <2>3, <2>4, <2>5, <2>7
<1>4. QED
  BY <1>2, <1>3, OtherDispatchPosts

\* A dispatcher creates a task, gives it the pending posts and marks them.
LEMMA PreparePosts ==
    ASSUME PostInv, TypeOK', NEW d \in Dispatchers,
           CreatePostTask(d) \/ BatchPosts(d) \/ CollectPosts(d) \/ DoingPostTask(d) \/ DoingSubmitPost(d)
    PROVE  PostInv'
<1>1. TypeOK
  BY DEF PostInv
<1>2. CASE CreatePostTask(d)
  <2>1. disp[d].pc = "posts" /\ UNCHANGED <<submitState, postTaskId, postJob>>
    BY <1>2 DEF CreatePostTask
  <2>2. CASE disp' = [disp EXCEPT ![d] = Idle]
    <3>1. Steps(d) /\ disp'[d].pc = "idle"
      BY <1>1, <2>2, Moves
    <3>2. QED
      BY <2>1, <3>1, OtherDispatchPosts
  <2>3. CASE \E t \in PostTaskIds : disp' = [disp EXCEPT ![d].pc = "batch", ![d].postTask = t]
    <3>1. PICK t \in PostTaskIds : disp' = [disp EXCEPT ![d].pc = "batch", ![d].postTask = t]
      BY <2>3
    <3>2. disp[d] \in DispatcherRun /\ disp'[d] = [disp[d] EXCEPT !.pc = "batch", !.postTask = t] /\ Steps(d)
      BY <1>1, <3>1 DEF TypeOK, Steps
    <3>3. disp'[d].postTask = t
      BY <3>2 DEF DispatcherRun
    <3>4. QED
      BY <2>1, <3>2, <3>3, OtherDispatchPosts
  <2>4. QED
    BY <1>2, <2>2, <2>3 DEF CreatePostTask
<1>3. CASE BatchPosts(d)
  <2>1. /\ Steps(d) /\ disp[d].pc = "batch"
        /\ disp'[d].pc = "collect" /\ disp'[d].postTask = disp[d].postTask
    BY <1>1, <1>3, Moves, MovesPosts DEF BatchPosts
  <2>2. DispatcherHasPostTask'
    BY <2>1 DEF PostInv, DispatcherHasPostTask, Steps
  <2>3. ASSUME NEW t \in PostTaskIds, OwnsPosts(t)
        PROVE  OwnsPosts(t)'
    BY <1>3, <2>1, <2>3 DEF OwnsPosts, DispatchingPost, Steps, BatchPosts
  <2>4. DoingPostIsOwned'
    <3>1. SUFFICES ASSUME NEW p \in Posts, submitState'[p] = "doing"
                   PROVE  postTaskId'[p] \in PostTaskIds /\ OwnsPosts(postTaskId[p])'
      BY DEF DoingPostIsOwned
    <3>2. submitState[p] = "doing" /\ postTaskId'[p] = postTaskId[p]
      BY <1>3, <3>1 DEF BatchPosts
    <3>3. PICK t \in PostTaskIds : t = postTaskId[p] /\ OwnsPosts(t)
      BY <3>2 DEF PostInv, DoingPostIsOwned
    <3>4. QED
      BY <2>3, <3>2, <3>3
  <2>5. QED
    BY <2>2, <2>4 DEF PostInv
<1>4. CASE CollectPosts(d) \/ DoingPostTask(d)
  <2>1. /\ Steps(d) /\ disp[d].pc \in {"collect", "doingPostTask"}
        /\ disp'[d].postTask = disp[d].postTask
    BY <1>1, <1>4, Moves, MovesPosts DEF CollectPosts, DoingPostTask
  <2>2. disp[d].postTask \in PostTaskIds
    BY <2>1 DEF PostInv, DispatcherHasPostTask
  <2>3. UNCHANGED <<submitState, postTaskId, postJob>>
    BY <1>4 DEF CollectPosts, DoingPostTask
  <2>4. QED
    BY <2>1, <2>2, <2>3, OtherDispatchPosts
<1>5. CASE DoingSubmitPost(d)
  <2>1. /\ Steps(d) /\ disp[d].pc = "doingSubmit"
        /\ disp'[d].pc = "postConfig" /\ disp'[d].postTask = disp[d].postTask
    BY <1>1, <1>5, Moves, MovesPosts DEF DoingSubmitPost
  <2>2. disp[d].postTask \in PostTaskIds
    BY <2>1 DEF PostInv, DispatcherHasPostTask
  <2>3. DispatcherHasPostTask'
    BY <2>1 DEF PostInv, DispatcherHasPostTask, Steps
  <2>4. DoingPostIsOwned'
    <3>1. SUFFICES ASSUME NEW p \in Posts, submitState'[p] = "doing"
                   PROVE  postTaskId'[p] \in PostTaskIds /\ OwnsPosts(postTaskId[p])'
      BY DEF DoingPostIsOwned
    <3>2. postTaskId'[p] = postTaskId[p]
      BY <1>5 DEF DoingSubmitPost
    <3>3. CASE postTaskId[p] = disp[d].postTask
      <4>1. PICK t \in PostTaskIds : t = postTaskId[p] /\ t = disp[d].postTask
        BY <2>2, <3>3
      <4>2. OwnsPosts(t)'
        BY <2>1, <4>1 DEF OwnsPosts, DispatchingPost
      <4>3. QED
        BY <3>2, <4>1, <4>2
    <3>4. CASE postTaskId[p] # disp[d].postTask
      <4>1. submitState[p] = "doing"
        BY <1>5, <3>1, <3>4 DEF DoingSubmitPost
      <4>2. PICK t \in PostTaskIds : t = postTaskId[p] /\ OwnsPosts(t)
        BY <4>1 DEF PostInv, DoingPostIsOwned
      <4>3. OwnsPosts(t)'
        BY <1>5, <2>1, <4>2 DEF OwnsPosts, DispatchingPost, Steps, DoingSubmitPost
      <4>4. QED
        BY <3>2, <4>2, <4>3
    <3>5. QED
      BY <3>3, <3>4
  <2>5. QED
    BY <2>3, <2>4 DEF PostInv
<1>6. QED
  BY <1>2, <1>3, <1>4, <1>5

\* The job is queued, or its fail handler starts.
LEMMA QueuePosts ==
    ASSUME PostInv, TypeOK', NEW d \in Dispatchers, DispatchPosts(d)
    PROVE  PostInv'
<1>1. /\ Steps(d) /\ disp[d].pc = "postConfig" /\ disp'[d].pc \in {"idle", "awaitPost"}
  BY Moves DEF DispatchPosts, PostInv
<1>2. PICK t0 \in PostTaskIds : t0 = disp[d].postTask
  BY <1>1 DEF PostInv, DispatcherHasPostTask
<1>3. postJob'[t0] \in {"active", "fail"} /\ \A t \in PostTaskIds \ {t0} : postJob'[t] = postJob[t]
  BY <1>2 DEF DispatchPosts, PostInv, TypeOK
<1>4. DispatcherHasPostTask'
  BY <1>1 DEF PostInv, DispatcherHasPostTask, Steps
<1>5. ASSUME NEW t \in PostTaskIds, OwnsPosts(t)
      PROVE  OwnsPosts(t)'
  BY <1>1, <1>2, <1>3, <1>5 DEF OwnsPosts, DispatchingPost, Steps
<1>6. DoingPostIsOwned'
  <2>1. SUFFICES ASSUME NEW p \in Posts, submitState'[p] = "doing"
                 PROVE  postTaskId'[p] \in PostTaskIds /\ OwnsPosts(postTaskId[p])'
    BY DEF DoingPostIsOwned
  <2>2. submitState[p] = "doing" /\ postTaskId'[p] = postTaskId[p]
    BY <2>1 DEF DispatchPosts
  <2>3. PICK t \in PostTaskIds : t = postTaskId[p] /\ OwnsPosts(t)
    BY <2>2 DEF PostInv, DoingPostIsOwned
  <2>4. QED
    BY <1>5, <2>2, <2>3
<1>7. QED
  BY <1>4, <1>6 DEF PostInv

\* The job of t goes on or ends: when it ends, none of its posts is doing.
LEMMA JobPosts ==
    ASSUME PostInv, TypeOK', NEW t \in PostTaskIds, UNCHANGED <<disp, postTaskId>>,
           \A u \in PostTaskIds \ {t} : postJob'[u] = postJob[u],
           \A p \in Posts : submitState'[p] = "doing" =>
               /\ submitState[p] = "doing"
               /\ postTaskId[p] = t =>
                    postJob'[t] \in {"active", "completed", "fail", "failPosts", "lost"}
    PROVE  PostInv'
<1>1. ASSUME NEW p \in Posts, submitState'[p] = "doing"
      PROVE  postTaskId'[p] \in PostTaskIds /\ OwnsPosts(postTaskId[p])'
  <2>1. PICK u \in PostTaskIds : u = postTaskId[p] /\ OwnsPosts(u)
    BY <1>1 DEF PostInv, DoingPostIsOwned
  <2>2. OwnsPosts(u)'
    BY <1>1, <2>1 DEF OwnsPosts, DispatchingPost
  <2>3. QED
    BY <2>1, <2>2
<1>2. DoingPostIsOwned'
  BY <1>1 DEF DoingPostIsOwned
<1>3. DispatcherHasPostTask'
  BY DEF PostInv, DispatcherHasPostTask
<1>4. QED
  BY <1>2, <1>3 DEF PostInv

\* A post job, its handlers and its reports.
LEMMA PostJobPosts ==
    ASSUME PostInv, TypeOK', NEW t \in PostTaskIds,
           PostJobStep(t) \/ \E p \in Posts : ReportErrored(t, p)
    PROVE  PostInv'
<1>1. CASE FinishPostTask(t)
  BY <1>1, ElsewherePosts DEF FinishPostTask
<1>2. CASE \/ PostJobCompleted(t) \/ PostJobFailed(t) \/ FailPostTask(t) \/ FailSubmitPosts(t)
           \/ FinishSubmitPost(t) \/ \E q \in Posts : ReportErrored(t, q)
  <2>1. UNCHANGED <<disp, postTaskId>>
    BY <1>2 DEF PostJobCompleted, PostJobFailed, FailPostTask, FailSubmitPosts, FinishSubmitPost, ReportErrored
  <2>2. \A u \in PostTaskIds \ {t} : postJob'[u] = postJob[u]
    BY <1>2 DEF PostJobCompleted, PostJobFailed, FailPostTask, FailSubmitPosts, FinishSubmitPost,
                ReportErrored, PostInv, TypeOK
  <2>3. ASSUME NEW p \in Posts, submitState'[p] = "doing"
        PROVE  /\ submitState[p] = "doing"
               /\ postTaskId[p] = t => postJob'[t] \in {"active", "completed", "fail", "failPosts", "lost"}
    <3>1. CASE PostJobCompleted(t) \/ PostJobFailed(t) \/ FailPostTask(t)
      BY <2>3, <3>1 DEF PostJobCompleted, PostJobFailed, FailPostTask, PostInv, TypeOK
    <3>2. CASE FailSubmitPosts(t)
      BY <2>3, <3>2 DEF FailSubmitPosts
    <3>3. CASE FinishSubmitPost(t)
      BY <2>3, <3>3 DEF FinishSubmitPost
    <3>4. CASE \E q \in Posts : ReportErrored(t, q)
      BY <2>3, <3>4 DEF ReportErrored, PostInv, TypeOK
    <3>5. QED
      BY <1>2, <3>1, <3>2, <3>3, <3>4
  <2>4. QED
    BY <2>1, <2>2, <2>3, JobPosts
<1>3. QED
  BY <1>1, <1>2 DEF PostJobStep

\* A job that is still queued survives the restart, the rest is "lost".
LEMMA RestartPosts ==
    ASSUME PostInv, TypeOK', Restart
    PROVE  PostInv'
<1>1. ASSUME NEW p \in Posts, submitState'[p] = "doing"
      PROVE  postTaskId'[p] \in PostTaskIds /\ OwnsPosts(postTaskId[p])'
  <2>1. PICK t \in PostTaskIds : t = postTaskId[p] /\ t = postTaskId'[p] /\ OwnsPosts(t)
    BY <1>1 DEF Restart, PostInv, DoingPostIsOwned
  <2>2. postJob'[t] \in {"active", "lost"}
    BY <2>1 DEF Restart, OwnsPosts
  <2>3. QED
    BY <2>1, <2>2 DEF OwnsPosts
<1>2. DoingPostIsOwned'
  BY <1>1 DEF DoingPostIsOwned
<1>3. DispatcherHasPostTask'
  BY DEF Restart, DispatcherHasPostTask, Idle
<1>4. QED
  BY <1>2, <1>3 DEF PostInv

\* A retry reads the post, and saves it again.
LEMMA RetryPosts ==
    ASSUME PostInv, TypeOK', SavesFit,
           \/ SweepFailed
           \/ \E p \in Posts : RetryRequest(p) \/ SweepRead(p)
           \/ \E r \in Retriers : RetrySave(r)
    PROVE  PostInv'
<1>1. CASE SweepFailed \/ \E p \in Posts : RetryRequest(p) \/ SweepRead(p)
  <2>1. UNCHANGED <<submitState, postTaskId, disp, postJob>>
    BY <1>1 DEF SweepFailed, RetryRequest, SweepRead
  <2>2. QED
    BY <2>1, ElsewherePosts
<1>2. ASSUME NEW r \in Retriers, RetrySave(r)
      PROVE  PostInv'
  <2>1. UNCHANGED <<disp, postJob>> /\ retry[r].row.submit # "doing"
    BY <1>2 DEF RetrySave, SavesFit
  <2>2. ASSUME NEW p \in Posts, submitState'[p] = "doing"
        PROVE  submitState[p] = "doing" /\ postTaskId'[p] = postTaskId[p]
    <3>1. /\ submitState' = [submitState EXCEPT ![r[1]] = retry[r].row.submit]
          /\ postTaskId' = [postTaskId EXCEPT ![r[1]] = retry[r].row.task]
      BY <1>2, Zenon DEF RetrySave
    <3>2. DOMAIN submitState = Posts /\ DOMAIN postTaskId = Posts
      BY DEF PostInv, TypeOK
    <3>3. p # r[1]
      BY <2>1, <2>2, <3>1, <3>2
    <3>4. QED
      BY <2>2, <3>1, <3>2, <3>3
  <2>3. QED
    BY <2>1, <2>2, ElsewherePosts
<1>3. QED
  BY <1>1, <1>2

\* Every step keeps the invariant, where what retries save fits.
LEMMA NextPosts ==
    ASSUME PostInv, SavesFit, [Next]_vars
    PROVE  PostInv'
<1>1. TypeOK'
  BY NextType DEF PostInv
<1>2. CASE UNCHANGED vars
  BY <1>1, <1>2, ElsewherePosts DEF vars
<1>3. CASE Next
  <2>1. CASE \/ \E p \in Posts : SavePost(p) \/ RetryRequest(p) \/ SweepRead(p)
             \/ SweepFailed
             \/ \E r \in Retriers : RetrySave(r)
    BY <1>1, <2>1, RetryPosts, OthersPosts
  <2>2. CASE \/ \E l \in Linkers : LinkStep(l)
             \/ \E c \in Callers : GenStep(c)
             \/ \E r \in Retriers : UpdatePublishOrderId(r)
             \/ RequestPublish
             \/ \E j \in PublishJobs : PublishJobStep(j)
             \/ \E c \in Certifiers : CertificateStep(c)
    BY <1>1, <2>2, OthersPosts
  <2>3. ASSUME NEW d \in Dispatchers, DispatchStep(d) \/ RequestDispatch(d)
        PROVE  PostInv'
    BY <1>1, <2>3, DispatchElsewhere, PreparePosts, QueuePosts DEF DispatchStep
  <2>4. CASE \E t \in PostTaskIds : PostJobStep(t) \/ \E p \in Posts : ReportErrored(t, p)
    BY <1>1, <2>4, PostJobPosts
  <2>5. CASE Restart
    BY <1>1, <2>5, RestartPosts
  <2>6. QED
    BY <1>3, <2>1, <2>2, <2>3, <2>4, <2>5 DEF Next
<1>4. QED
  BY <1>2, <1>3
=============================================================================
