------------------- MODULE PublishPipeline_lifecycle_proofs -------------------
(***************************************************************************)
(* What the dispatcher's queries and the site's status are a lock for.     *)
(* Everything here is about one run of the dispatcher at a time, which is  *)
(* what the consumer of the dispatch queue with concurrency 1 is.          *)
(***************************************************************************)
EXTENDS PublishPipeline_outcomes_proofs, FiniteSetTheorems

\* The tuples of the UNCHANGED clauses.
USE DEF linkRest, ordersRest, jobsRest, dispRest, certRest, postRows, certRows, postTaskRows, orderRows, git, counters

SingleDispatcher == \A d, e \in Dispatchers : d = e

-----------------------------------------------------------------------------
(* One publication at a time. *)

\* A publish job that is queued, or whose handler is still to set the site's status.
BusyStates == {"active", "building", "finish", "domain", "finishOrders", "finishPosts",
               "setPublished", "fail", "failOrders", "failPosts", "failStatus"}
Busy(j) == publishJob[j] \in BusyStates

\* The dispatcher has selected a publish order, and has not queued the job.
TowardPublish(d) ==
    \/ disp[d].pc \in {"publish", "linking"} \union Preparing
    \/ disp[d].pc = "readPost" /\ disp[d].order # NoId

OneBusyJob == \A j, k \in PublishJobs : Busy(j) /\ Busy(k) => j = k
BusyIsPublishing == \A j \in PublishJobs : Busy(j) => siteStatus = "PUBLISHING"
PublishesAlone ==
    \A d \in Dispatchers :
        /\ TowardPublish(d) => \A j \in PublishJobs : ~Busy(j)
        /\ disp[d].pc = "publishConfig" => siteStatus = "PUBLISHING"

\* The inductive invariant: the status PUBLISHING, which both queries respect,
\* outlives every busy job.
PublicationInv == TypeOK /\ OneBusyJob /\ BusyIsPublishing /\ PublishesAlone

\* A step that leaves the dispatchers, the publish jobs and the status alone.
LEMMA ElsewherePublication ==
    ASSUME PublicationInv, TypeOK', UNCHANGED <<disp, publishJob, siteStatus>>
    PROVE  PublicationInv'
BY DEF PublicationInv, OneBusyJob, BusyIsPublishing, PublishesAlone, TowardPublish, Busy

\* Everything but the dispatcher, publish jobs and a restart is elsewhere.
LEMMA OthersPublication ==
    ASSUME PublicationInv, TypeOK',
           \/ \E p \in Posts : SavePost(p) \/ RetryRequest(p) \/ SweepRead(p)
           \/ SweepFailed
           \/ \E r \in Retriers : RetrySave(r) \/ UpdatePublishOrderId(r)
           \/ \E c \in Certifiers : CertificateStep(c)
           \/ \E l \in Linkers : LinkStep(l)
           \/ \E c \in Callers : GenStep(c)
           \/ RequestPublish
           \/ \E t \in PostTaskIds : PostJobStep(t) \/ \E p \in Posts : ReportErrored(t, p)
    PROVE  PublicationInv'
<1>1. CASE \/ \E p \in Posts : SavePost(p) \/ RetryRequest(p) \/ SweepRead(p)
           \/ SweepFailed
           \/ \E r \in Retriers : RetrySave(r)
  BY <1>1, ElsewherePublication DEF SavePost, RetryRequest, SweepRead, SweepFailed, RetrySave
<1>2. CASE \E c \in Certifiers : CertificateStep(c)
  BY <1>2, ElsewherePublication
     DEF CertificateStep, DoingCertificate, UploadCertificate, UploadFailed, FailCertificate
<1>3. CASE \E l \in Linkers : LinkStep(l)
  BY <1>3, ElsewherePublication DEF LinkStep, LinkRead, LinkCreate, LinkOrders, LinkIds, LinkPosts
<1>4. CASE (\E c \in Callers : GenStep(c)) \/ (\E r \in Retriers : UpdatePublishOrderId(r)) \/ RequestPublish
  BY <1>4, ElsewherePublication DEF GenStep, GenFind, GenCreate, UpdatePublishOrderId, RequestPublish
<1>5. CASE \E t \in PostTaskIds : PostJobStep(t) \/ \E p \in Posts : ReportErrored(t, p)
  BY <1>5, ElsewherePublication
     DEF PostJobStep, PostJobCompleted, PostJobFailed, FailPostTask, FailSubmitPosts, FinishPostTask,
         FinishSubmitPost, ReportErrored
<1>6. QED
  BY <1>1, <1>2, <1>3, <1>4, <1>5

\* The dispatcher's record before and after each of its statements.
LEMMA Selects ==
    ASSUME TypeOK, NEW d \in Dispatchers
    PROVE  /\ ReadPublishOrder(d) => /\ Steps(d) /\ disp[d].pc = "idle" /\ disp'[d].pc = "readPost"
                                     /\ disp'[d].order # NoId => DispatchableOrders # {}
           /\ ReadPostOrder(d) => /\ Steps(d) /\ disp[d].pc = "readPost"
                                  /\ \/ disp'[d].pc = "publish" /\ disp[d].order # NoId
                                     \/ disp'[d].pc = "posts" /\ DispatchablePosts # {}
                                     \/ disp'[d].pc = "idle"
           /\ CheckPublish(d) => /\ Steps(d) /\ disp[d].pc = "publish"
                                 /\ disp'[d].pc \in {"idle", "linking"}
           /\ PickPending(d) => /\ Steps(d) /\ disp[d].pc = "linking"
                                /\ \/ disp'[d].pc = "idle"
                                   \/ /\ disp'[d].pc = "doingTask"
                                      /\ disp'[d].publishTask \in PendingPublishTasks
<1>1. ASSUME ReadPublishOrder(d)
      PROVE  /\ Steps(d) /\ disp[d].pc = "idle" /\ disp'[d].pc = "readPost"
             /\ disp'[d].order # NoId => DispatchableOrders # {}
  BY <1>1 DEF ReadPublishOrder, TypeOK, Steps, Idle, NoId
<1>2. ASSUME ReadPostOrder(d)
      PROVE  /\ Steps(d) /\ disp[d].pc = "readPost"
             /\ \/ disp'[d].pc = "publish" /\ disp[d].order # NoId
                \/ disp'[d].pc = "posts" /\ DispatchablePosts # {}
                \/ disp'[d].pc = "idle"
  <2>1. disp[d] \in DispatcherRun /\ Steps(d) /\ disp[d].pc = "readPost"
    BY <1>2 DEF ReadPostOrder, TypeOK, Steps
  <2>2. CASE OrderFirst(disp[d].order, DispatchablePosts)
    <3>1. disp'[d] = [disp[d] EXCEPT !.pc = "publish"]
      BY <1>2, <2>2 DEF ReadPostOrder, TypeOK
    <3>2. QED
      BY <2>1, <2>2, <3>1 DEF DispatcherRun, OrderFirst
  <2>3. CASE ~OrderFirst(disp[d].order, DispatchablePosts) /\ DispatchablePosts # {}
    <3>1. disp'[d] = [disp[d] EXCEPT !.pc = "posts", !.order = NoId]
      BY <1>2, <2>3 DEF ReadPostOrder, TypeOK
    <3>2. QED
      BY <2>1, <2>3, <3>1 DEF DispatcherRun
  <2>4. CASE ~OrderFirst(disp[d].order, DispatchablePosts) /\ DispatchablePosts = {}
    <3>1. disp'[d] = Idle
      BY <1>2, <2>4 DEF ReadPostOrder, TypeOK
    <3>2. QED
      BY <2>1, <3>1 DEF Idle
  <2>5. QED
    BY <2>2, <2>3, <2>4
<1>3. ASSUME CheckPublish(d)
      PROVE  Steps(d) /\ disp[d].pc = "publish" /\ disp'[d].pc \in {"idle", "linking"}
  BY <1>3, Moves DEF CheckPublish
<1>4. ASSUME PickPending(d)
      PROVE  /\ Steps(d) /\ disp[d].pc = "linking"
             /\ \/ disp'[d].pc = "idle"
                \/ disp'[d].pc = "doingTask" /\ disp'[d].publishTask \in PendingPublishTasks
  <2>1. disp[d] \in DispatcherRun /\ Steps(d) /\ disp[d].pc = "linking"
    BY <1>4 DEF PickPending, TypeOK, Steps
  <2>2. CASE PendingPublishTasks = {}
    <3>1. disp'[d] = Idle
      BY <1>4, <2>2 DEF PickPending, TypeOK
    <3>2. QED
      BY <2>1, <3>1 DEF Idle
  <2>3. CASE PendingPublishTasks # {}
    <3>1. disp'[d] = [disp[d] EXCEPT !.pc = "doingTask", !.publishTask = Newest(PendingPublishTasks)]
      BY <1>4, <2>3 DEF PickPending, TypeOK
    <3>2. Newest(PendingPublishTasks) \in PendingPublishTasks
      <4>1. PendingPublishTasks \in SUBSET (1..MaxPublishTasks)
        BY DEF PendingPublishTasks, PublishTaskIds
      <4>2. QED
        BY <2>3, <4>1, NewestIsRow, BoundsAssumption
    <3>3. QED
      BY <2>1, <3>1, <3>2 DEF DispatcherRun
  <2>4. QED
    BY <2>2, <2>3
<1>5. QED
  BY <1>1, <1>2, <1>3, <1>4

\* The same for the statements that prepare a post job: a dispatcher creates a task of its own.
LEMMA Creates ==
    ASSUME TypeOK, NEW d \in Dispatchers, CreatePostTask(d)
    PROVE  /\ Steps(d) /\ disp[d].pc = "posts"
           /\ \/ disp'[d].pc = "idle" /\ UNCHANGED postTaskState
              \/ /\ siteStatus # "PUBLISHING" /\ disp'[d].pc = "batch"
                 /\ disp'[d].postTask \in PostTaskIds
                 /\ postTaskState[disp'[d].postTask] = "absent"
                 /\ postTaskState' = [postTaskState EXCEPT ![disp'[d].postTask] = "pending"]
<1>1. CASE disp' = [disp EXCEPT ![d] = Idle] /\ UNCHANGED postTaskState
  <2>1. disp[d].pc = "posts"
    BY DEF CreatePostTask
  <2>2. Steps(d) /\ disp'[d].pc = "idle"
    BY <1>1, Moves
  <2>3. QED
    BY <1>1, <2>1, <2>2
<1>2. CASE siteStatus # "PUBLISHING" /\
           \E t \in PostTaskIds : /\ postTaskState[t] = "absent"
                                  /\ postTaskState' = [postTaskState EXCEPT ![t] = "pending"]
                                  /\ disp' = [disp EXCEPT ![d].pc = "batch", ![d].postTask = t]
  <2>1. PICK t \in PostTaskIds : /\ postTaskState[t] = "absent"
                                 /\ postTaskState' = [postTaskState EXCEPT ![t] = "pending"]
                                 /\ disp' = [disp EXCEPT ![d].pc = "batch", ![d].postTask = t]
    BY <1>2
  <2>2. disp[d] \in DispatcherRun /\ disp'[d] = [disp[d] EXCEPT !.pc = "batch", !.postTask = t] /\ Steps(d)
    BY <2>1 DEF TypeOK, Steps
  <2>3. disp'[d].postTask = t /\ disp'[d].pc = "batch"
    BY <2>2 DEF DispatcherRun
  <2>4. QED
    BY <1>2, <2>1, <2>2, <2>3 DEF CreatePostTask
<1>3. QED
  BY <1>1, <1>2 DEF CreatePostTask

\* A publish order is only selected outside of PUBLISHING, and the dispatcher is
\* the only one to queue a publish job and to set that status.
LEMMA DispatchPublication ==
    ASSUME SingleDispatcher, PublicationInv, TypeOK', NEW d \in Dispatchers, DispatchStep(d)
    PROVE  PublicationInv'
<1>1. TypeOK /\ \A e \in Dispatchers : e = d
  BY DEF PublicationInv, SingleDispatcher
<1>2. CASE UNCHANGED <<publishJob, siteStatus>> /\ ~TowardPublish(d)' /\ disp'[d].pc # "publishConfig"
  BY <1>1, <1>2 DEF PublicationInv, OneBusyJob, BusyIsPublishing, PublishesAlone, Busy
<1>3. CASE UNCHANGED <<publishJob, siteStatus>> /\ TowardPublish(d) /\ disp'[d].pc # "publishConfig"
  BY <1>1, <1>3 DEF PublicationInv, OneBusyJob, BusyIsPublishing, PublishesAlone, Busy
<1>4. CASE ReadPublishOrder(d)
  <2>1. UNCHANGED <<publishJob, siteStatus>>
    BY <1>4 DEF ReadPublishOrder
  <2>2. disp'[d].pc = "readPost" /\ (disp'[d].order # NoId => DispatchableOrders # {})
    BY <1>1, <1>4, Selects
  <2>3. DispatchableOrders # {} => siteStatus # "PUBLISHING"
    BY DEF DispatchableOrders
  <2>4. TowardPublish(d)' => \A j \in PublishJobs : ~Busy(j)
    BY <2>2, <2>3 DEF TowardPublish, Preparing, PublicationInv, BusyIsPublishing
  <2>5. QED
    BY <1>1, <2>1, <2>2, <2>4 DEF PublicationInv, OneBusyJob, BusyIsPublishing, PublishesAlone, Busy
<1>5. CASE ReadPostOrder(d)
  <2>1. UNCHANGED <<publishJob, siteStatus>>
    BY <1>5 DEF ReadPostOrder
  <2>2. TowardPublish(d)' => TowardPublish(d)
    BY <1>1, <1>5, Selects DEF TowardPublish, Preparing
  <2>3. disp'[d].pc # "publishConfig"
    BY <1>1, <1>5, Selects
  <2>4. QED
    BY <1>2, <1>3, <2>1, <2>2, <2>3
<1>6. CASE CheckPublish(d) \/ PickPending(d)
  <2>1. UNCHANGED <<publishJob, siteStatus>>
    BY <1>6 DEF CheckPublish, PickPending
  <2>2. TowardPublish(d) /\ disp'[d].pc # "publishConfig"
    BY <1>1, <1>6, Selects DEF TowardPublish
  <2>3. QED
    BY <1>3, <2>1, <2>2
<1>7. CASE DoingPublishTask(d) \/ DoingPublishOrders(d) \/ DoingPublishPosts(d)
  <2>1. UNCHANGED <<publishJob, siteStatus>>
    BY <1>7 DEF DoingPublishTask, DoingPublishOrders, DoingPublishPosts
  <2>2. TowardPublish(d) /\ disp'[d].pc # "publishConfig"
    BY <1>1, <1>7, Moves DEF DoingPublishTask, DoingPublishOrders, DoingPublishPosts, TowardPublish, Preparing
  <2>3. QED
    BY <1>3, <2>1, <2>2
<1>8. CASE DoingPublishStatus(d)
  <2>1. /\ UNCHANGED publishJob /\ siteStatus' = "PUBLISHING"
        /\ TowardPublish(d)
    BY <1>8 DEF DoingPublishStatus, TowardPublish, Preparing
  <2>2. QED
    BY <1>1, <2>1 DEF PublicationInv, OneBusyJob, BusyIsPublishing, PublishesAlone, Busy
<1>9. CASE DispatchPublish(d)
  <2>1. /\ disp[d].pc = "publishConfig" /\ UNCHANGED siteStatus
        /\ \A j \in PublishJobs : j # <<disp[d].publishTask, d>> => publishJob'[j] = publishJob[j]
    BY <1>1, <1>9 DEF DispatchPublish, TypeOK
  <2>2. siteStatus = "PUBLISHING" /\ \A j \in PublishJobs : ~Busy(j)
    BY <2>1 DEF PublicationInv, PublishesAlone, TowardPublish, Preparing
  <2>3. disp'[d].pc \in {"idle", "awaitPublish"}
    BY <1>1, <1>9, Moves DEF DispatchPublish
  <2>4. ~TowardPublish(d)'
    BY <2>3 DEF TowardPublish, Preparing
  <2>5. QED
    BY <1>1, <2>1, <2>2, <2>3, <2>4 DEF PublicationInv, OneBusyJob, BusyIsPublishing, PublishesAlone, Busy
<1>10. CASE \/ CreatePostTask(d) \/ BatchPosts(d) \/ CollectPosts(d) \/ DoingPostTask(d)
            \/ DoingSubmitPost(d) \/ DispatchPosts(d) \/ DispatchFailed(d)
  <2>1. UNCHANGED <<publishJob, siteStatus>>
    BY <1>10 DEF CreatePostTask, BatchPosts, CollectPosts, DoingPostTask, DoingSubmitPost, DispatchPosts, DispatchFailed
  <2>2. disp'[d].pc \in {"idle", "batch", "collect", "doingPostTask", "doingSubmit", "postConfig", "awaitPost"}
    BY <1>1, <1>10, Moves, Creates
       DEF BatchPosts, CollectPosts, DoingPostTask, DoingSubmitPost, DispatchPosts, DispatchFailed, Idle
  <2>3. QED
    BY <1>2, <2>1, <2>2 DEF TowardPublish, Preparing
<1>11. QED
  BY <1>4, <1>5, <1>6, <1>7, <1>8, <1>9, <1>10 DEF DispatchStep

\* A publish job goes on, and when it sets another status it is no longer busy.
LEMMA PublishJobPublication ==
    ASSUME PublicationInv, TypeOK', NEW j \in PublishJobs, PublishJobStep(j)
    PROVE  PublicationInv'
<1>1. TypeOK
  BY DEF PublicationInv
<1>2. /\ Busy(j) /\ JobSteps(j)
      /\ Busy(j)' => UNCHANGED siteStatus
  <2>1. PICK from \in BusyStates, to \in {"building", "finish", "domain", "finishOrders", "finishPosts",
             "setPublished", "fail", "failOrders", "failPosts", "failStatus", "done", "stuck"} :
             AdvancePublish(j, from, to) /\ (to # "done" => UNCHANGED siteStatus)
    BY DEF PublishJobStep, PublishJobBuild, PublishJobCompleted, PublishJobFailed, FinishPublishTask,
           UpdateDomain, FinishPublishOrders, FinishPublishPosts, SetPublished, FailPublishTask,
           FailPublishOrders, FailPublishPosts, SetPublishFailed, BusyStates
  <2>2. publishJob[j] = from /\ publishJob'[j] = to /\ JobSteps(j)
    BY <1>1, <2>1, Advances
  <2>3. QED
    BY <2>1, <2>2 DEF Busy, BusyStates
<1>3. UNCHANGED disp
  BY DEF PublishJobStep, PublishJobBuild, PublishJobCompleted, PublishJobFailed, FinishPublishTask,
         UpdateDomain, FinishPublishOrders, FinishPublishPosts, SetPublished, FailPublishTask,
         FailPublishOrders, FailPublishPosts, SetPublishFailed
<1>4. \A k \in PublishJobs : Busy(k) => k = j
  BY <1>2 DEF PublicationInv, OneBusyJob
<1>5. \A k \in PublishJobs : Busy(k)' => k = j
  BY <1>2, <1>4 DEF Busy, JobSteps
<1>6. \A d \in Dispatchers : ~TowardPublish(d) /\ disp[d].pc # "publishConfig"
  BY <1>2 DEF PublicationInv, PublishesAlone, TowardPublish, Preparing
<1>7. PublishesAlone'
  BY <1>3, <1>6 DEF PublishesAlone, TowardPublish
<1>8. OneBusyJob' /\ BusyIsPublishing'
  BY <1>2, <1>5 DEF PublicationInv, OneBusyJob, BusyIsPublishing
<1>9. QED
  BY <1>7, <1>8 DEF PublicationInv

\* Every step keeps the invariant.
LEMMA NextPublication ==
    ASSUME SingleDispatcher, MaxRequests = 0, PublicationInv, [Next]_vars
    PROVE  PublicationInv'
<1>1. TypeOK'
  BY NextType DEF PublicationInv
<1>2. CASE UNCHANGED vars
  BY <1>1, <1>2, ElsewherePublication DEF vars
<1>3. CASE Next
  <2>1. CASE \/ \E p \in Posts : SavePost(p) \/ RetryRequest(p) \/ SweepRead(p)
             \/ SweepFailed
             \/ \E r \in Retriers : RetrySave(r) \/ UpdatePublishOrderId(r)
             \/ \E c \in Certifiers : CertificateStep(c)
             \/ \E l \in Linkers : LinkStep(l)
             \/ \E c \in Callers : GenStep(c)
             \/ RequestPublish
             \/ \E t \in PostTaskIds : PostJobStep(t) \/ \E p \in Posts : ReportErrored(t, p)
    BY <1>1, <2>1, OthersPublication
  <2>2. ASSUME NEW d \in Dispatchers, DispatchStep(d) \/ RequestDispatch(d)
        PROVE  PublicationInv'
    <3>1. ~RequestDispatch(d)
      BY DEF RequestDispatch, PublicationInv, TypeOK
    <3>2. QED
      BY <1>1, <2>2, <3>1, DispatchPublication
  <2>3. CASE \E j \in PublishJobs : PublishJobStep(j)
    BY <1>1, <2>3, PublishJobPublication
  <2>4. CASE Restart
    <3>1. \A j \in PublishJobs : Busy(j)' => Busy(j)
      BY <2>4 DEF Restart, Busy, BusyStates
    <3>2. \A d \in Dispatchers : disp'[d].pc = "idle"
      BY <2>4 DEF Restart, Idle
    <3>3. PublishesAlone'
      BY <3>2 DEF PublishesAlone, TowardPublish, Preparing
    <3>4. UNCHANGED siteStatus
      BY <2>4 DEF Restart
    <3>5. OneBusyJob' /\ BusyIsPublishing'
      BY <3>1, <3>4 DEF PublicationInv, OneBusyJob, BusyIsPublishing
    <3>6. QED
      BY <1>1, <3>3, <3>5 DEF PublicationInv
  <2>5. QED
    BY <1>3, <2>1, <2>2, <2>3, <2>4 DEF Next
<1>4. QED
  BY <1>2, <1>3

\* Initially nothing is in flight.
LEMMA InitPublication == Init => PublicationInv
<1>1. Init => /\ disp = [d \in Dispatchers |-> Idle]
              /\ publishJob = [j \in PublishJobs |-> "none"]
  BY Zenon DEF Init
<1>2. Init => /\ \A d \in Dispatchers : disp[d].pc = "idle"
              /\ \A j \in PublishJobs : ~Busy(j)
  BY <1>1 DEF Idle, Busy, BusyStates
<1>3. QED
  BY <1>2, InitType DEF PublicationInv, OneBusyJob, BusyIsPublishing, PublishesAlone, TowardPublish, Preparing

-----------------------------------------------------------------------------
(* One job at a time. *)

\* The dispatcher has selected a post, or prepares a post job.
TowardPosts(d) == disp[d].pc = "posts" \/ PreparesPosts(d)
LivePublish(j) == publishJob[j] \in {"active", "building"}

\* No certificate is ever uploaded, and so none fails a post.
NoUploads == \A c \in Certifiers : cert[c].pc = "none"

\* An active post job still has a post that is doing, for which the queries wait.
ActiveHasPosts ==
    \A t \in PostTaskIds : postJob[t] = "active" =>
        \E p \in Posts : postTaskId[p] = t /\ submitState[p] = "doing"
OneActiveJob == \A t, u \in PostTaskIds : postJob[t] = "active" /\ postJob[u] = "active" => t = u
NeverBoth == \A t \in PostTaskIds, j \in PublishJobs : ~(postJob[t] = "active" /\ LivePublish(j))
DispatchesAlone ==
    \A d \in Dispatchers :
        /\ TowardPublish(d) \/ TowardPosts(d) => \A t \in PostTaskIds : postJob[t] # "active"
        /\ PreparesPosts(d) => \A j \in PublishJobs : ~LivePublish(j)

\* The post that the dispatcher selected does not vanish before its job is queued.
SelectedStays ==
    \A d \in Dispatchers :
        /\ disp[d].pc \in {"posts", "batch"} => \E p \in Posts : submitState[p] = "pending"
        /\ disp[d].pc \in {"collect", "doingPostTask", "doingSubmit"} =>
             \E p \in Posts : postTaskId[p] = disp[d].postTask /\ submitState[p] = "pending"
        /\ disp[d].pc = "postConfig" =>
             \E p \in Posts : postTaskId[p] = disp[d].postTask /\ submitState[p] = "doing"

\* A post that is about to be saved by a retry has failed or is submitted, and
\* stays so: with one kind of retry, nobody else saves it meanwhile.
RetriedOnce ==
    /\ MaxRetries = 0 => \A p \in Posts : retry[<<p, "request">>].pc = "none"
    /\ MaxSweeps = 0 => sweeps = 0 /\ \A p \in Posts : retry[<<p, "sweep">>].pc = "none"
SavesSettled == \A r \in Retriers : retry[r].pc = "save" => submitState[r[1]] \in {"failed", "finished"}
SettledInv == RetriedOnce /\ SavesSettled

\* The inductive invariant is PublicationInv, RetryingInv, SettledInv and this.
ExclusionInv == NoUploads /\ ActiveHasPosts /\ OneActiveJob /\ NeverBoth /\ DispatchesAlone /\ SelectedStays

\* A step that queues nothing and leaves the posts of active jobs, and of jobs
\* that are being prepared, alone.
LEMMA ElsewhereExclusion ==
    ASSUME ExclusionInv, TypeOK, TypeOK', UNCHANGED <<disp, postTaskId>>,
           \A c \in Certifiers : cert'[c].pc = "none",
           \A t \in PostTaskIds : postJob'[t] = "active" => postJob[t] = "active",
           \A j \in PublishJobs : LivePublish(j)' => LivePublish(j),
           \A p \in Posts : submitState[p] = "pending" => submitState'[p] = "pending",
           \A p \in Posts : submitState[p] = "doing" /\ submitState'[p] # "doing" =>
               /\ postTaskId[p] \in PostTaskIds => postJob'[postTaskId[p]] # "active"
               /\ \A d \in Dispatchers : PreparesPosts(d) => disp[d].postTask # postTaskId[p]
    PROVE  ExclusionInv'
<1>1. NoUploads' /\ OneActiveJob' /\ NeverBoth'
  BY DEF ExclusionInv, NoUploads, OneActiveJob, NeverBoth
<1>2. ActiveHasPosts'
  BY DEF ExclusionInv, ActiveHasPosts
<1>3. DispatchesAlone'
  BY DEF ExclusionInv, DispatchesAlone, TowardPublish, TowardPosts, PreparesPosts
<1>4. SelectedStays'
  <2>1. SUFFICES ASSUME NEW d \in Dispatchers
                 PROVE  /\ disp[d].pc \in {"posts", "batch"} => \E p \in Posts : submitState'[p] = "pending"
                        /\ disp[d].pc \in {"collect", "doingPostTask", "doingSubmit"} =>
                             \E p \in Posts : postTaskId[p] = disp[d].postTask /\ submitState'[p] = "pending"
                        /\ disp[d].pc = "postConfig" =>
                             \E p \in Posts : postTaskId[p] = disp[d].postTask /\ submitState'[p] = "doing"
    BY DEF SelectedStays
  <2>2. CASE disp[d].pc = "postConfig"
    <3>1. PreparesPosts(d)
      BY <2>2 DEF PreparesPosts
    <3>2. QED
      BY <2>2, <3>1 DEF ExclusionInv, SelectedStays
  <2>3. CASE disp[d].pc # "postConfig"
    BY <2>3 DEF ExclusionInv, SelectedStays
  <2>4. QED
    BY <2>2, <2>3
<1>5. QED
  BY <1>1, <1>2, <1>3, <1>4 DEF ExclusionInv

\* New posts, link and generate handlers and publish jobs.
LEMMA OthersExclusion ==
    ASSUME ExclusionInv, TypeOK, TypeOK', CertificateTypes = {},
           \/ \E p \in Posts : SavePost(p)
           \/ \E c \in Certifiers : CertificateStep(c)
           \/ \E l \in Linkers : LinkStep(l)
           \/ \E c \in Callers : GenStep(c)
           \/ \E r \in Retriers : UpdatePublishOrderId(r)
           \/ RequestPublish
           \/ \E j \in PublishJobs : PublishJobStep(j)
    PROVE  ExclusionInv'
<1>0. \A c \in Certifiers : cert[c].pc = "none"
  BY DEF ExclusionInv, NoUploads
<1>1. ASSUME NEW p \in Posts, SavePost(p)
      PROVE  ExclusionInv'
  <2>1. cert' = [cert EXCEPT ![<<p, "save">>] = NoCert]
    BY <1>1 DEF SavePost, CertStart
  <2>2. \A c \in Certifiers : cert'[c].pc = "none"
    BY <1>0, <2>1 DEF TypeOK, NoCert
  <2>3. UNCHANGED <<disp, postTaskId, postJob, publishJob>>
    BY <1>1 DEF SavePost
  <2>4. \A q \in Posts : submitState[q] # "absent" => submitState'[q] = submitState[q]
    BY <1>1 DEF SavePost, TypeOK
  <2>5. QED
    BY <2>2, <2>3, <2>4, ElsewhereExclusion DEF LivePublish
<1>2. ASSUME NEW l \in Linkers, LinkStep(l)
      PROVE  ExclusionInv'
  BY <1>0, <1>2, ElsewhereExclusion DEF LinkStep, LinkRead, LinkCreate, LinkOrders, LinkIds, LinkPosts, LivePublish
<1>3. CASE (\E c \in Callers : GenStep(c)) \/ (\E r \in Retriers : UpdatePublishOrderId(r)) \/ RequestPublish
  BY <1>0, <1>3, ElsewhereExclusion DEF GenStep, GenFind, GenCreate, UpdatePublishOrderId, RequestPublish, LivePublish
<1>4. ASSUME NEW j \in PublishJobs, PublishJobStep(j)
      PROVE  ExclusionInv'
  <2>1. PICK from \in BusyStates, to \in {"building", "finish", "domain", "finishOrders", "finishPosts",
             "setPublished", "fail", "failOrders", "failPosts", "failStatus", "done", "stuck"} :
             AdvancePublish(j, from, to) /\ (to = "building" => from = "active")
    BY <1>4 DEF PublishJobStep, PublishJobBuild, PublishJobCompleted, PublishJobFailed, FinishPublishTask,
           UpdateDomain, FinishPublishOrders, FinishPublishPosts, SetPublished, FailPublishTask,
           FailPublishOrders, FailPublishPosts, SetPublishFailed, BusyStates
  <2>2. publishJob[j] = from /\ publishJob'[j] = to /\ JobSteps(j)
    BY <2>1, Advances
  <2>3. \A k \in PublishJobs : LivePublish(k)' => LivePublish(k)
    BY <2>1, <2>2 DEF LivePublish, JobSteps
  <2>4. UNCHANGED <<disp, postTaskId, cert, postJob, submitState>>
    BY <1>4 DEF PublishJobStep, PublishJobBuild, PublishJobCompleted, PublishJobFailed, FinishPublishTask,
           UpdateDomain, FinishPublishOrders, FinishPublishPosts, SetPublished, FailPublishTask,
           FailPublishOrders, FailPublishPosts, SetPublishFailed
  <2>5. QED
    BY <1>0, <2>3, <2>4, ElsewhereExclusion
<1>5. ASSUME NEW c \in Certifiers, CertificateStep(c)
      PROVE  FALSE
  BY <1>0, <1>5 DEF CertificateStep, DoingCertificate, UploadCertificate, UploadFailed, FailCertificate
<1>6. QED
  BY <1>1, <1>2, <1>3, <1>4, <1>5

\* A post job that goes on or ends settles its own posts only.
LEMMA PostJobExclusion ==
    ASSUME CarryInv, ExclusionInv, TypeOK, TypeOK', NEW t \in PostTaskIds, PostJobStep(t)
    PROVE  ExclusionInv'
<1>1. \A c \in Certifiers : cert[c].pc = "none"
  BY DEF ExclusionInv, NoUploads
<1>2. UNCHANGED <<disp, postTaskId, cert, publishJob>>
  BY DEF PostJobStep, PostJobCompleted, PostJobFailed, FailPostTask, FailSubmitPosts, FinishPostTask,
         FinishSubmitPost
<1>3. \A u \in PostTaskIds : postJob'[u] = "active" => postJob[u] = "active"
  BY DEF PostJobStep, PostJobCompleted, PostJobFailed, FailPostTask, FailSubmitPosts, FinishPostTask,
         FinishSubmitPost, TypeOK
<1>4. CASE FailSubmitPosts(t) \/ FinishSubmitPost(t)
  <2>1. postJob[t] \in {"completed", "failPosts"}
    BY <1>4 DEF FailSubmitPosts, FinishSubmitPost, CarryInv, PushedByJob
  <2>2. \A p \in Posts : submitState'[p] # submitState[p] => postTaskId[p] = t /\ submitState[p] = "doing"
    BY <1>4 DEF FailSubmitPosts, FinishSubmitPost
  <2>3. \A d \in Dispatchers : PreparesPosts(d) => disp[d].postTask # t
    BY <2>1 DEF CarryInv, TasksApart
  <2>4. postJob'[t] # "active"
    BY <1>3, <2>1
  <2>5. QED
    BY <1>1, <1>2, <1>3, <2>2, <2>3, <2>4, ElsewhereExclusion DEF LivePublish
<1>5. CASE PostJobCompleted(t) \/ PostJobFailed(t) \/ FailPostTask(t) \/ FinishPostTask(t)
  <2>1. UNCHANGED submitState
    BY <1>5 DEF PostJobCompleted, PostJobFailed, FailPostTask, FinishPostTask
  <2>2. QED
    BY <1>1, <1>2, <1>3, <2>1, ElsewhereExclusion DEF LivePublish
<1>6. QED
  BY <1>4, <1>5 DEF PostJobStep

\* The dispatcher moves on without touching jobs and posts.
LEMMA MovesExclusion ==
    ASSUME SingleDispatcher, ExclusionInv, TypeOK', NEW d \in Dispatchers,
           UNCHANGED <<cert, postJob, publishJob, submitState, postTaskId>>,
           TowardPublish(d)' \/ TowardPosts(d)' => \A t \in PostTaskIds : postJob[t] # "active",
           PreparesPosts(d)' => \A j \in PublishJobs : ~LivePublish(j),
           disp'[d].pc \in {"posts", "batch"} => \E p \in Posts : submitState[p] = "pending",
           disp'[d].pc \in {"collect", "doingPostTask", "doingSubmit"} =>
               \E p \in Posts : postTaskId[p] = disp'[d].postTask /\ submitState[p] = "pending",
           disp'[d].pc # "postConfig"
    PROVE  ExclusionInv'
<1>1. \A e \in Dispatchers : e = d
  BY DEF SingleDispatcher
<1>2. DispatchesAlone' /\ SelectedStays'
  BY <1>1 DEF DispatchesAlone, SelectedStays, LivePublish
<1>3. NoUploads' /\ ActiveHasPosts' /\ OneActiveJob' /\ NeverBoth'
  BY DEF ExclusionInv, NoUploads, ActiveHasPosts, OneActiveJob, NeverBoth, LivePublish
<1>4. QED
  BY <1>2, <1>3 DEF ExclusionInv

\* The queries return nothing while a post is doing, and so while a post job is
\* active; a publish job is only queued after a publish order was selected.
LEMMA DispatchExclusion ==
    ASSUME SingleDispatcher, PublicationInv, PostInv, CarryInv, ExclusionInv, TypeOK',
           NEW d \in Dispatchers, DispatchStep(d)
    PROVE  ExclusionInv'
<1>1. TypeOK /\ \A e \in Dispatchers : e = d
  BY DEF PublicationInv, SingleDispatcher
<1>2. DispatchableOrders # {} \/ DispatchablePosts # {} => \A t \in PostTaskIds : postJob[t] # "active"
  BY DEF DispatchableOrders, DispatchablePosts, SomePostDoing, ExclusionInv, ActiveHasPosts
<1>3. CASE ReadPublishOrder(d)
  <2>1. UNCHANGED <<cert, postJob, publishJob, submitState, postTaskId>>
    BY <1>3 DEF ReadPublishOrder
  <2>2. disp'[d].pc = "readPost" /\ (disp'[d].order # NoId => DispatchableOrders # {})
    BY <1>1, <1>3, Selects
  <2>3. ~TowardPosts(d)' /\ (TowardPublish(d)' => \A t \in PostTaskIds : postJob[t] # "active")
    BY <1>2, <2>2 DEF TowardPublish, Preparing, TowardPosts, PreparesPosts
  <2>4. QED
    BY <2>1, <2>2, <2>3, MovesExclusion DEF TowardPosts
<1>4. CASE ReadPostOrder(d)
  <2>1. UNCHANGED <<cert, postJob, publishJob, submitState, postTaskId>>
    BY <1>4 DEF ReadPostOrder
  <2>2. CASE disp'[d].pc = "posts" /\ DispatchablePosts # {}
    <3>1. \E p \in Posts : submitState[p] = "pending"
      BY <2>2 DEF DispatchablePosts
    <3>2. ~PreparesPosts(d)'
      BY <2>2 DEF PreparesPosts
    <3>3. QED
      BY <1>2, <2>1, <2>2, <3>1, <3>2, MovesExclusion
  <2>3. CASE disp'[d].pc = "publish" /\ disp[d].order # NoId
    <3>1. TowardPublish(d)
      BY <1>1, <1>4, <2>3, Selects DEF TowardPublish
    <3>2. ~PreparesPosts(d)'
      BY <2>3 DEF PreparesPosts
    <3>3. \A t \in PostTaskIds : postJob[t] # "active"
      BY <3>1 DEF ExclusionInv, DispatchesAlone
    <3>4. QED
      BY <2>1, <2>3, <3>2, <3>3, MovesExclusion
  <2>4. CASE disp'[d].pc = "idle"
    <3>1. ~TowardPublish(d)' /\ ~TowardPosts(d)'
      BY <2>4 DEF TowardPublish, Preparing, TowardPosts, PreparesPosts
    <3>2. QED
      BY <2>1, <2>4, <3>1, MovesExclusion DEF TowardPosts
  <2>5. QED
    BY <1>1, <1>4, <2>2, <2>3, <2>4, Selects
<1>5. CASE \/ CheckPublish(d) \/ PickPending(d) \/ DoingPublishTask(d) \/ DoingPublishOrders(d)
           \/ DoingPublishPosts(d) \/ DoingPublishStatus(d) \/ DispatchFailed(d)
  <2>1. UNCHANGED <<cert, postJob, publishJob, submitState, postTaskId>>
    BY <1>5 DEF CheckPublish, PickPending, DoingPublishTask, DoingPublishOrders, DoingPublishPosts,
                DoingPublishStatus, DispatchFailed
  <2>2. /\ disp'[d].pc \in {"idle", "linking"} \union Preparing
        /\ disp'[d].pc # "idle" => TowardPublish(d)
    BY <1>1, <1>5, Selects, Moves
       DEF DoingPublishTask, DoingPublishOrders, DoingPublishPosts, DoingPublishStatus, DispatchFailed, Idle,
           TowardPublish, Preparing
  <2>3. ~TowardPosts(d)' /\ (TowardPublish(d)' => TowardPublish(d))
    BY <2>2 DEF TowardPublish, Preparing, TowardPosts, PreparesPosts
  <2>4. TowardPublish(d) => \A t \in PostTaskIds : postJob[t] # "active"
    BY DEF ExclusionInv, DispatchesAlone
  <2>5. disp'[d].pc \notin {"posts", "batch", "collect", "doingPostTask", "doingSubmit", "postConfig"}
    BY <2>2 DEF Preparing
  <2>6. ~PreparesPosts(d)'
    BY <2>3 DEF TowardPosts
  <2>7. QED
    BY <2>1, <2>3, <2>4, <2>5, <2>6, MovesExclusion
<1>6. CASE DispatchPublish(d)
  <2>1. disp[d].pc = "publishConfig" /\ UNCHANGED <<cert, postJob, submitState, postTaskId>>
    BY <1>6 DEF DispatchPublish
  <2>2. \A t \in PostTaskIds : postJob[t] # "active"
    BY <2>1 DEF ExclusionInv, DispatchesAlone, TowardPublish, Preparing
  <2>3. disp'[d].pc \in {"idle", "awaitPublish"}
    BY <1>1, <1>6, Moves DEF DispatchPublish
  <2>4. ~TowardPublish(d)' /\ ~TowardPosts(d)'
    BY <2>3 DEF TowardPublish, Preparing, TowardPosts, PreparesPosts
  <2>5. DispatchesAlone' /\ SelectedStays'
    BY <1>1, <2>3, <2>4 DEF DispatchesAlone, SelectedStays, TowardPosts
  <2>6. NoUploads' /\ ActiveHasPosts' /\ OneActiveJob' /\ NeverBoth'
    BY <2>1, <2>2 DEF ExclusionInv, NoUploads, ActiveHasPosts, OneActiveJob, NeverBoth
  <2>7. QED
    BY <2>5, <2>6 DEF ExclusionInv
<1>7. CASE CreatePostTask(d)
  <2>1. UNCHANGED <<cert, postJob, publishJob, submitState, postTaskId>>
    BY <1>7 DEF CreatePostTask
  <2>2. /\ disp[d].pc = "posts"
        /\ disp'[d].pc = "idle" \/ (siteStatus # "PUBLISHING" /\ disp'[d].pc = "batch")
    BY <1>1, <1>7, Creates
  <2>3. /\ \A t \in PostTaskIds : postJob[t] # "active"
        /\ \E p \in Posts : submitState[p] = "pending"
    BY <2>2 DEF ExclusionInv, DispatchesAlone, TowardPosts, SelectedStays
  <2>4. PreparesPosts(d)' => \A j \in PublishJobs : ~LivePublish(j)
    BY <2>2 DEF PreparesPosts, PublicationInv, BusyIsPublishing, Busy, BusyStates, LivePublish
  <2>5. QED
    BY <2>1, <2>2, <2>3, <2>4, MovesExclusion
<1>8. CASE CollectPosts(d) \/ DoingPostTask(d)
  <2>1. UNCHANGED <<cert, postJob, publishJob, submitState, postTaskId>>
    BY <1>8 DEF CollectPosts, DoingPostTask
  <2>2. /\ disp[d].pc \in {"collect", "doingPostTask"} /\ disp'[d].pc \in {"doingPostTask", "doingSubmit"}
        /\ disp'[d].postTask = disp[d].postTask
    BY <1>1, <1>8, Moves, MovesPosts DEF CollectPosts, DoingPostTask
  <2>3. /\ \A t \in PostTaskIds : postJob[t] # "active"
        /\ \A j \in PublishJobs : ~LivePublish(j)
        /\ \E p \in Posts : postTaskId[p] = disp[d].postTask /\ submitState[p] = "pending"
    BY <2>2 DEF ExclusionInv, DispatchesAlone, TowardPosts, PreparesPosts, SelectedStays
  <2>4. QED
    BY <2>1, <2>2, <2>3, MovesExclusion
<1>9. CASE BatchPosts(d)
  <2>1. /\ disp[d].pc = "batch" /\ disp'[d].pc = "collect"
        /\ disp'[d].postTask = disp[d].postTask
    BY <1>1, <1>9, Moves, MovesPosts DEF BatchPosts
  <2>2. /\ UNCHANGED <<cert, postJob, publishJob, submitState>>
        /\ \A p \in Posts : postTaskId'[p] = IF submitState[p] = "pending" THEN disp[d].postTask ELSE postTaskId[p]
    BY <1>9 DEF BatchPosts
  <2>3. /\ \A t \in PostTaskIds : postJob[t] # "active"
        /\ \A j \in PublishJobs : ~LivePublish(j)
        /\ \E p \in Posts : submitState[p] = "pending"
    BY <2>1 DEF ExclusionInv, DispatchesAlone, TowardPosts, PreparesPosts, SelectedStays
  <2>4. SelectedStays'
    BY <1>1, <2>1, <2>2, <2>3 DEF SelectedStays
  <2>5. DispatchesAlone'
    BY <2>2, <2>3 DEF DispatchesAlone, LivePublish
  <2>6. NoUploads' /\ ActiveHasPosts' /\ OneActiveJob' /\ NeverBoth'
    BY <2>2, <2>3 DEF ExclusionInv, NoUploads, ActiveHasPosts, OneActiveJob, NeverBoth
  <2>7. QED
    BY <2>4, <2>5, <2>6 DEF ExclusionInv
<1>10. CASE DoingSubmitPost(d)
  <2>1. /\ disp[d].pc = "doingSubmit" /\ disp'[d].pc = "postConfig"
        /\ disp'[d].postTask = disp[d].postTask
    BY <1>1, <1>10, Moves, MovesPosts DEF DoingSubmitPost
  <2>2. /\ UNCHANGED <<cert, postJob, publishJob, postTaskId>>
        /\ \A p \in Posts : submitState'[p] = IF postTaskId[p] = disp[d].postTask THEN "doing" ELSE submitState[p]
    BY <1>10 DEF DoingSubmitPost
  <2>3. /\ \A t \in PostTaskIds : postJob[t] # "active"
        /\ \A j \in PublishJobs : ~LivePublish(j)
        /\ \E p \in Posts : postTaskId[p] = disp[d].postTask
    BY <2>1 DEF ExclusionInv, DispatchesAlone, TowardPosts, PreparesPosts, SelectedStays
  <2>4. SelectedStays'
    BY <1>1, <2>1, <2>2, <2>3 DEF SelectedStays
  <2>5. DispatchesAlone'
    BY <2>2, <2>3 DEF DispatchesAlone, LivePublish
  <2>6. NoUploads' /\ ActiveHasPosts' /\ OneActiveJob' /\ NeverBoth'
    BY <2>2, <2>3 DEF ExclusionInv, NoUploads, ActiveHasPosts, OneActiveJob, NeverBoth
  <2>7. QED
    BY <2>4, <2>5, <2>6 DEF ExclusionInv
<1>11. CASE DispatchPosts(d)
  <2>1. /\ disp[d].pc = "postConfig" /\ disp'[d].pc \in {"idle", "awaitPost"}
        /\ UNCHANGED <<cert, publishJob, submitState, postTaskId>>
    BY <1>1, <1>11, Moves DEF DispatchPosts
  <2>a. \A t \in PostTaskIds : t # disp[d].postTask => postJob'[t] = postJob[t]
    BY <1>1, <1>11 DEF DispatchPosts, TypeOK
  <2>2. /\ \A t \in PostTaskIds : postJob[t] # "active"
        /\ \A j \in PublishJobs : ~LivePublish(j)
        /\ \E p \in Posts : postTaskId[p] = disp[d].postTask /\ submitState[p] = "doing"
    BY <2>1 DEF ExclusionInv, DispatchesAlone, TowardPosts, PreparesPosts, SelectedStays
  <2>3. ~TowardPublish(d)' /\ ~TowardPosts(d)'
    BY <2>1 DEF TowardPublish, Preparing, TowardPosts, PreparesPosts
  <2>4. DispatchesAlone' /\ SelectedStays'
    BY <1>1, <2>1, <2>3 DEF DispatchesAlone, SelectedStays, TowardPosts
  <2>5. ActiveHasPosts' /\ OneActiveJob' /\ NeverBoth'
    BY <2>1, <2>a, <2>2 DEF ActiveHasPosts, OneActiveJob, NeverBoth, LivePublish
  <2>6. NoUploads'
    BY <2>1 DEF ExclusionInv, NoUploads
  <2>7. QED
    BY <2>4, <2>5, <2>6 DEF ExclusionInv
<1>12. QED
  BY <1>3, <1>4, <1>5, <1>6, <1>7, <1>8, <1>9, <1>10, <1>11 DEF DispatchStep

\* A retry leaves the jobs alone, and takes no post that waits or is being submitted.
LEMMA RetriesExclusion ==
    ASSUME ExclusionInv, RetryInv, SettledInv, TypeOK, TypeOK',
           \/ SweepFailed
           \/ \E p \in Posts : RetryRequest(p) \/ SweepRead(p)
           \/ \E r \in Retriers : RetrySave(r)
    PROVE  ExclusionInv'
<1>1. \A c \in Certifiers : cert[c].pc = "none"
  BY DEF ExclusionInv, NoUploads
<1>2. CASE SweepFailed
  BY <1>1, <1>2, ElsewhereExclusion DEF SweepFailed, LivePublish
<1>3. ASSUME NEW p \in Posts, RetryRequest(p) \/ SweepRead(p)
      PROVE  ExclusionInv'
  <2>1. UNCHANGED <<disp, postTaskId, postJob, publishJob, submitState>>
    BY <1>3 DEF RetryRequest, SweepRead
  <2>2. certificateState[p] = ""
    BY DEF RetryInv, NothingCertified
  <2>3. UNCHANGED cert
    BY <1>3, <2>2 DEF RetryRequest, SweepRead, ReadFailed, Row
  <2>4. QED
    BY <1>1, <2>1, <2>3, ElsewhereExclusion DEF LivePublish
<1>4. ASSUME NEW r \in Retriers, RetrySave(r)
      PROVE  ExclusionInv'
  <2>1. /\ UNCHANGED <<disp, cert, postJob, publishJob>>
        /\ submitState[r[1]] \notin {"pending", "doing"}
    BY <1>4 DEF RetrySave, SettledInv, SavesSettled
  <2>2. \A p \in Posts : submitState[p] \in {"pending", "doing"} =>
          submitState'[p] = submitState[p] /\ postTaskId'[p] = postTaskId[p]
    <3>1. /\ submitState' = [submitState EXCEPT ![r[1]] = retry[r].row.submit]
          /\ postTaskId' = [postTaskId EXCEPT ![r[1]] = retry[r].row.task]
      BY <1>4, Zenon DEF RetrySave
    <3>2. DOMAIN submitState = Posts /\ DOMAIN postTaskId = Posts
      BY DEF TypeOK
    <3>3. QED
      BY <2>1, <3>1, <3>2
  <2>3. NoUploads' /\ OneActiveJob' /\ NeverBoth'
    BY <2>1 DEF ExclusionInv, NoUploads, OneActiveJob, NeverBoth, LivePublish
  <2>4. ActiveHasPosts'
    BY <2>1, <2>2 DEF ExclusionInv, ActiveHasPosts
  <2>5. DispatchesAlone'
    BY <2>1 DEF ExclusionInv, DispatchesAlone, TowardPublish, TowardPosts, PreparesPosts, LivePublish
  <2>6. SelectedStays'
    <3>1. SUFFICES ASSUME NEW d \in Dispatchers
                   PROVE  /\ disp[d].pc \in {"posts", "batch"} => \E p \in Posts : submitState'[p] = "pending"
                          /\ disp[d].pc \in {"collect", "doingPostTask", "doingSubmit"} =>
                               \E p \in Posts : postTaskId'[p] = disp[d].postTask /\ submitState'[p] = "pending"
                          /\ disp[d].pc = "postConfig" =>
                               \E p \in Posts : postTaskId'[p] = disp[d].postTask /\ submitState'[p] = "doing"
      BY <2>1 DEF SelectedStays
    <3>2. disp[d].pc \in {"posts", "batch"} => \E p \in Posts : submitState'[p] = "pending"
      BY <2>2 DEF ExclusionInv, SelectedStays
    <3>3. disp[d].pc \in {"collect", "doingPostTask", "doingSubmit"} =>
             \E p \in Posts : postTaskId'[p] = disp[d].postTask /\ submitState'[p] = "pending"
      BY <2>2 DEF ExclusionInv, SelectedStays
    <3>4. disp[d].pc = "postConfig" =>
             \E p \in Posts : postTaskId'[p] = disp[d].postTask /\ submitState'[p] = "doing"
      BY <2>2 DEF ExclusionInv, SelectedStays
    <3>5. QED
      BY <3>2, <3>3, <3>4
  <2>7. QED
    BY <2>3, <2>4, <2>5, <2>6 DEF ExclusionInv
<1>5. QED
  BY <1>2, <1>3, <1>4

\* A retry reads a post that has failed, or whose publication has.
LEMMA ReadSettled ==
    ASSUME TypeOK, RetryInv, SettledInv, NEW r \in Retriers, ReadFailed(r),
           UNCHANGED <<submitState, sweeps>>, MaxRetries = 0 => r[2] # "request", MaxSweeps = 0 => r[2] # "sweep"
    PROVE  SettledInv'
<1>1. r[1] \in Posts /\ certificateState[r[1]] = ""
  BY DEF Retriers, RetryInv, NothingCertified
<1>2. submitState[r[1]] \in {"failed", "finished"}
  <2>1. submitState[r[1]] = "failed" \/ publishState[r[1]] = "failed"
    BY <1>1 DEF ReadFailed, Row
  <2>2. QED
    BY <1>1, <2>1 DEF RetryInv, StatesAgree, TypeOK, RowState
<1>3. \A s \in Retriers \ {r} : retry'[s] = retry[s]
  BY DEF ReadFailed, TypeOK
<1>4. RetriedOnce'
  <2>1. ASSUME NEW p \in Posts, NEW kind \in {"request", "sweep"}, r[2] # kind
        PROVE  retry'[<<p, kind>>] = retry[<<p, kind>>]
    BY <1>3, <2>1 DEF Retriers
  <2>2. QED
    BY <2>1 DEF SettledInv, RetriedOnce
<1>5. SavesSettled'
  BY <1>2, <1>3 DEF SettledInv, SavesSettled
<1>6. QED
  BY <1>4, <1>5 DEF SettledInv

\* A step that ends saves at most, and submits and fails only what is doing.
LEMMA ElsewhereSettled ==
    ASSUME SettledInv, sweeps' = sweeps,
           \A r \in Retriers : retry'[r].pc # "none" => retry'[r] = retry[r],
           \A p \in Posts : submitState[p] \in {"failed", "finished"} => submitState'[p] = submitState[p]
    PROVE  SettledInv'
<1>1. \A p \in Posts : <<p, "request">> \in Retriers /\ <<p, "sweep">> \in Retriers
  BY DEF Retriers
<1>2. RetriedOnce'
  BY <1>1 DEF SettledInv, RetriedOnce
<1>3. \A r \in Retriers : r[1] \in Posts
  BY DEF Retriers
<1>4. SavesSettled'
  BY <1>3 DEF SettledInv, SavesSettled
<1>5. QED
  BY <1>2, <1>4 DEF SettledInv

\* Every step keeps it.
LEMMA NextSettled ==
    ASSUME FailTogether, MaxRetries = 0 \/ MaxSweeps = 0, RetryingInv, SettledInv, [Next]_vars
    PROVE  SettledInv'
<1>1. TypeOK /\ PostInv /\ RetryInv
  BY DEF RetryingInv, PostInv
<1>2. CASE UNCHANGED vars
  BY <1>2, ElsewhereSettled DEF vars
<1>3. CASE Next
  <2>1. ASSUME NEW p \in Posts, SavePost(p)
        PROVE  SettledInv'
    <3>1. UNCHANGED retry /\ submitState[p] = "absent" /\ \A q \in Posts \ {p} : submitState'[q] = submitState[q]
      BY <1>1, <2>1 DEF SavePost, TypeOK
    <3>2. SavesSettled'
      BY <3>1 DEF SettledInv, SavesSettled, Retriers
    <3>3. MaxSweeps = 0 /\ sweeps = 0 => sweeps' = 0
      BY <2>1 DEF SavePost
    <3>4. RetriedOnce'
      BY <3>1, <3>3 DEF SettledInv, RetriedOnce
    <3>5. QED
      BY <3>2, <3>4 DEF SettledInv
  <2>2. ASSUME NEW p \in Posts, RetryRequest(p)
        PROVE  SettledInv'
    <3>1. <<p, "request">> \in Retriers /\ MaxRetries # 0
      BY <1>1, <2>2 DEF Retriers, RetryRequest, TypeOK
    <3>2. QED
      BY <1>1, <2>2, <3>1, ReadSettled DEF RetryRequest
  <2>3. ASSUME NEW p \in Posts, SweepRead(p)
        PROVE  SettledInv'
    <3>1. <<p, "sweep">> \in Retriers /\ MaxSweeps # 0
      BY <2>3 DEF Retriers, SweepRead, SettledInv, RetriedOnce
    <3>2. CASE ReadFailed(<<p, "sweep">>)
      BY <1>1, <2>3, <3>1, <3>2, ReadSettled DEF SweepRead
    <3>3. CASE retry' = [retry EXCEPT ![<<p, "sweep">>] = NoRetry]
      <4>1. \A r \in Retriers : retry'[r].pc # "none" => retry'[r] = retry[r]
        BY <1>1, <3>1, <3>3 DEF NoRetry, TypeOK
      <4>2. UNCHANGED <<submitState, sweeps>>
        BY <2>3 DEF SweepRead
      <4>3. QED
        BY <4>1, <4>2, ElsewhereSettled
    <3>4. QED
      BY <2>3, <3>2, <3>3 DEF SweepRead
  <2>4. CASE SweepFailed
    <3>1. MaxSweeps # 0 /\ UNCHANGED submitState
      BY <2>4 DEF SweepFailed, SettledInv, RetriedOnce
    <3>2. ASSUME NEW r \in Retriers
          PROVE  /\ r[2] # "sweep" => retry'[r] = retry[r]
                 /\ retry'[r].pc = "save" => retry'[r] = retry[r]
      <4>1. \/ retry'[r] = retry[r]
            \/ r[2] = "sweep" /\ retry'[r] = [retry[r] EXCEPT !.pc = "read"]
        BY <2>4 DEF SweepFailed
      <4>2. [retry[r] EXCEPT !.pc = "read"].pc = "read"
        BY <1>1 DEF TypeOK, RetryRun
      <4>3. QED
        BY <4>1, <4>2
    <3>3. \A p \in Posts : <<p, "request">> \in Retriers
      BY DEF Retriers
    <3>4. RetriedOnce'
      BY <3>1, <3>2, <3>3 DEF SettledInv, RetriedOnce
    <3>5. SavesSettled'
      BY <3>1, <3>2 DEF SettledInv, SavesSettled
    <3>6. QED
      BY <3>4, <3>5 DEF SettledInv
  <2>5. ASSUME NEW r \in Retriers, RetrySave(r)
        PROVE  SettledInv'
    <3>1. /\ retry' = [retry EXCEPT ![r] = NoRetry] /\ retry[r].pc = "save" /\ UNCHANGED sweeps
          /\ \A p \in Posts \ {r[1]} : submitState'[p] = submitState[p]
      BY <1>1, <2>5 DEF RetrySave, TypeOK
    <3>2. /\ retry'[r].pc = "none" /\ \A s \in Retriers \ {r} : retry'[s] = retry[s]
      BY <1>1, <3>1 DEF NoRetry, TypeOK
    <3>3. \A s \in Retriers \ {r} : retry[s].pc = "save" => s[1] \in Posts \ {r[1]}
      <4>1. SUFFICES ASSUME NEW s \in Retriers, s # r, s[1] = r[1], retry[s].pc = "save"
                     PROVE  FALSE
        BY DEF Retriers
      <4>2. PICK p \in Posts : {r, s} = {<<p, "request">>, <<p, "sweep">>}
        BY <4>1 DEF Retriers
      <4>3. retry[<<p, "request">>].pc = "save" /\ retry[<<p, "sweep">>].pc = "save"
        BY <3>1, <4>1, <4>2
      <4>4. QED
        BY <4>3 DEF SettledInv, RetriedOnce
    <3>4. SavesSettled'
      BY <3>1, <3>2, <3>3 DEF SettledInv, SavesSettled
    <3>5. \A s \in Retriers : retry'[s].pc # "none" => retry[s].pc # "none"
      BY <3>1, <3>2
    <3>6. RetriedOnce'
      <4>1. \A p \in Posts : <<p, "request">> \in Retriers /\ <<p, "sweep">> \in Retriers
        BY DEF Retriers
      <4>2. QED
        BY <3>1, <3>5, <4>1 DEF SettledInv, RetriedOnce
    <3>7. QED
      BY <3>4, <3>6 DEF SettledInv
  <2>6. CASE \/ \E l \in Linkers : LinkStep(l)
             \/ \E c \in Callers : GenStep(c)
             \/ \E r \in Retriers : UpdatePublishOrderId(r)
             \/ RequestPublish
             \/ \E j \in PublishJobs : PublishJobStep(j)
    <3>1. UNCHANGED <<retry, sweeps, submitState>>
      BY <2>6 DEF LinkStep, LinkRead, LinkCreate, LinkOrders, LinkIds, LinkPosts,
           GenStep, GenFind, GenCreate, UpdatePublishOrderId, RequestPublish,
           PublishJobStep, PublishJobBuild, PublishJobCompleted, PublishJobFailed, FinishPublishTask,
           UpdateDomain, FinishPublishOrders, FinishPublishPosts, SetPublished,
           FailPublishTask, FailPublishOrders, FailPublishPosts, SetPublishFailed
    <3>2. QED
      BY <3>1, ElsewhereSettled
  <2>7. ASSUME NEW c \in Certifiers, CertificateStep(c)
        PROVE  FALSE
    BY <1>1, <2>7 DEF CertificateStep, DoingCertificate, UploadCertificate, UploadFailed, FailCertificate,
                      RetryInv, NothingCertified
  <2>8. ASSUME NEW d \in Dispatchers, DispatchStep(d) \/ RequestDispatch(d)
        PROVE  SettledInv'
    <3>1. UNCHANGED <<retry, sweeps>>
      BY <2>8 DEF DispatchStep, RequestDispatch, ReadPublishOrder, ReadPostOrder, CheckPublish, PickPending,
                DoingPublishTask, DoingPublishOrders, DoingPublishPosts, DoingPublishStatus, DispatchPublish,
                CreatePostTask, BatchPosts, CollectPosts, DoingPostTask, DoingSubmitPost, DispatchPosts, DispatchFailed
    <3>2. CASE DoingSubmitPost(d)
      <4>1. \A p \in Posts : postTaskId[p] = disp[d].postTask => submitState[p] = "pending"
        BY <1>1, <3>2 DEF DoingSubmitPost, RetryInv, TasksWait, PreparesPosts
      <4>2. \A p \in Posts : submitState[p] \in {"failed", "finished"} => submitState'[p] = submitState[p]
        BY <3>2, <4>1 DEF DoingSubmitPost
      <4>3. QED
        BY <3>1, <4>2, ElsewhereSettled
    <3>3. CASE ~DoingSubmitPost(d)
      <4>1. UNCHANGED submitState
        BY <2>8, <3>3 DEF DispatchStep, RequestDispatch, ReadPublishOrder, ReadPostOrder, CheckPublish, PickPending,
                DoingPublishTask, DoingPublishOrders, DoingPublishPosts, DoingPublishStatus, DispatchPublish,
                CreatePostTask, BatchPosts, CollectPosts, DoingPostTask, DispatchPosts, DispatchFailed
      <4>2. QED
        BY <3>1, <4>1, ElsewhereSettled
    <3>4. QED
      BY <3>2, <3>3
  <2>9. ASSUME NEW t \in PostTaskIds, PostJobStep(t) \/ \E p \in Posts : ReportErrored(t, p)
        PROVE  SettledInv'
    <3>1. ~ \E p \in Posts : ReportErrored(t, p)
      BY <1>1 DEF ReportErrored, TypeOK, FailTogether
    <3>2. /\ UNCHANGED <<retry, sweeps>>
          /\ \A p \in Posts : submitState[p] # "doing" => submitState'[p] = submitState[p]
      BY <2>9, <3>1 DEF PostJobStep, PostJobCompleted, PostJobFailed, FailPostTask, FailSubmitPosts,
                        FinishPostTask, FinishSubmitPost
    <3>3. QED
      BY <3>2, ElsewhereSettled
  <2>10. CASE Restart
    <3>1. sweeps' = 0 /\ \A r \in Retriers : retry'[r].pc = "none"
      BY <2>10 DEF Restart, NoRetry
    <3>2. \A p \in Posts : <<p, "request">> \in Retriers /\ <<p, "sweep">> \in Retriers
      BY DEF Retriers
    <3>3. QED
      BY <3>1, <3>2 DEF SettledInv, RetriedOnce, SavesSettled
  <2>11. QED
    BY <1>3, <2>1, <2>2, <2>3, <2>4, <2>5, <2>6, <2>7, <2>8, <2>9, <2>10 DEF Next
<1>4. QED
  BY <1>2, <1>3

\* Every step keeps the invariant.
LEMMA NextExclusion ==
    ASSUME SingleDispatcher, MaxRequests = 0, FailTogether,
           PublicationInv, RetryingInv, SettledInv, ExclusionInv, [Next]_vars
    PROVE  ExclusionInv'
<1>1. TypeOK /\ TypeOK' /\ PostInv /\ CarryInv /\ RetryInv
  BY NextType DEF RetryingInv, PostInv
<1>2. \A c \in Certifiers : cert[c].pc = "none"
  BY DEF ExclusionInv, NoUploads
<1>3. CASE UNCHANGED vars
  BY <1>1, <1>2, <1>3, ElsewhereExclusion DEF vars, LivePublish
<1>4. CASE Next
  <2>1. CASE \/ \E p \in Posts : SavePost(p)
             \/ \E c \in Certifiers : CertificateStep(c)
             \/ \E l \in Linkers : LinkStep(l)
             \/ \E c \in Callers : GenStep(c)
             \/ \E r \in Retriers : UpdatePublishOrderId(r)
             \/ RequestPublish
             \/ \E j \in PublishJobs : PublishJobStep(j)
    BY <1>1, <2>1, OthersExclusion DEF FailTogether
  <2>a. CASE \/ SweepFailed
             \/ \E p \in Posts : RetryRequest(p) \/ SweepRead(p)
             \/ \E r \in Retriers : RetrySave(r)
    BY <1>1, <2>a, RetriesExclusion
  <2>2. ASSUME NEW d \in Dispatchers, DispatchStep(d) \/ RequestDispatch(d)
        PROVE  ExclusionInv'
    <3>1. ~RequestDispatch(d)
      BY <1>1 DEF RequestDispatch, TypeOK
    <3>2. QED
      BY <1>1, <2>2, <3>1, DispatchExclusion
  <2>3. ASSUME NEW t \in PostTaskIds, PostJobStep(t) \/ \E p \in Posts : ReportErrored(t, p)
        PROVE  ExclusionInv'
    <3>1. ~ \E p \in Posts : ReportErrored(t, p)
      BY <1>1 DEF ReportErrored, TypeOK, FailTogether
    <3>2. QED
      BY <1>1, <2>3, <3>1, PostJobExclusion
  <2>4. CASE Restart
    <3>1. \A d \in Dispatchers : disp'[d].pc = "idle"
      BY <2>4 DEF Restart, Idle
    <3>2. DispatchesAlone' /\ SelectedStays'
      BY <3>1 DEF DispatchesAlone, SelectedStays, TowardPublish, Preparing, TowardPosts, PreparesPosts
    <3>3. /\ UNCHANGED <<submitState, postTaskId>>
          /\ \A t \in PostTaskIds : postJob'[t] = "active" => postJob[t] = "active"
          /\ \A j \in PublishJobs : LivePublish(j)' => LivePublish(j)
      BY <2>4 DEF Restart, LivePublish
    <3>4. ActiveHasPosts' /\ OneActiveJob' /\ NeverBoth'
      BY <3>3 DEF ExclusionInv, ActiveHasPosts, OneActiveJob, NeverBoth
    <3>5. NoUploads'
      BY <2>4 DEF Restart, NoUploads, NoCert
    <3>6. QED
      BY <3>2, <3>4, <3>5 DEF ExclusionInv
  <2>5. QED
    BY <1>4, <2>1, <2>a, <2>2, <2>3, <2>4 DEF Next
<1>5. QED
  BY <1>3, <1>4

\* A set with at most one element.
LEMMA AtMostOne ==
    ASSUME NEW S, \A x, y \in S : x = y
    PROVE  Cardinality(S) \in {0, 1} /\ (Cardinality(S) = 0 <=> S = {})
<1>1. CASE S = {}
  BY <1>1, FS_EmptySet
<1>2. CASE S # {}
  <2>1. PICK x \in S : TRUE
    BY <1>2
  <2>2. S = {x}
    BY <2>1
  <2>3. Cardinality(S) = 1
    BY <2>2, FS_Singleton
  <2>4. QED
    BY <1>2, <2>3
<1>3. QED
  BY <1>1, <1>2

\* Initially nothing is in flight.
LEMMA InitExclusion == Init => SettledInv /\ ExclusionInv
<1>1. Init => /\ disp = [d \in Dispatchers |-> Idle]
              /\ retry = [r \in Retriers |-> NoRetry]
              /\ cert = [c \in Certifiers |-> NoCert]
              /\ postJob = [t \in PostTaskIds |-> "none"]
              /\ publishJob = [j \in PublishJobs |-> "none"]
              /\ sweeps = 0
  BY Zenon DEF Init
<1>2. Init => /\ \A d \in Dispatchers : disp[d].pc = "idle"
              /\ \A r \in Retriers : retry[r].pc = "none"
              /\ \A c \in Certifiers : cert[c].pc = "none"
              /\ \A t \in PostTaskIds : postJob[t] = "none"
  BY <1>1 DEF Idle, NoRetry, NoCert
<1>3. Init => SettledInv
  <2>1. \A p \in Posts : <<p, "request">> \in Retriers /\ <<p, "sweep">> \in Retriers
    BY DEF Retriers
  <2>2. QED
    BY <1>1, <1>2, <2>1 DEF SettledInv, RetriedOnce, SavesSettled
<1>4. Init => ExclusionInv
  BY <1>2 DEF ExclusionInv, NoUploads, ActiveHasPosts, OneActiveJob, NeverBoth, DispatchesAlone,
              SelectedStays, TowardPublish, Preparing, TowardPosts, PreparesPosts
<1>5. QED
  BY <1>3, <1>4

\* Two jobs never work on the site's repositories at the same time, for any number of
\* posts, tasks, failed jobs, publish requests and restarts, however slow link handlers
\* are, and whether failed posts are retried by the user or by the sweeps: as long as the
\* queue's consumer alone dispatches, the two kinds of retry do not meet on one post, and
\* a post that a job carries is taken out of doing by the job's own handlers only. Reports
\* of workers, certificates that fail, and the save of a row that another retry has made
\* stale take it out earlier, which opens the queries too soon.
THEOREM OneJob ==
    ASSUME SingleDispatcher, MaxRequests = 0, FailTogether, MaxRetries = 0 \/ MaxSweeps = 0
    PROVE  Spec => []JobsExclusive
<1> DEFINE Inv == PublicationInv /\ RetryingInv /\ SettledInv /\ ExclusionInv
<1>1. Init => Inv
  BY InitPublication, InitRetrying, InitExclusion
<1>2. Inv /\ [Next]_vars => Inv'
  BY NextPublication, NextRetrying, NextSettled, NextExclusion
<1>3. Inv => JobsExclusive
  <2>1. SUFFICES ASSUME Inv PROVE JobsExclusive
    OBVIOUS
  <2>2. \A t, u \in LivePostJobs : t = u
    BY <2>1 DEF LivePostJobs, ExclusionInv, OneActiveJob
  <2>3. \A j, k \in LivePublishJobs : j = k
    BY <2>1 DEF LivePublishJobs, PublicationInv, OneBusyJob, Busy, BusyStates
  <2>4. LivePostJobs = {} \/ LivePublishJobs = {}
    BY <2>1 DEF LivePostJobs, LivePublishJobs, ExclusionInv, NeverBoth, LivePublish
  <2>5. QED
    BY <2>2, <2>3, <2>4, AtMostOne DEF JobsExclusive, QueuedJobs
<1>4. QED
  BY <1>1, <1>2, <1>3, PTL DEF Spec

-----------------------------------------------------------------------------
(* The state of a publish task tells how far its job is. *)

PendingHasNoJob ==
    \A j \in PublishJobs : publishTaskState[j[1]] \in {"absent", "pending"} => publishJob[j] = "none"
DispatcherPrepares ==
    \A d \in Dispatchers :
        /\ disp[d].pc \in Preparing => disp[d].publishTask \in PublishTaskIds
        /\ disp[d].pc = "doingTask" => publishTaskState[disp[d].publishTask] = "pending"
        /\ disp[d].pc \in Preparing \ {"doingTask"} =>
             /\ publishTaskState[disp[d].publishTask] = "doing"
             /\ publishJob[<<disp[d].publishTask, d>>] = "none"
JobHasState ==
    \A j \in PublishJobs :
        /\ publishJob[j] \in {"active", "building", "finish", "fail"} => publishTaskState[j[1]] = "doing"
        /\ publishJob[j] \in {"domain", "finishOrders", "finishPosts", "setPublished", "stuck"}
             => publishTaskState[j[1]] = "finished"
        /\ publishJob[j] \in {"failOrders", "failPosts", "failStatus"} => publishTaskState[j[1]] = "failed"

\* The inductive invariant.
TaskInv == TypeOK /\ PendingHasNoJob /\ DispatcherPrepares /\ JobHasState

\* A step that leaves the dispatchers and the publish jobs alone, and inserts tasks at most.
LEMMA ElsewhereTasks ==
    ASSUME TaskInv, TypeOK', UNCHANGED <<disp, publishJob>>,
           \A t \in PublishTaskIds : \/ publishTaskState'[t] = publishTaskState[t]
                                     \/ publishTaskState[t] = "absent" /\ publishTaskState'[t] = "pending"
    PROVE  TaskInv'
<1>1. \A j \in PublishJobs : j[1] \in PublishTaskIds
  BY DEF PublishJobs
<1>2. PendingHasNoJob'
  BY <1>1 DEF TaskInv, PendingHasNoJob
<1>3. DispatcherPrepares'
  BY DEF TaskInv, DispatcherPrepares, Preparing
<1>4. JobHasState'
  BY <1>1 DEF TaskInv, JobHasState, PendingHasNoJob
<1>5. QED
  BY <1>2, <1>3, <1>4 DEF TaskInv

\* Everything but the dispatcher, publish jobs and a restart is elsewhere.
LEMMA OthersTasks ==
    ASSUME TaskInv, TypeOK',
           \/ \E p \in Posts : SavePost(p) \/ RetryRequest(p) \/ SweepRead(p)
           \/ SweepFailed
           \/ \E r \in Retriers : RetrySave(r) \/ UpdatePublishOrderId(r)
           \/ \E c \in Certifiers : CertificateStep(c)
           \/ \E l \in Linkers : LinkStep(l)
           \/ \E c \in Callers : GenStep(c)
           \/ RequestPublish
           \/ \E t \in PostTaskIds : PostJobStep(t) \/ \E p \in Posts : ReportErrored(t, p)
    PROVE  TaskInv'
<1>1. CASE \/ \E p \in Posts : SavePost(p) \/ RetryRequest(p) \/ SweepRead(p)
           \/ SweepFailed
           \/ \E r \in Retriers : RetrySave(r)
  BY <1>1, ElsewhereTasks DEF SavePost, RetryRequest, SweepRead, SweepFailed, RetrySave
<1>2. CASE \E c \in Certifiers : CertificateStep(c)
  BY <1>2, ElsewhereTasks
     DEF CertificateStep, DoingCertificate, UploadCertificate, UploadFailed, FailCertificate
<1>3. ASSUME NEW l \in Linkers, LinkStep(l)
      PROVE  TaskInv'
  <2>1. CASE LinkCreate(l)
    <3>1. UNCHANGED <<disp, publishJob>>
      BY <2>1 DEF LinkCreate
    <3>2. \A t \in PublishTaskIds : \/ publishTaskState'[t] = publishTaskState[t]
                                    \/ publishTaskState[t] = "absent" /\ publishTaskState'[t] = "pending"
      BY <2>1 DEF LinkCreate, TaskInv, TypeOK
    <3>3. QED
      BY <3>1, <3>2, ElsewhereTasks
  <2>2. CASE ~LinkCreate(l)
    BY <1>3, <2>2, ElsewhereTasks DEF LinkStep, LinkRead, LinkOrders, LinkIds, LinkPosts
  <2>3. QED
    BY <2>1, <2>2
<1>4. CASE (\E c \in Callers : GenStep(c)) \/ (\E r \in Retriers : UpdatePublishOrderId(r)) \/ RequestPublish
  BY <1>4, ElsewhereTasks DEF GenStep, GenFind, GenCreate, UpdatePublishOrderId, RequestPublish
<1>5. CASE \E t \in PostTaskIds : PostJobStep(t) \/ \E p \in Posts : ReportErrored(t, p)
  BY <1>5, ElsewhereTasks
     DEF PostJobStep, PostJobCompleted, PostJobFailed, FailPostTask, FailSubmitPosts, FinishPostTask,
         FinishSubmitPost, ReportErrored
<1>6. QED
  BY <1>1, <1>2, <1>3, <1>4, <1>5

\* The dispatcher is the only one to mark a pending task and to queue its job.
LEMMA DispatchTasks ==
    ASSUME SingleDispatcher, TaskInv, TypeOK', NEW d \in Dispatchers,
           DispatchStep(d) \/ RequestDispatch(d)
    PROVE  TaskInv'
<1>1. TypeOK /\ \A e \in Dispatchers : e = d
  BY DEF TaskInv, SingleDispatcher
<1>a. \A j \in PublishJobs : j[1] \in PublishTaskIds /\ j[2] = d /\ j = <<j[1], d>>
  BY <1>1 DEF PublishJobs
<1>2. CASE UNCHANGED <<publishJob, publishTaskState>> /\ disp'[d].pc \notin Preparing
  <2>1. DispatcherPrepares'
    BY <1>1, <1>2 DEF DispatcherPrepares, Preparing
  <2>2. QED
    BY <1>2, <2>1 DEF TaskInv, PendingHasNoJob, JobHasState
<1>3. CASE PickPending(d)
  <2>1. UNCHANGED <<publishJob, publishTaskState>>
    BY <1>3 DEF PickPending
  <2>2. CASE disp'[d].pc = "doingTask" /\ disp'[d].publishTask \in PendingPublishTasks
    <3>1. DispatcherPrepares'
      BY <1>1, <2>1, <2>2 DEF DispatcherPrepares, PendingPublishTasks
    <3>2. QED
      BY <2>1, <3>1 DEF TaskInv, PendingHasNoJob, JobHasState
  <2>3. CASE disp'[d].pc = "idle"
    BY <1>2, <2>1, <2>3 DEF Preparing
  <2>4. QED
    BY <1>1, <1>3, <2>2, <2>3, Selects
<1>4. CASE DoingPublishTask(d)
  <2>1. /\ disp[d].pc = "doingTask" /\ disp'[d].pc = "doingOrders"
        /\ disp'[d].publishTask = disp[d].publishTask
    BY <1>1, <1>4, Moves DEF DoingPublishTask
  <2>2. PICK t \in PublishTaskIds : t = disp[d].publishTask /\ publishTaskState[t] = "pending"
    BY <2>1 DEF TaskInv, DispatcherPrepares, Preparing
  <2>3. /\ UNCHANGED publishJob
        /\ publishTaskState'[t] = "doing"
        /\ \A s \in PublishTaskIds \ {t} : publishTaskState'[s] = publishTaskState[s]
    BY <1>1, <1>4, <2>2 DEF DoingPublishTask, TypeOK
  <2>4. \A j \in PublishJobs : j[1] = t => publishJob[j] = "none"
    BY <2>2 DEF TaskInv, PendingHasNoJob
  <2>5. publishJob[<<t, d>>] = "none"
    BY <2>4 DEF PublishJobs
  <2>6. DispatcherPrepares'
    BY <1>1, <2>1, <2>2, <2>3, <2>5 DEF DispatcherPrepares, Preparing
  <2>7. PendingHasNoJob'
    BY <1>a, <2>3, <2>4 DEF TaskInv, PendingHasNoJob
  <2>8. JobHasState'
    BY <1>a, <2>3, <2>4 DEF TaskInv, JobHasState
  <2>9. QED
    BY <2>6, <2>7, <2>8 DEF TaskInv
<1>5. CASE DoingPublishOrders(d) \/ DoingPublishPosts(d) \/ DoingPublishStatus(d)
  <2>1. /\ disp[d].pc \in {"doingOrders", "doingPosts", "doingStatus"}
        /\ disp'[d].pc \in {"doingPosts", "doingStatus", "publishConfig"}
        /\ disp'[d].publishTask = disp[d].publishTask
    BY <1>1, <1>5, Moves DEF DoingPublishOrders, DoingPublishPosts, DoingPublishStatus
  <2>2. UNCHANGED <<publishJob, publishTaskState>>
    BY <1>5 DEF DoingPublishOrders, DoingPublishPosts, DoingPublishStatus
  <2>3. DispatcherPrepares'
    BY <1>1, <2>1, <2>2 DEF TaskInv, DispatcherPrepares, Preparing
  <2>4. QED
    BY <2>2, <2>3 DEF TaskInv, PendingHasNoJob, JobHasState
<1>6. CASE DispatchPublish(d)
  <2>1. disp[d].pc = "publishConfig" /\ disp'[d].pc \in {"idle", "awaitPublish"}
    BY <1>1, <1>6, Moves DEF DispatchPublish
  <2>2. PICK t \in PublishTaskIds : t = disp[d].publishTask /\ publishTaskState[t] = "doing"
    BY <2>1 DEF TaskInv, DispatcherPrepares, Preparing
  <2>3. /\ UNCHANGED publishTaskState
        /\ <<t, d>> \in PublishJobs
        /\ publishJob'[<<t, d>>] \in {"active", "fail"}
        /\ \A j \in PublishJobs \ {<<t, d>>} : publishJob'[j] = publishJob[j]
    BY <1>1, <1>6, <2>2 DEF DispatchPublish, TypeOK, PublishJobs
  <2>4. DispatcherPrepares'
    BY <1>1, <2>1 DEF DispatcherPrepares, Preparing
  <2>5. PendingHasNoJob'
    BY <1>a, <2>2, <2>3 DEF TaskInv, PendingHasNoJob
  <2>6. JobHasState'
    BY <1>a, <2>2, <2>3 DEF TaskInv, JobHasState
  <2>7. QED
    BY <2>4, <2>5, <2>6 DEF TaskInv
<1>7. CASE ReadPublishOrder(d) \/ ReadPostOrder(d) \/ CheckPublish(d) \/ RequestDispatch(d)
  <2>1. UNCHANGED <<publishJob, publishTaskState>>
    BY <1>7 DEF ReadPublishOrder, ReadPostOrder, CheckPublish, RequestDispatch
  <2>2. disp'[d].pc \in {"readPost", "publish", "posts", "idle", "linking"}
    BY <1>1, <1>7, Selects, Moves DEF RequestDispatch
  <2>3. QED
    BY <1>2, <2>1, <2>2 DEF Preparing
<1>8. CASE \/ CreatePostTask(d) \/ BatchPosts(d) \/ CollectPosts(d) \/ DoingPostTask(d)
           \/ DoingSubmitPost(d) \/ DispatchPosts(d) \/ DispatchFailed(d)
  <2>1. UNCHANGED <<publishJob, publishTaskState>>
    BY <1>8 DEF CreatePostTask, BatchPosts, CollectPosts, DoingPostTask, DoingSubmitPost, DispatchPosts, DispatchFailed
  <2>2. disp'[d].pc \in {"idle", "batch", "collect", "doingPostTask", "doingSubmit", "postConfig", "awaitPost"}
    BY <1>1, <1>8, Moves, Creates
       DEF BatchPosts, CollectPosts, DoingPostTask, DoingSubmitPost, DispatchPosts, DispatchFailed, Idle
  <2>3. QED
    BY <1>2, <2>1, <2>2 DEF Preparing
<1>9. QED
  BY <1>3, <1>4, <1>5, <1>6, <1>7, <1>8 DEF DispatchStep

\* A publish job's handlers settle their own task only.
LEMMA PublishJobTasks ==
    ASSUME SingleDispatcher, TaskInv, TypeOK', NEW j \in PublishJobs, PublishJobStep(j)
    PROVE  TaskInv'
<1>1. TypeOK /\ j[1] \in PublishTaskIds
  BY DEF TaskInv, PublishJobs
<1>2. \A k \in PublishJobs : k[1] \in PublishTaskIds /\ (k[1] = j[1] => k = j)
  BY DEF PublishJobs, SingleDispatcher
<1>3. UNCHANGED disp
  BY DEF PublishJobStep, PublishJobBuild, PublishJobCompleted, PublishJobFailed, FinishPublishTask,
         UpdateDomain, FinishPublishOrders, FinishPublishPosts, SetPublished, FailPublishTask,
         FailPublishOrders, FailPublishPosts, SetPublishFailed
<1>4. /\ publishJob[j] # "none" /\ JobSteps(j)
      /\ \A t \in PublishTaskIds \ {j[1]} : publishTaskState'[t] = publishTaskState[t]
      /\ publishTaskState'[j[1]] \notin {"absent", "pending"}
      /\ publishJob'[j] \in {"active", "building", "finish", "fail"} => publishTaskState'[j[1]] = "doing"
      /\ publishJob'[j] \in {"domain", "finishOrders", "finishPosts", "setPublished", "stuck"}
             => publishTaskState'[j[1]] = "finished"
      /\ publishJob'[j] \in {"failOrders", "failPosts", "failStatus"} => publishTaskState'[j[1]] = "failed"
  <2>1. CASE PublishJobBuild(j) \/ PublishJobCompleted(j) \/ PublishJobFailed(j)
    <3>1. PICK from \in {"active", "building"}, to \in {"building", "finish", "fail"} : AdvancePublish(j, from, to)
      BY <2>1 DEF PublishJobBuild, PublishJobCompleted, PublishJobFailed
    <3>2. publishJob[j] = from /\ publishJob'[j] = to /\ JobSteps(j) /\ UNCHANGED publishTaskState
      BY <1>1, <2>1, <3>1, Advances DEF PublishJobBuild, PublishJobCompleted, PublishJobFailed
    <3>3. publishTaskState[j[1]] = "doing"
      BY <3>2 DEF TaskInv, JobHasState
    <3>4. QED
      BY <3>2, <3>3
  <2>2. CASE FinishPublishTask(j) \/ FailPublishTask(j)
    <3>1. PICK from \in {"finish", "fail"} : AdvancePublish(j, from, IF from = "finish" THEN "domain" ELSE "failOrders")
             /\ publishTaskState' = [publishTaskState EXCEPT ![j[1]] = IF from = "finish" THEN "finished" ELSE "failed"]
      BY <2>2 DEF FinishPublishTask, FailPublishTask
    <3>2. /\ publishJob[j] = from /\ publishJob'[j] = IF from = "finish" THEN "domain" ELSE "failOrders"
          /\ JobSteps(j)
      BY <1>1, <3>1, Advances
    <3>3. /\ publishTaskState'[j[1]] = IF from = "finish" THEN "finished" ELSE "failed"
          /\ \A t \in PublishTaskIds \ {j[1]} : publishTaskState'[t] = publishTaskState[t]
      BY <1>1, <3>1 DEF TypeOK
    <3>4. QED
      BY <3>2, <3>3
  <2>3. CASE UpdateDomain(j) \/ FinishPublishOrders(j) \/ FinishPublishPosts(j) \/ SetPublished(j)
    <3>1. PICK from \in {"domain", "finishOrders", "finishPosts", "setPublished"},
               to \in {"finishOrders", "finishPosts", "setPublished", "stuck", "done"} : AdvancePublish(j, from, to)
      BY <2>3 DEF UpdateDomain, FinishPublishOrders, FinishPublishPosts, SetPublished
    <3>2. publishJob[j] = from /\ publishJob'[j] = to /\ JobSteps(j) /\ UNCHANGED publishTaskState
      BY <1>1, <2>3, <3>1, Advances DEF UpdateDomain, FinishPublishOrders, FinishPublishPosts, SetPublished
    <3>3. publishTaskState[j[1]] = "finished"
      BY <3>2 DEF TaskInv, JobHasState
    <3>4. QED
      BY <3>2, <3>3
  <2>4. CASE FailPublishOrders(j) \/ FailPublishPosts(j) \/ SetPublishFailed(j)
    <3>1. PICK from \in {"failOrders", "failPosts", "failStatus"},
               to \in {"failPosts", "failStatus", "done"} : AdvancePublish(j, from, to)
      BY <2>4 DEF FailPublishOrders, FailPublishPosts, SetPublishFailed
    <3>2. publishJob[j] = from /\ publishJob'[j] = to /\ JobSteps(j) /\ UNCHANGED publishTaskState
      BY <1>1, <2>4, <3>1, Advances DEF FailPublishOrders, FailPublishPosts, SetPublishFailed
    <3>3. publishTaskState[j[1]] = "failed"
      BY <3>2 DEF TaskInv, JobHasState
    <3>4. QED
      BY <3>2, <3>3
  <2>5. QED
    BY <2>1, <2>2, <2>3, <2>4 DEF PublishJobStep
<1>5. publishTaskState[j[1]] \notin {"absent", "pending"}
  BY <1>4 DEF TaskInv, PendingHasNoJob
<1>6. \A d \in Dispatchers : disp[d].pc \in Preparing => disp[d].publishTask \in PublishTaskIds \ {j[1]}
  <2>1. SUFFICES ASSUME NEW d \in Dispatchers, disp[d].pc \in Preparing, disp[d].publishTask = j[1]
                 PROVE  FALSE
    BY DEF TaskInv, DispatcherPrepares
  <2>2. j = <<disp[d].publishTask, d>>
    BY <2>1 DEF PublishJobs, SingleDispatcher
  <2>3. disp[d].pc # "doingTask"
    BY <1>5, <2>1 DEF TaskInv, DispatcherPrepares
  <2>4. publishJob[j] = "none"
    BY <2>1, <2>2, <2>3 DEF TaskInv, DispatcherPrepares
  <2>5. QED
    BY <1>4, <2>4
<1>7. DispatcherPrepares'
  <2>1. SUFFICES ASSUME NEW d \in Dispatchers, disp[d].pc \in Preparing
                 PROVE  /\ publishTaskState'[disp[d].publishTask] = publishTaskState[disp[d].publishTask]
                        /\ publishJob'[<<disp[d].publishTask, d>>] = publishJob[<<disp[d].publishTask, d>>]
    BY <1>3 DEF TaskInv, DispatcherPrepares, Preparing
  <2>2. disp[d].publishTask \in PublishTaskIds \ {j[1]}
    BY <1>6, <2>1
  <2>3. <<disp[d].publishTask, d>> \in PublishJobs \ {j}
    BY <2>2 DEF PublishJobs
  <2>4. QED
    BY <1>4, <2>2, <2>3 DEF JobSteps
<1>8. PendingHasNoJob'
  BY <1>2, <1>4 DEF TaskInv, PendingHasNoJob, JobSteps
<1>9. JobHasState'
  BY <1>2, <1>4 DEF TaskInv, JobHasState, JobSteps
<1>10. QED
  BY <1>7, <1>8, <1>9 DEF TaskInv

\* Every step keeps the invariant.
LEMMA NextTasks ==
    ASSUME SingleDispatcher, TaskInv, [Next]_vars
    PROVE  TaskInv'
<1>1. TypeOK'
  BY NextType DEF TaskInv
<1>2. CASE UNCHANGED vars
  BY <1>1, <1>2, ElsewhereTasks DEF vars
<1>3. CASE Next
  <2>1. CASE \/ \E p \in Posts : SavePost(p) \/ RetryRequest(p) \/ SweepRead(p)
             \/ SweepFailed
             \/ \E r \in Retriers : RetrySave(r) \/ UpdatePublishOrderId(r)
             \/ \E c \in Certifiers : CertificateStep(c)
             \/ \E l \in Linkers : LinkStep(l)
             \/ \E c \in Callers : GenStep(c)
             \/ RequestPublish
             \/ \E t \in PostTaskIds : PostJobStep(t) \/ \E p \in Posts : ReportErrored(t, p)
    BY <1>1, <2>1, OthersTasks
  <2>2. CASE \E d \in Dispatchers : DispatchStep(d) \/ RequestDispatch(d)
    BY <1>1, <2>2, DispatchTasks
  <2>3. CASE \E j \in PublishJobs : PublishJobStep(j)
    BY <1>1, <2>3, PublishJobTasks
  <2>4. CASE Restart
    <3>1. \A d \in Dispatchers : disp'[d].pc = "idle"
      BY <2>4 DEF Restart, Idle
    <3>2. DispatcherPrepares'
      BY <3>1 DEF DispatcherPrepares, Preparing
    <3>3. ASSUME NEW j \in PublishJobs
          PROVE  publishJob'[j] = publishJob[j] \/ (publishJob'[j] = "lost" /\ publishTaskState[j[1]] \notin {"absent", "pending"})
      <4>1. CASE publishJob[j] # "none"
        BY <2>4, <4>1 DEF Restart, TaskInv, PendingHasNoJob
      <4>2. CASE DispatchingPublish(j)
        <5>1. publishTaskState[j[1]] = "doing"
          BY <4>2 DEF DispatchingPublish, TaskInv, DispatcherPrepares, Preparing, PublishJobs
        <5>2. QED
          BY <2>4, <5>1 DEF Restart
      <4>3. CASE publishJob[j] = "none" /\ ~DispatchingPublish(j)
        BY <2>4, <4>3 DEF Restart
      <4>4. QED
        BY <4>1, <4>2, <4>3
    <3>4. UNCHANGED publishTaskState
      BY <2>4 DEF Restart
    <3>5. PendingHasNoJob' /\ JobHasState'
      BY <3>3, <3>4 DEF TaskInv, PendingHasNoJob, JobHasState
    <3>6. QED
      BY <1>1, <3>2, <3>5 DEF TaskInv
  <2>5. QED
    BY <1>3, <2>1, <2>2, <2>3, <2>4 DEF Next
<1>4. QED
  BY <1>2, <1>3

\* Initially no publish job has been queued.
LEMMA InitTasks == Init => TaskInv
<1>1. Init => /\ disp = [d \in Dispatchers |-> Idle]
              /\ publishJob = [j \in PublishJobs |-> "none"]
  BY Zenon DEF Init
<1>2. Init => /\ \A d \in Dispatchers : disp[d].pc = "idle"
              /\ \A j \in PublishJobs : publishJob[j] = "none"
  BY <1>1 DEF Idle
<1>3. QED
  BY <1>2, InitType DEF TaskInv, PendingHasNoJob, DispatcherPrepares, JobHasState, Preparing

-----------------------------------------------------------------------------
(* Nothing is submitted while the site is being published. *)

NoneSubmits == \A p \in Posts : submitState[p] # "doing"

\* The posts in submission keep the dispatcher from selecting a publish order, and the
\* site's status keeps it from preparing posts while a publish job is busy.
SubmitsAlone ==
    /\ \A d \in Dispatchers : TowardPublish(d) => NoneSubmits
    /\ \A j \in PublishJobs : Busy(j) => /\ NoneSubmits
                                         /\ \A d \in Dispatchers : ~PreparesPosts(d)

\* A step that starts no submission and queues no publish job.
LEMMA ElsewhereAlone ==
    ASSUME SubmitsAlone, UNCHANGED disp,
           \A j \in PublishJobs : Busy(j)' => Busy(j),
           \A p \in Posts : submitState'[p] = "doing" => submitState[p] = "doing"
    PROVE  SubmitsAlone'
BY DEF SubmitsAlone, TowardPublish, PreparesPosts, NoneSubmits

\* Nor does anything but the dispatcher.
LEMMA OthersAlone ==
    ASSUME TypeOK, SubmitsAlone,
           \/ \E p \in Posts : SavePost(p)
           \/ \E r \in Retriers : UpdatePublishOrderId(r)
           \/ \E c \in Certifiers : CertificateStep(c)
           \/ \E l \in Linkers : LinkStep(l)
           \/ \E c \in Callers : GenStep(c)
           \/ RequestPublish
           \/ \E t \in PostTaskIds : PostJobStep(t) \/ \E p \in Posts : ReportErrored(t, p)
    PROVE  SubmitsAlone'
<1>1. CASE (\E p \in Posts : SavePost(p)) \/ \E c \in Certifiers : CertificateStep(c)
  <2>1. UNCHANGED <<disp, publishJob>>
    BY <1>1 DEF SavePost, CertificateStep, DoingCertificate, UploadCertificate, UploadFailed, FailCertificate
  <2>2. \A p \in Posts : submitState'[p] = "doing" => submitState[p] = "doing"
    <3>1. CASE \E p \in Posts : SavePost(p)
      BY <3>1 DEF SavePost, TypeOK
    <3>2. CASE \E c \in Certifiers : CertificateStep(c)
      BY <3>2 DEF CertificateStep, DoingCertificate, UploadCertificate, UploadFailed, FailCertificate, TypeOK
    <3>3. QED
      BY <1>1, <3>1, <3>2
  <2>3. QED
    BY <2>1, <2>2, ElsewhereAlone DEF Busy
<1>2. CASE \E l \in Linkers : LinkStep(l)
  BY <1>2, ElsewhereAlone DEF LinkStep, LinkRead, LinkCreate, LinkOrders, LinkIds, LinkPosts, Busy
<1>3. CASE (\E c \in Callers : GenStep(c)) \/ (\E r \in Retriers : UpdatePublishOrderId(r)) \/ RequestPublish
  BY <1>3, ElsewhereAlone DEF GenStep, GenFind, GenCreate, UpdatePublishOrderId, RequestPublish, Busy
<1>4. CASE \E t \in PostTaskIds : PostJobStep(t) \/ \E p \in Posts : ReportErrored(t, p)
  BY <1>4, ElsewhereAlone
     DEF PostJobStep, PostJobCompleted, PostJobFailed, FailPostTask, FailSubmitPosts, FinishPostTask,
         FinishSubmitPost, ReportErrored, TypeOK, Busy
<1>5. QED
  BY <1>1, <1>2, <1>3, <1>4

\* The dispatcher does one thing after the other, and each only when nobody does the other.
LEMMA DispatchAlone ==
    ASSUME SingleDispatcher, PublicationInv, SubmitsAlone, NEW d \in Dispatchers, DispatchStep(d)
    PROVE  SubmitsAlone'
<1>1. TypeOK /\ \A e \in Dispatchers : e = d
  BY DEF PublicationInv, SingleDispatcher
<1>2. CASE ReadPublishOrder(d)
  <2>1. UNCHANGED <<publishJob, submitState>>
    BY <1>2 DEF ReadPublishOrder
  <2>2. disp'[d].pc = "readPost" /\ (disp'[d].order # NoId => DispatchableOrders # {})
    BY <1>1, <1>2, Selects
  <2>3. DispatchableOrders # {} => NoneSubmits
    BY DEF DispatchableOrders, SomePostDoing, NoneSubmits
  <2>4. (TowardPublish(d)' => NoneSubmits) /\ ~PreparesPosts(d)'
    BY <2>2, <2>3 DEF TowardPublish, Preparing, PreparesPosts
  <2>5. QED
    BY <1>1, <2>1, <2>4 DEF SubmitsAlone, NoneSubmits, Busy
<1>3. CASE ReadPostOrder(d) \/ CheckPublish(d) \/ PickPending(d)
  <2>1. UNCHANGED <<publishJob, submitState>>
    BY <1>3 DEF ReadPostOrder, CheckPublish, PickPending
  <2>2. (TowardPublish(d)' => TowardPublish(d)) /\ ~PreparesPosts(d)'
    <3>1. CASE ReadPostOrder(d)
      BY <1>1, <3>1, Selects DEF TowardPublish, Preparing, PreparesPosts
    <3>2. CASE CheckPublish(d) \/ PickPending(d)
      BY <1>1, <3>2, Selects DEF TowardPublish, Preparing, PreparesPosts
    <3>3. QED
      BY <1>3, <3>1, <3>2
  <2>3. QED
    BY <1>1, <2>1, <2>2 DEF SubmitsAlone, NoneSubmits, Busy
<1>4. CASE \/ DoingPublishTask(d) \/ DoingPublishOrders(d) \/ DoingPublishPosts(d)
           \/ DoingPublishStatus(d) \/ DispatchPublish(d)
  <2>1. TowardPublish(d) /\ UNCHANGED submitState
    BY <1>4 DEF DoingPublishTask, DoingPublishOrders, DoingPublishPosts, DoingPublishStatus, DispatchPublish,
                TowardPublish, Preparing
  <2>2. disp'[d].pc \in Preparing \union {"idle", "awaitPublish"}
    BY <1>1, <1>4, Moves DEF DoingPublishTask, DoingPublishOrders, DoingPublishPosts, DoingPublishStatus,
                DispatchPublish, Preparing, Idle
  <2>3. NoneSubmits' /\ ~PreparesPosts(d)'
    BY <2>1, <2>2 DEF SubmitsAlone, NoneSubmits, Preparing, PreparesPosts
  <2>4. QED
    BY <1>1, <2>3 DEF SubmitsAlone
<1>5. CASE CreatePostTask(d)
  <2>1. UNCHANGED <<publishJob, submitState>>
    BY <1>5 DEF CreatePostTask
  <2>2. ~TowardPublish(d)' /\ (PreparesPosts(d)' => siteStatus # "PUBLISHING")
    BY <1>1, <1>5, Creates DEF TowardPublish, Preparing, PreparesPosts
  <2>3. PreparesPosts(d)' => \A j \in PublishJobs : ~Busy(j)
    BY <2>2 DEF PublicationInv, BusyIsPublishing
  <2>4. QED
    BY <1>1, <2>1, <2>2, <2>3 DEF SubmitsAlone, NoneSubmits, Busy
<1>6. CASE BatchPosts(d) \/ CollectPosts(d) \/ DoingPostTask(d) \/ DoingSubmitPost(d) \/ DispatchPosts(d)
  <2>1. PreparesPosts(d) /\ UNCHANGED publishJob
    BY <1>6 DEF BatchPosts, CollectPosts, DoingPostTask, DoingSubmitPost, DispatchPosts, PreparesPosts
  <2>2. disp'[d].pc \in {"idle", "collect", "doingPostTask", "doingSubmit", "postConfig", "awaitPost"}
    BY <1>1, <1>6, Moves DEF BatchPosts, CollectPosts, DoingPostTask, DoingSubmitPost, DispatchPosts
  <2>3. ~TowardPublish(d)' /\ \A j \in PublishJobs : ~Busy(j)'
    BY <2>1, <2>2 DEF SubmitsAlone, TowardPublish, Preparing, Busy
  <2>4. QED
    BY <1>1, <2>3 DEF SubmitsAlone
<1>7. CASE DispatchFailed(d)
  <2>1. UNCHANGED <<publishJob, submitState>>
    BY <1>7 DEF DispatchFailed
  <2>2. disp' = [disp EXCEPT ![d] = Idle]
    BY <1>7 DEF DispatchFailed
  <2>3. disp'[d].pc = "idle"
    BY <1>1, <2>2 DEF TypeOK, Idle
  <2>4. ~TowardPublish(d)' /\ ~PreparesPosts(d)'
    BY <2>3 DEF TowardPublish, Preparing, PreparesPosts
  <2>5. QED
    BY <1>1, <2>1, <2>4 DEF SubmitsAlone, NoneSubmits, Busy
<1>8. QED
  BY <1>2, <1>3, <1>4, <1>5, <1>6, <1>7 DEF DispatchStep

\* Every step keeps the invariant.
LEMMA NextAlone ==
    ASSUME SingleDispatcher, MaxRequests = 0,
           PublicationInv, PostInv, SavesFit, SubmitsAlone, [Next]_vars
    PROVE  SubmitsAlone'
<1>1. TypeOK
  BY DEF PostInv
<1>2. CASE UNCHANGED vars
  BY <1>2, ElsewhereAlone DEF vars, Busy
<1>3. CASE Next
  <2>1. CASE \/ \E p \in Posts : SavePost(p)
             \/ \E r \in Retriers : UpdatePublishOrderId(r)
             \/ \E c \in Certifiers : CertificateStep(c)
             \/ \E l \in Linkers : LinkStep(l)
             \/ \E c \in Callers : GenStep(c)
             \/ RequestPublish
             \/ \E t \in PostTaskIds : PostJobStep(t) \/ \E p \in Posts : ReportErrored(t, p)
    BY <1>1, <2>1, OthersAlone
  <2>a. CASE \/ SweepFailed
             \/ \E p \in Posts : RetryRequest(p) \/ SweepRead(p)
             \/ \E r \in Retriers : RetrySave(r)
    <3>1. UNCHANGED <<disp, publishJob>>
      BY <2>a DEF SweepFailed, RetryRequest, SweepRead, RetrySave
    <3>2. \A p \in Posts : submitState'[p] = "doing" => submitState[p] = "doing"
      <4>1. CASE SweepFailed \/ \E p \in Posts : RetryRequest(p) \/ SweepRead(p)
        BY <4>1 DEF SweepFailed, RetryRequest, SweepRead
      <4>2. ASSUME NEW r \in Retriers, RetrySave(r)
            PROVE  \A p \in Posts : submitState'[p] = "doing" => submitState[p] = "doing"
        BY <1>1, <4>2 DEF RetrySave, SavesFit, TypeOK
      <4>3. QED
        BY <2>a, <4>1, <4>2
    <3>3. QED
      BY <3>1, <3>2, ElsewhereAlone DEF Busy
  <2>2. ASSUME NEW d \in Dispatchers, DispatchStep(d) \/ RequestDispatch(d)
        PROVE  SubmitsAlone'
    <3>1. ~RequestDispatch(d)
      BY <1>1 DEF RequestDispatch, TypeOK
    <3>2. QED
      BY <2>2, <3>1, DispatchAlone
  <2>3. ASSUME NEW j \in PublishJobs, PublishJobStep(j)
        PROVE  SubmitsAlone'
    <3>1. PICK from \in BusyStates, to \in {"building", "finish", "domain", "finishOrders", "finishPosts",
             "setPublished", "fail", "failOrders", "failPosts", "failStatus", "done", "stuck"} :
             AdvancePublish(j, from, to)
      BY <2>3 DEF PublishJobStep, PublishJobBuild, PublishJobCompleted, PublishJobFailed, FinishPublishTask,
             UpdateDomain, FinishPublishOrders, FinishPublishPosts, SetPublished, FailPublishTask,
             FailPublishOrders, FailPublishPosts, SetPublishFailed, BusyStates
    <3>2. Busy(j) /\ JobSteps(j)
      BY <1>1, <3>1, Advances DEF Busy
    <3>3. UNCHANGED <<disp, submitState>>
      BY <2>3 DEF PublishJobStep, PublishJobBuild, PublishJobCompleted, PublishJobFailed, FinishPublishTask,
             UpdateDomain, FinishPublishOrders, FinishPublishPosts, SetPublished, FailPublishTask,
             FailPublishOrders, FailPublishPosts, SetPublishFailed
    <3>4. QED
      BY <3>2, <3>3, ElsewhereAlone DEF JobSteps, Busy
  <2>4. CASE Restart
    <3>1. \A d \in Dispatchers : disp'[d].pc = "idle"
      BY <2>4 DEF Restart, Idle
    <3>2. \A d \in Dispatchers : ~TowardPublish(d)' /\ ~PreparesPosts(d)'
      BY <3>1 DEF TowardPublish, Preparing, PreparesPosts
    <3>3. UNCHANGED submitState /\ \A j \in PublishJobs : Busy(j)' => Busy(j)
      BY <2>4 DEF Restart, Busy, BusyStates
    <3>4. QED
      BY <3>2, <3>3 DEF SubmitsAlone, NoneSubmits
  <2>5. QED
    BY <1>3, <2>1, <2>a, <2>2, <2>3, <2>4 DEF Next
<1>4. QED
  BY <1>2, <1>3

\* Initially nothing is in flight.
LEMMA InitAlone == Init => SubmitsAlone
<1>1. Init => disp = [d \in Dispatchers |-> Idle] /\ publishJob = [j \in PublishJobs |-> "none"]
  BY Zenon DEF Init
<1>2. Init => /\ \A d \in Dispatchers : disp[d].pc = "idle"
              /\ \A j \in PublishJobs : ~Busy(j)
  BY <1>1 DEF Idle, Busy, BusyStates
<1>3. QED
  BY <1>2 DEF SubmitsAlone, TowardPublish, Preparing

-----------------------------------------------------------------------------
(* What is reported as published is on the site. *)

\* No retried post has emitted the event that generates a publish order,
NoEvents == \A r \in Retriers : gen[r].pc = "none"
\* or the events are of submitted posts.
EventsInv == (NothingRetried /\ NoEvents) \/ (FailTogether /\ RetryInv)
EventsFit ==
    \A r \in Retriers, p \in Posts :
        gen[r].pc # "none" /\ gen[r].task # NoTask /\ postTaskId[p] = gen[r].task => submitState[p] = "finished"
\* What is saved by a retry has no publish order and no task.
SavesUnlinked ==
    \A r \in Retriers : retry[r].pc = "save" =>
        retry[r].row.order = NoId /\ retry[r].row.publishTask = NoId /\ retry[r].row.publish = "pending"

\* A post that was submitted, or is about to be saved so, was pushed by its post
\* job; so was one that failed later and has a publish order or task.
Linked(p) == publishSiteOrderId[p] # NoId \/ publishSiteTaskId[p] # NoId
Known(p) ==
    \/ Linked(p) \/ submitState[p] = "finished"
    \/ \E r \in Retriers : r[1] = p /\ retry[r].pc = "save" /\ retry[r].row.submit = "finished"
KnownIsPushed == \A p \in Posts : Known(p) => p \in repo

\* A publish job that has cloned the repository, up to the update of its posts.
BuiltStates == {"building", "finish", "domain", "finishOrders", "finishPosts"}

\* A post can be linked to the task of such a job by a handler that outlives the
\* clone; but no post is submitted and gets its first publish order meanwhile,
BuiltHasPosts ==
    \A j \in PublishJobs : publishJob[j] \in BuiltStates => \A p \in Posts : Known(p) => p \in built[j]
\* and the site, once it is replaced, is the one that was built.
BuiltIsLive ==
    \A j \in PublishJobs : publishJob[j] \in BuiltStates \ {"building"} => built[j] \subseteq live
\* The next site never lacks a post of the one it replaces.
BuiltFromRepo ==
    /\ live \subseteq repo
    /\ \A j \in PublishJobs : /\ built[j] \subseteq repo
                              /\ publishJob[j] = "building" => live \subseteq built[j]
FinishedIsLive == \A p \in Posts : publishState[p] = "finished" => p \in live

\* The inductive invariant is PublicationInv, SavesInv, EventsInv, SubmitsAlone and this.
LiveInv == KnownIsPushed /\ BuiltHasPosts /\ BuiltIsLive /\ BuiltFromRepo /\ FinishedIsLive

\* A step that submits no post and gives none its first publish order, builds nothing and finishes no publication.
LEMMA ElsewhereLive ==
    ASSUME LiveInv, UNCHANGED <<live, built>>, repo \subseteq repo',
           \A j \in PublishJobs : publishJob'[j] \in BuiltStates => publishJob'[j] = publishJob[j],
           \A p \in Posts : Known(p)' => Known(p),
           \A p \in Posts : publishState'[p] = "finished" => publishState[p] = "finished"
    PROVE  LiveInv'
<1>1. KnownIsPushed'
  BY DEF LiveInv, KnownIsPushed
<1>2. BuiltHasPosts' /\ BuiltIsLive'
  BY DEF LiveInv, BuiltHasPosts, BuiltIsLive
<1>3. BuiltFromRepo' /\ FinishedIsLive'
  BY DEF LiveInv, BuiltFromRepo, FinishedIsLive, BuiltStates
<1>4. QED
  BY <1>1, <1>2, <1>3 DEF LiveInv

\* Either kind of events fits.
LEMMA RetriedFit ==
    ASSUME TypeOK, EventsInv
    PROVE  EventsFit /\ SavesUnlinked
<1>1. CASE NothingRetried /\ NoEvents
  BY <1>1 DEF NothingRetried, NoEvents, EventsFit, SavesUnlinked
<1>2. CASE RetryInv
  <2>1. ASSUME NEW r \in Retriers, NEW p \in Posts,
               gen[r].pc # "none", gen[r].task # NoTask, postTaskId[p] = gen[r].task
        PROVE  submitState[p] = "finished"
    <3>1. gen[r].task \in PostTaskIds
      BY <2>1 DEF TypeOK, Callers, GenRun
    <3>2. Retried(gen[r].task)
      BY <2>1 DEF Retried
    <3>3. QED
      BY <1>2, <2>1, <3>1, <3>2 DEF RetryInv, RetriedTasks
  <2>2. SavesUnlinked
    BY <1>2 DEF RetryInv, SavesStartOver, SavesUnlinked
  <2>3. QED
    BY <2>1, <2>2 DEF EventsFit
<1>3. QED
  BY <1>1, <1>2 DEF EventsInv

\* Without retries there are no events.
LEMMA StaysQuiet ==
    ASSUME TypeOK, NothingRetried, NoEvents, [Next]_vars
    PROVE  NoEvents'
<1>1. CASE UNCHANGED vars
  BY <1>1 DEF vars, NoEvents
<1>2. ASSUME NEW c \in Callers, GenStep(c)
      PROVE  NoEvents'
  <2>1. gen[c].pc # "none" /\ \A b \in Callers \ {c} : gen'[b] = gen[b]
    BY <1>2 DEF GenStep, GenFind, GenCreate, TypeOK
  <2>2. QED
    BY <2>1 DEF NoEvents, Callers
<1>3. CASE \/ RequestPublish
           \/ \E t \in PostTaskIds : PostJobStep(t) \/ \E p \in Posts : ReportErrored(t, p)
  <2>1. \A r \in Retriers : gen'[r] = gen[r]
    <3>1. CASE RequestPublish
      BY <3>1, NamesAssumption DEF RequestPublish, TypeOK, Callers
    <3>2. CASE \E t \in PostTaskIds : PostJobStep(t) \/ \E p \in Posts : ReportErrored(t, p)
      BY <3>2, NamesAssumption DEF PostJobStep, PostJobCompleted, PostJobFailed, FailPostTask, FailSubmitPosts,
             FinishPostTask, FinishSubmitPost, ReportErrored, TypeOK, Callers
    <3>3. QED
      BY <1>3, <3>1, <3>2
  <2>2. QED
    BY <2>1 DEF NoEvents
<1>4. CASE (\E p \in Posts : SavePost(p)) \/ \E c \in Certifiers : CertificateStep(c)
  BY <1>4 DEF SavePost, CertificateStep, DoingCertificate, UploadCertificate, UploadFailed, FailCertificate, NoEvents
<1>5. CASE \E l \in Linkers : LinkStep(l)
  BY <1>5 DEF LinkStep, LinkRead, LinkCreate, LinkOrders, LinkIds, LinkPosts, NoEvents
<1>6. ~ \E r \in Retriers : UpdatePublishOrderId(r)
  BY DEF NoEvents, UpdatePublishOrderId
<1>7. CASE \E d \in Dispatchers : DispatchStep(d) \/ RequestDispatch(d)
  BY <1>7 DEF DispatchStep, RequestDispatch, ReadPublishOrder, ReadPostOrder, CheckPublish, PickPending,
         DoingPublishTask, DoingPublishOrders, DoingPublishPosts, DoingPublishStatus, DispatchPublish,
         CreatePostTask, BatchPosts, CollectPosts, DoingPostTask, DoingSubmitPost, DispatchPosts, DispatchFailed,
         NoEvents
<1>8. CASE \E j \in PublishJobs : PublishJobStep(j)
  BY <1>8 DEF PublishJobStep, PublishJobBuild, PublishJobCompleted, PublishJobFailed, FinishPublishTask,
         UpdateDomain, FinishPublishOrders, FinishPublishPosts, SetPublished, FailPublishTask,
         FailPublishOrders, FailPublishPosts, SetPublishFailed, NoEvents
<1>9. CASE Restart
  BY <1>9 DEF Restart, NoEvents, NoGen, Callers
<1>10. QED
  BY <1>1, <1>2, <1>3, <1>4, <1>5, <1>6, <1>7, <1>8, <1>9, NeverRetried DEF Next

\* Every step keeps the events in hand.
LEMMA NextEvents ==
    ASSUME SavesInv, EventsInv, [Next]_vars
    PROVE  EventsInv'
<1>1. TypeOK
  BY DEF SavesInv, PostInv
<1>2. CASE NothingRetried /\ NoEvents
  BY <1>1, <1>2, StaysUnretried, StaysQuiet DEF EventsInv
<1>3. CASE FailTogether /\ RetryInv
  <2>1. RetryInv' /\ FailTogether'
    BY <1>3, NextRetries DEF SavesInv, FailTogether
  <2>2. QED
    BY <2>1 DEF EventsInv
<1>4. QED
  BY <1>2, <1>3 DEF EventsInv

\* New posts, certificates, generate and link handlers: a link handler gives a task to
\* posts that have an order, whatever the job of that task has built, and the event of a
\* retried post gives an order to submitted posts.
LEMMA OthersLive ==
    ASSUME TypeOK, EventsFit, LiveInv,
           \/ \E p \in Posts : SavePost(p)
           \/ \E c \in Certifiers : CertificateStep(c)
           \/ \E l \in Linkers : LinkStep(l)
           \/ \E c \in Callers : GenStep(c)
           \/ \E r \in Retriers : UpdatePublishOrderId(r)
           \/ RequestPublish
    PROVE  LiveInv'
<1>1. CASE (\E p \in Posts : SavePost(p)) \/ \E c \in Certifiers : CertificateStep(c)
  <2>1. UNCHANGED <<publishSiteTaskId, publishSiteOrderId, live, built, repo, publishJob, retry>>
    BY <1>1 DEF SavePost, CertificateStep, DoingCertificate, UploadCertificate, UploadFailed, FailCertificate
  <2>2. \A p \in Posts : /\ publishState'[p] = "finished" => publishState[p] = "finished"
                         /\ submitState'[p] = "finished" => submitState[p] = "finished"
    <3>1. CASE \E p \in Posts : SavePost(p)
      BY <3>1 DEF SavePost, TypeOK
    <3>2. CASE \E c \in Certifiers : CertificateStep(c)
      BY <3>2 DEF CertificateStep, DoingCertificate, UploadCertificate, UploadFailed, FailCertificate, TypeOK
    <3>3. QED
      BY <1>1, <3>1, <3>2
  <2>3. \A p \in Posts : Known(p)' => Known(p)
    BY <2>1, <2>2 DEF Known, Linked
  <2>4. QED
    BY <2>1, <2>2, <2>3, ElsewhereLive
<1>2. ASSUME NEW l \in Linkers, LinkStep(l)
      PROVE  LiveInv'
  <2>1. UNCHANGED <<publishSiteOrderId, publishState, submitState, live, built, repo, publishJob, retry>>
    BY <1>2 DEF LinkStep, LinkRead, LinkCreate, LinkOrders, LinkIds, LinkPosts
  <2>2. ASSUME NEW p \in Posts, publishSiteTaskId'[p] # publishSiteTaskId[p]
        PROVE  publishSiteOrderId[p] # NoId
    <3>1. LinkPosts(l) /\ link[l].orders \subseteq OrderIds
      BY <1>2, <2>2 DEF LinkStep, LinkRead, LinkCreate, LinkOrders, LinkIds, TypeOK, LinkRun
    <3>2. QED
      BY <2>2, <3>1 DEF LinkPosts, OrderIds, NoId
  <2>3. \A p \in Posts : Known(p)' => Known(p)
    BY <2>1, <2>2 DEF Known, Linked
  <2>4. QED
    BY <2>1, <2>3, ElsewhereLive
<1>3. CASE (\E c \in Callers : GenStep(c)) \/ RequestPublish
  <2>1. UNCHANGED <<publishSiteTaskId, publishSiteOrderId, publishState, submitState, live, built, repo,
                    publishJob, retry>>
    BY <1>3 DEF GenStep, GenFind, GenCreate, RequestPublish
  <2>2. QED
    BY <2>1, ElsewhereLive DEF Known, Linked
<1>4. ASSUME NEW r \in Retriers, UpdatePublishOrderId(r)
      PROVE  LiveInv'
  <2>1. UNCHANGED <<publishSiteTaskId, publishState, submitState, live, built, repo, publishJob, retry>>
    BY <1>4 DEF UpdatePublishOrderId
  <2>2. \A p \in Posts : publishSiteOrderId'[p] # publishSiteOrderId[p] => submitState[p] = "finished"
    BY <1>4 DEF UpdatePublishOrderId, EventsFit
  <2>3. \A p \in Posts : Known(p)' => Known(p)
    BY <2>1, <2>2 DEF Known, Linked
  <2>4. QED
    BY <2>1, <2>3, ElsewhereLive
<1>5. QED
  BY <1>1, <1>2, <1>3, <1>4

\* A retry reads the post as it is, and saves it without order and task.
LEMMA RetriesLive ==
    ASSUME TypeOK, SavesUnlinked, LiveInv,
           \/ SweepFailed
           \/ \E p \in Posts : RetryRequest(p) \/ SweepRead(p)
           \/ \E r \in Retriers : RetrySave(r)
    PROVE  LiveInv'
<1>1. CASE SweepFailed
  <2>1. UNCHANGED <<publishSiteTaskId, publishSiteOrderId, publishState, submitState, live, built, repo, publishJob>>
    BY <1>1 DEF SweepFailed
  <2>2. \A r \in Retriers : retry'[r].pc = "save" => retry'[r] = retry[r]
    BY <1>1 DEF SweepFailed, TypeOK
  <2>3. \A p \in Posts : Known(p)' => Known(p)
    BY <2>1, <2>2 DEF Known, Linked
  <2>4. QED
    BY <2>1, <2>3, ElsewhereLive
<1>2. ASSUME NEW p \in Posts, RetryRequest(p) \/ SweepRead(p)
      PROVE  LiveInv'
  <2>1. UNCHANGED <<publishSiteTaskId, publishSiteOrderId, publishState, submitState, live, built, repo, publishJob>>
    BY <1>2 DEF RetryRequest, SweepRead
  <2>2. ASSUME NEW r \in Retriers, ReadFailed(r)
        PROVE  \A s \in Retriers : \/ retry'[s] = retry[s]
                                   \/ retry'[s].row.submit = "finished" => submitState[s[1]] = "finished"
    <3>1. \A s \in Retriers \ {r} : retry'[s] = retry[s]
      BY <2>2 DEF ReadFailed, TypeOK
    <3>2. \E row \in {Recertified(Row(r[1])), Resubmitted(Row(r[1])), Republished(Row(r[1]))} :
             retry'[r] = [pc |-> "save", row |-> row]
      BY <2>2 DEF ReadFailed, TypeOK
    <3>3. /\ Recertified(Row(r[1])).submit = "pending" /\ Resubmitted(Row(r[1])).submit = "pending"
          /\ Republished(Row(r[1])).submit = submitState[r[1]]
      BY DEF Recertified, Resubmitted, Republished, Row
    <3>4. retry'[r].row.submit = "finished" => submitState[r[1]] = "finished"
      BY <3>2, <3>3
    <3>5. QED
      BY <3>1, <3>4
  <2>3. \A s \in Retriers : \/ retry'[s] = retry[s] \/ retry'[s].pc # "save"
                            \/ retry'[s].row.submit = "finished" => submitState[s[1]] = "finished"
    <3>1. <<p, "request">> \in Retriers /\ <<p, "sweep">> \in Retriers
      BY DEF Retriers
    <3>2. CASE ReadFailed(<<p, "request">>) \/ ReadFailed(<<p, "sweep">>)
      BY <2>2, <3>1, <3>2
    <3>3. CASE retry' = [retry EXCEPT ![<<p, "sweep">>] = NoRetry]
      BY <3>1, <3>3 DEF NoRetry, TypeOK
    <3>4. QED
      BY <1>2, <3>2, <3>3 DEF RetryRequest, SweepRead
  <2>4. \A q \in Posts : Known(q)' => Known(q)
    BY <2>1, <2>3 DEF Known, Linked
  <2>5. QED
    BY <2>1, <2>4, ElsewhereLive
<1>3. ASSUME NEW r \in Retriers, RetrySave(r)
      PROVE  LiveInv'
  <2>1. UNCHANGED <<live, built, repo, publishJob>> /\ retry[r].pc = "save" /\ r[1] \in Posts
    BY <1>3 DEF RetrySave, Retriers
  <2>2. /\ submitState'[r[1]] = retry[r].row.submit /\ publishState'[r[1]] = "pending"
        /\ publishSiteOrderId'[r[1]] = NoId /\ publishSiteTaskId'[r[1]] = NoId
        /\ \A p \in Posts \ {r[1]} :
             /\ submitState'[p] = submitState[p] /\ publishState'[p] = publishState[p]
             /\ publishSiteOrderId'[p] = publishSiteOrderId[p] /\ publishSiteTaskId'[p] = publishSiteTaskId[p]
    BY <1>3, <2>1 DEF RetrySave, SavesUnlinked, TypeOK
  <2>3. \A s \in Retriers : retry'[s].pc = "save" => retry'[s] = retry[s]
    BY <1>3 DEF RetrySave, NoRetry, TypeOK
  <2>4. \A p \in Posts : Known(p)' => Known(p)
    BY <2>1, <2>2, <2>3 DEF Known, Linked
  <2>5. QED
    BY <2>1, <2>2, <2>4, ElsewhereLive
<1>4. QED
  BY <1>1, <1>2, <1>3

\* The finish handler of a post job gives a publish order to posts that were pushed,
\* while no publish job is busy.
LEMMA PostJobLive ==
    ASSUME TypeOK, CarryInv, SubmitsAlone, LiveInv, NEW t \in PostTaskIds,
           PostJobStep(t) \/ \E p \in Posts : ReportErrored(t, p)
    PROVE  LiveInv'
<1>1. UNCHANGED <<publishSiteTaskId, live, built, publishJob, retry>> /\ repo \subseteq repo'
  BY DEF PostJobStep, PostJobCompleted, PostJobFailed, FailPostTask, FailSubmitPosts, FinishPostTask,
         FinishSubmitPost, ReportErrored
<1>2. \A p \in Posts : publishState'[p] = "finished" => publishState[p] = "finished"
  BY DEF PostJobStep, PostJobCompleted, PostJobFailed, FailPostTask, FailSubmitPosts, FinishPostTask,
         FinishSubmitPost, ReportErrored, TypeOK
<1>3. CASE FinishSubmitPost(t)
  <2>1. ASSUME NEW p \in Posts, Known(p)', ~Known(p)
        PROVE  p \in repo /\ \A j \in PublishJobs : publishJob[j] \notin BuiltStates
    <3>1. gen[t].pc # "none" /\ postTaskId[p] = t /\ submitState[p] = "doing"
      BY <1>1, <1>3, <2>1 DEF FinishSubmitPost, Known, Linked
    <3>2. p \in repo
      BY <3>1 DEF CarryInv, CarriedByTask, PushedByJob
    <3>3. \A j \in PublishJobs : ~Busy(j)
      BY <3>1 DEF SubmitsAlone, NoneSubmits
    <3>4. QED
      BY <3>2, <3>3 DEF Busy, BusyStates, BuiltStates
  <2>2. KnownIsPushed'
    BY <1>1, <2>1 DEF LiveInv, KnownIsPushed
  <2>3. BuiltHasPosts'
    BY <1>1, <2>1 DEF LiveInv, BuiltHasPosts
  <2>4. BuiltIsLive' /\ BuiltFromRepo' /\ FinishedIsLive'
    BY <1>1, <1>2 DEF LiveInv, BuiltIsLive, BuiltFromRepo, FinishedIsLive
  <2>5. QED
    BY <2>2, <2>3, <2>4 DEF LiveInv
<1>4. CASE ~FinishSubmitPost(t)
  <2>1. UNCHANGED publishSiteOrderId
    BY <1>4 DEF PostJobStep, PostJobCompleted, PostJobFailed, FailPostTask, FailSubmitPosts, FinishPostTask, ReportErrored
  <2>2. \A p \in Posts : submitState'[p] = "finished" => submitState[p] = "finished"
    BY <1>4 DEF PostJobStep, PostJobCompleted, PostJobFailed, FailPostTask, FailSubmitPosts, FinishPostTask,
           ReportErrored, TypeOK
  <2>3. \A p \in Posts : Known(p)' => Known(p)
    BY <1>1, <2>1, <2>2 DEF Known, Linked
  <2>4. QED
    BY <1>1, <1>2, <2>3, ElsewhereLive
<1>5. QED
  BY <1>3, <1>4

\* A dispatcher queues jobs that have built nothing, and marks posts as doing.
LEMMA DispatchLive ==
    ASSUME TypeOK, LiveInv, NEW d \in Dispatchers, DispatchStep(d)
    PROVE  LiveInv'
<1>1. UNCHANGED <<publishSiteTaskId, publishSiteOrderId, live, built, repo, retry>>
  BY DEF DispatchStep, ReadPublishOrder, ReadPostOrder, CheckPublish, PickPending,
         DoingPublishTask, DoingPublishOrders, DoingPublishPosts, DoingPublishStatus, DispatchPublish,
         CreatePostTask, BatchPosts, CollectPosts, DoingPostTask, DoingSubmitPost, DispatchPosts, DispatchFailed
<1>2. \A p \in Posts : submitState'[p] = "finished" => submitState[p] = "finished"
  BY DEF DispatchStep, ReadPublishOrder, ReadPostOrder, CheckPublish, PickPending,
         DoingPublishTask, DoingPublishOrders, DoingPublishPosts, DoingPublishStatus, DispatchPublish,
         CreatePostTask, BatchPosts, CollectPosts, DoingPostTask, DoingSubmitPost, DispatchPosts, DispatchFailed
<1>3. \A j \in PublishJobs : publishJob'[j] = publishJob[j] \/ publishJob'[j] \in {"active", "fail"}
  BY DEF DispatchStep, ReadPublishOrder, ReadPostOrder, CheckPublish, PickPending,
         DoingPublishTask, DoingPublishOrders, DoingPublishPosts, DoingPublishStatus, DispatchPublish,
         CreatePostTask, BatchPosts, CollectPosts, DoingPostTask, DoingSubmitPost, DispatchPosts, DispatchFailed,
         TypeOK
<1>4. \A p \in Posts : publishState'[p] = "finished" => publishState[p] = "finished"
  BY DEF DispatchStep, ReadPublishOrder, ReadPostOrder, CheckPublish, PickPending,
         DoingPublishTask, DoingPublishOrders, DoingPublishPosts, DoingPublishStatus, DispatchPublish,
         CreatePostTask, BatchPosts, CollectPosts, DoingPostTask, DoingSubmitPost, DispatchPosts, DispatchFailed
<1>5. QED
  BY <1>1, <1>2, <1>3, <1>4, ElsewhereLive DEF BuiltStates, Known, Linked

\* A publish job builds from the repository, which has all posts with an order, replaces
\* the site, and its handler finishes posts that had an order by then.
LEMMA PublishJobLive ==
    ASSUME PublicationInv, LiveInv, NEW j \in PublishJobs, PublishJobStep(j)
    PROVE  LiveInv'
<1>1. TypeOK
  BY DEF PublicationInv
<1>2. UNCHANGED <<publishSiteTaskId, publishSiteOrderId, submitState, retry, repo>>
  BY DEF PublishJobStep, PublishJobBuild, PublishJobCompleted, PublishJobFailed, FinishPublishTask,
         UpdateDomain, FinishPublishOrders, FinishPublishPosts, SetPublished, FailPublishTask,
         FailPublishOrders, FailPublishPosts, SetPublishFailed
<1>3. KnownIsPushed' /\ \A p \in Posts : Known(p)' <=> Known(p)
  BY <1>2 DEF LiveInv, KnownIsPushed, Known, Linked
<1>4. \A k \in PublishJobs \ {j} : ~(publishJob[k] \in BuiltStates /\ Busy(j))
  BY DEF PublicationInv, OneBusyJob, Busy, BusyStates, BuiltStates
<1>5. CASE PublishJobBuild(j)
  <2>1. UNCHANGED <<live, publishState>>
    BY <1>5 DEF PublishJobBuild
  <2>2. publishJob[j] = "active" /\ publishJob'[j] = "building" /\ JobSteps(j)
    BY <1>1, <1>5, Advances DEF PublishJobBuild
  <2>3. built'[j] = repo /\ \A k \in PublishJobs \ {j} : built'[k] = built[k]
    BY <1>1, <1>5 DEF PublishJobBuild, TypeOK
  <2>4. BuiltHasPosts'
    BY <1>2, <1>3, <2>2, <2>3 DEF LiveInv, BuiltHasPosts, KnownIsPushed, JobSteps
  <2>5. BuiltIsLive'
    BY <2>1, <2>2, <2>3 DEF LiveInv, BuiltIsLive, JobSteps
  <2>6. BuiltFromRepo' /\ FinishedIsLive'
    BY <1>2, <2>1, <2>2, <2>3 DEF LiveInv, BuiltFromRepo, FinishedIsLive, JobSteps
  <2>7. QED
    BY <1>3, <2>4, <2>5, <2>6 DEF LiveInv
<1>6. CASE PublishJobCompleted(j) \/ PublishJobFailed(j)
  <2>1. /\ publishJob[j] = "building" /\ publishJob'[j] \in {"finish", "fail"} /\ JobSteps(j)
        /\ publishJob'[j] = "finish" => live' = built[j]
    BY <1>1, <1>6, Advances DEF PublishJobCompleted, PublishJobFailed
  <2>2. live' \in {live, built[j]} /\ UNCHANGED <<built, publishState>>
    BY <1>6 DEF PublishJobCompleted, PublishJobFailed
  <2>3. live \subseteq live' /\ live' \subseteq repo
    BY <2>1, <2>2 DEF LiveInv, BuiltFromRepo
  <2>4. \A k \in PublishJobs \ {j} : publishJob'[k] \notin BuiltStates
    BY <1>4, <2>1 DEF JobSteps, Busy, BusyStates
  <2>5. publishJob'[j] \in BuiltStates => publishJob'[j] = "finish" /\ publishJob[j] \in BuiltStates
    BY <2>1 DEF BuiltStates
  <2>6. BuiltHasPosts'
    BY <1>3, <2>2, <2>4, <2>5 DEF LiveInv, BuiltHasPosts
  <2>7. BuiltIsLive'
    BY <2>1, <2>2, <2>4, <2>5 DEF BuiltIsLive
  <2>8. BuiltFromRepo'
    BY <1>2, <2>1, <2>2, <2>3, <2>4 DEF LiveInv, BuiltFromRepo, BuiltStates
  <2>9. FinishedIsLive'
    BY <2>2, <2>3 DEF LiveInv, FinishedIsLive
  <2>10. QED
    BY <1>3, <2>6, <2>7, <2>8, <2>9 DEF LiveInv
<1>7. CASE /\ ~PublishJobBuild(j) /\ ~PublishJobCompleted(j) /\ ~PublishJobFailed(j)
  <2>1. UNCHANGED <<live, built>>
    BY <1>7 DEF PublishJobStep, FinishPublishTask, UpdateDomain, FinishPublishOrders, FinishPublishPosts,
           SetPublished, FailPublishTask, FailPublishOrders, FailPublishPosts, SetPublishFailed
  <2>2. PICK from \in {"finish", "domain", "finishOrders", "finishPosts", "setPublished",
                       "fail", "failOrders", "failPosts", "failStatus"},
             to \in {"domain", "finishOrders", "finishPosts", "stuck", "setPublished",
                     "failOrders", "failPosts", "failStatus", "done"} :
             /\ AdvancePublish(j, from, to)
             /\ to \in BuiltStates => from \in BuiltStates \ {"building"}
    BY <1>7 DEF PublishJobStep, FinishPublishTask, UpdateDomain, FinishPublishOrders, FinishPublishPosts,
           SetPublished, FailPublishTask, FailPublishOrders, FailPublishPosts, SetPublishFailed, BuiltStates
  <2>3. publishJob[j] = from /\ publishJob'[j] = to /\ JobSteps(j)
    BY <1>1, <2>2, Advances
  <2>4. \A k \in PublishJobs : /\ publishJob'[k] \in BuiltStates => publishJob[k] \in BuiltStates
                               /\ publishJob'[k] \in BuiltStates \ {"building"} => publishJob[k] \in BuiltStates \ {"building"}
                               /\ publishJob'[k] = "building" => publishJob[k] = "building"
    BY <2>2, <2>3 DEF JobSteps, BuiltStates
  <2>5. BuiltHasPosts'
    BY <1>3, <2>1, <2>4 DEF LiveInv, BuiltHasPosts
  <2>6. BuiltIsLive' /\ BuiltFromRepo'
    BY <1>2, <2>1, <2>4 DEF LiveInv, BuiltIsLive, BuiltFromRepo
  <2>7. ASSUME NEW p \in Posts, publishState'[p] = "finished"
        PROVE  p \in live
    <3>1. CASE publishState[p] = "finished"
      BY <3>1 DEF LiveInv, FinishedIsLive
    <3>2. CASE publishState[p] # "finished"
      <4>1. FinishPublishPosts(j)
        BY <1>7, <2>7, <3>2 DEF PublishJobStep, FinishPublishTask, UpdateDomain, FinishPublishOrders,
           SetPublished, FailPublishTask, FailPublishOrders, FailPublishPosts, SetPublishFailed
      <4>2. publishSiteTaskId[p] = j[1] /\ publishJob[j] = "finishPosts"
        BY <2>7, <3>2, <4>1 DEF FinishPublishPosts, AdvancePublish
      <4>3. Known(p)
        BY <4>2 DEF Known, Linked, PublishJobs, PublishTaskIds, NoId
      <4>4. p \in built[j] /\ built[j] \subseteq live
        BY <4>2, <4>3 DEF LiveInv, BuiltHasPosts, BuiltIsLive, BuiltStates
      <4>5. QED
        BY <4>4
    <3>3. QED
      BY <3>1, <3>2
  <2>8. FinishedIsLive'
    BY <2>1, <2>7 DEF FinishedIsLive
  <2>9. QED
    BY <1>3, <2>5, <2>6, <2>8 DEF LiveInv
<1>8. QED
  BY <1>5, <1>6, <1>7

\* Every step keeps the invariant.
LEMMA NextLive ==
    ASSUME MaxRequests = 0,
           PublicationInv, SavesInv, EventsInv, SubmitsAlone, LiveInv, [Next]_vars
    PROVE  LiveInv'
<1>1. TypeOK /\ CarryInv
  BY DEF SavesInv, PostInv
<1>a. EventsFit /\ SavesUnlinked
  BY <1>1, RetriedFit
<1>2. CASE UNCHANGED vars
  BY <1>2, ElsewhereLive DEF vars, Known, Linked
<1>3. CASE Next
  <2>1. CASE \/ \E p \in Posts : SavePost(p)
             \/ \E r \in Retriers : UpdatePublishOrderId(r)
             \/ \E c \in Certifiers : CertificateStep(c)
             \/ \E l \in Linkers : LinkStep(l)
             \/ \E c \in Callers : GenStep(c)
             \/ RequestPublish
    BY <1>1, <1>a, <2>1, OthersLive
  <2>a. CASE \/ SweepFailed
             \/ \E p \in Posts : RetryRequest(p) \/ SweepRead(p)
             \/ \E r \in Retriers : RetrySave(r)
    BY <1>1, <1>a, <2>a, RetriesLive
  <2>2. ASSUME NEW d \in Dispatchers, DispatchStep(d) \/ RequestDispatch(d)
        PROVE  LiveInv'
    <3>1. ~RequestDispatch(d)
      BY <1>1 DEF RequestDispatch, TypeOK
    <3>2. QED
      BY <1>1, <2>2, <3>1, DispatchLive
  <2>3. CASE \E t \in PostTaskIds : PostJobStep(t) \/ \E p \in Posts : ReportErrored(t, p)
    BY <1>1, <2>3, PostJobLive
  <2>4. CASE \E j \in PublishJobs : PublishJobStep(j)
    BY <2>4, PublishJobLive
  <2>5. CASE Restart
    <3>1. UNCHANGED <<publishSiteTaskId, publishSiteOrderId, publishState, submitState, live, built, repo>>
      BY <2>5 DEF Restart
    <3>2. \A r \in Retriers : retry'[r].pc = "none"
      BY <2>5 DEF Restart, NoRetry
    <3>3. \A p \in Posts : Known(p)' => Known(p)
      BY <3>1, <3>2 DEF Known, Linked
    <3>4. \A j \in PublishJobs : publishJob'[j] \in BuiltStates => publishJob'[j] = publishJob[j]
      BY <2>5 DEF Restart, BuiltStates
    <3>5. QED
      BY <3>1, <3>3, <3>4, ElsewhereLive
  <2>6. QED
    BY <1>3, <2>1, <2>a, <2>2, <2>3, <2>4, <2>5 DEF Next
<1>4. QED
  BY <1>2, <1>3

\* Initially no post is saved, and nothing is in flight but the first publish order.
LEMMA InitLive == Init => NoEvents /\ LiveInv
<1>1. Init => /\ gen = [c \in Callers |-> IF c = OrderRequest /\ JustDeployed THEN [NoGen EXCEPT !.pc = "find"] ELSE NoGen]
              /\ publishJob = [j \in PublishJobs |-> "none"]
              /\ retry = [r \in Retriers |-> NoRetry]
              /\ submitState = [p \in Posts |-> "absent"]
              /\ publishState = [p \in Posts |-> "absent"]
              /\ publishSiteOrderId = [p \in Posts |-> NoId]
              /\ publishSiteTaskId = [p \in Posts |-> NoId]
              /\ live = {} /\ built = [j \in PublishJobs |-> {}]
  BY Zenon DEF Init
<1>2. Init => \A r \in Retriers : gen[r].pc = "none" /\ retry[r].pc = "none"
  BY <1>1, NamesAssumption DEF Callers, NoGen, NoRetry
<1>3. Init => \A p \in Posts : ~Known(p)
  BY <1>1, <1>2 DEF Known, Linked
<1>4. QED
  BY <1>1, <1>2, <1>3 DEF LiveInv, NoEvents, KnownIsPushed, BuiltHasPosts, BuiltIsLive,
                    BuiltFromRepo, FinishedIsLive, BuiltStates

\* Either way, retries start with the right events.
LEMMA InitEvents ==
    ASSUME NoRetries \/ FailTogether
    PROVE  Init => EventsInv
BY InitPosts, InitLive, InitUnretried DEF EventsInv

\* A post that the user is told is published is on the site, for any number of posts,
\* tasks, publish requests, failed jobs and restarts, and however slow a link handler is,
\* as long as the queue's consumer alone dispatches: for any reports of workers and failed
\* certificates if no post is retried, and for any retries of the user and of sweeps if the
\* posts of a task can only fail together. Otherwise the retry of one post of a task gives
\* a publish order to another one that was never pushed.
THEOREM PublishedOnSite ==
    ASSUME SingleDispatcher, MaxRequests = 0, NoRetries \/ FailTogether
    PROVE  Spec => []PublishedIsLive
<1> DEFINE Inv == PublicationInv /\ SavesInv /\ EventsInv /\ SubmitsAlone /\ LiveInv
<1>1. Init => Inv
  BY InitPublication, InitSaves, InitEvents, InitAlone, InitLive
<1>2. Inv /\ [Next]_vars => Inv'
  <2>1. Inv /\ [Next]_vars => SavesInv' /\ SavesFit /\ PostInv
    BY NextSaves DEF SavesInv
  <2>2. QED
    BY <2>1, NextPublication, NextEvents, NextAlone, NextLive
<1>3. Inv => PublishedIsLive
  BY DEF LiveInv, FinishedIsLive, PublishedIsLive
<1>4. QED
  BY <1>1, <1>2, <1>3, PTL DEF Spec

-----------------------------------------------------------------------------
(* Every step of the pipeline is a step of the lifecycle of its posts. *)

\* A post gets its publish order and task once it is submitted.
LinkedIsSubmitted ==
    \A p \in Posts : submitState[p] # "finished" => publishSiteOrderId[p] = NoId /\ publishSiteTaskId[p] = NoId
\* The two states of a post are those of a stage,
StagesAgree ==
    \A p \in Posts :
        /\ submitState[p] \in {"absent", "failed"} => publishState[p] = submitState[p]
        /\ submitState[p] \in {"pending", "doing"} => publishState[p] = "pending"
        /\ submitState[p] = "finished" => publishState[p] # "absent"
\* and a post stays published because its task is never dispatched again.
PublishedByTask ==
    \A p \in Posts : publishState[p] = "finished" =>
        publishSiteTaskId[p] \in PublishTaskIds /\ publishTaskState[publishSiteTaskId[p]] = "finished"
RowsInv == LinkedIsSubmitted /\ StagesAgree /\ PublishedByTask

\* A post task that was not made has no posts,
NoTaskYet == \A p \in Posts : postTaskId[p] # NoTask => postTaskState[postTaskId[p]] # "absent"
\* the one that is being prepared has pending posts up to doingSubmitPost,
PreparedPending ==
    \A d \in Dispatchers :
        /\ disp[d].pc = "batch" => \A p \in Posts : postTaskId[p] # disp[d].postTask
        /\ disp[d].pc \in {"collect", "doingPostTask", "doingSubmit"} =>
             \A p \in Posts : postTaskId[p] = disp[d].postTask => submitState[p] = "pending"
        /\ disp[d].pc \in {"doingPostTask", "doingSubmit"} =>
             \A p \in Posts : p \in batch[disp[d].postTask] => postTaskId[p] = disp[d].postTask
        /\ disp[d].pc = "postConfig" =>
             \A p \in Posts : p \in batch[disp[d].postTask] => postTaskId[p] = disp[d].postTask /\ submitState[p] = "doing"
\* and the worker reports on posts that are doing.
ActiveBatch ==
    \A t \in PostTaskIds : postJob[t] = "active" =>
        \A p \in batch[t] : postTaskId[p] = t /\ submitState[p] = "doing"
BatchesInv == NoTaskYet /\ PreparedPending /\ ActiveBatch

\* The inductive invariant is PostInv, CarryInv, TaskInv and this.
LifecycleInv == NoEvents /\ NoUploads /\ RowsInv /\ BatchesInv

stages == [p \in Posts |-> StageOf(submitState[p], publishState[p])]
StageStep == Lifecycle!Next \/ UNCHANGED stages

\* A step that takes some posts along an edge to one stage, and leaves the others.
LEMMA MovesTo ==
    ASSUME NEW to \in Lifecycle!Stage,
           \A p \in Posts : \/ UNCHANGED <<submitState[p], publishState[p]>>
                            \/ /\ StageOf(submitState'[p], publishState'[p]) = to
                               /\ <<StageOf(submitState[p], publishState[p]), to>> \in Lifecycle!Edges
    PROVE  StageStep
<1> DEFINE moved == {p \in Posts : <<StageOf(submitState[p], publishState[p]), to>> \in Lifecycle!Edges
                                    /\ StageOf(submitState'[p], publishState'[p]) = to}
<1>1. \A p \in Posts : StageOf(submitState'[p], publishState'[p])
                         = IF p \in moved THEN to ELSE StageOf(submitState[p], publishState[p])
  BY DEF moved
<1>2. Lifecycle!Move(to)
  BY <1>1 DEF Lifecycle!Move
<1>3. QED
  BY <1>2 DEF StageStep, Lifecycle!Next

\* A step that leaves the posts, and the tasks they are in, alone.
LEMMA ElsewhereLifecycle ==
    ASSUME TypeOK, LifecycleInv, NoEvents', NoUploads',
           UNCHANGED <<submitState, publishState, postTaskId, publishSiteOrderId, publishSiteTaskId, batch>>,
           \A t \in PublishTaskIds : publishTaskState[t] = "finished" => publishTaskState'[t] = "finished",
           \A t \in PostTaskIds : postTaskState[t] # "absent" => postTaskState'[t] # "absent",
           \A t \in PostTaskIds : postJob'[t] = "active" => postJob[t] = "active",
           \A d \in Dispatchers : PreparesPosts(d)' => disp'[d] = disp[d]
    PROVE  LifecycleInv' /\ StageStep
<1>1. RowsInv'
  BY DEF LifecycleInv, RowsInv, LinkedIsSubmitted, StagesAgree, PublishedByTask
<1>2. NoTaskYet' /\ ActiveBatch'
  BY DEF LifecycleInv, BatchesInv, NoTaskYet, ActiveBatch, TypeOK
<1>3. PreparedPending'
  BY DEF LifecycleInv, BatchesInv, PreparedPending, PreparesPosts
<1>4. StageStep
  BY DEF StageStep, stages
<1>5. QED
  BY <1>1, <1>2, <1>3, <1>4 DEF LifecycleInv, BatchesInv

\* A new post waits; certificates, link and generate handlers move no post.
LEMMA OthersLifecycle ==
    ASSUME TypeOK, TaskInv, LifecycleInv, CertificateTypes = {},
           \/ \E p \in Posts : SavePost(p)
           \/ \E c \in Certifiers : CertificateStep(c)
           \/ \E l \in Linkers : LinkStep(l)
           \/ \E c \in Callers : GenStep(c)
           \/ \E r \in Retriers : UpdatePublishOrderId(r)
           \/ RequestPublish
    PROVE  LifecycleInv' /\ StageStep
<1>1. NoEvents /\ NoUploads
  BY DEF LifecycleInv
<1>2. ASSUME NEW p \in Posts, SavePost(p)
      PROVE  LifecycleInv' /\ StageStep
  <2>1. cert' = [cert EXCEPT ![<<p, "save">>] = NoCert] /\ UNCHANGED gen
    BY <1>2 DEF SavePost, CertStart
  <2>2. NoUploads' /\ NoEvents'
    BY <1>1, <2>1 DEF TypeOK, NoCert, NoUploads, NoEvents
  <2>3. /\ UNCHANGED <<postTaskId, publishSiteOrderId, publishSiteTaskId, publishTaskState, disp, postJob, postTaskState, batch>>
        /\ submitState[p] = "absent" /\ submitState'[p] = "pending" /\ publishState'[p] = "pending"
        /\ \A q \in Posts \ {p} : UNCHANGED <<submitState[q], publishState[q]>>
    BY <1>2 DEF SavePost, TypeOK
  <2>4. publishState[p] = "absent"
    BY <2>3 DEF LifecycleInv, RowsInv, StagesAgree
  <2>5. RowsInv'
    BY <2>3 DEF LifecycleInv, RowsInv, LinkedIsSubmitted, StagesAgree, PublishedByTask
  <2>6. NoTaskYet' /\ PreparedPending' /\ ActiveBatch'
    BY <2>3 DEF LifecycleInv, BatchesInv, NoTaskYet, PreparedPending, ActiveBatch, TypeOK
  <2>7. StageStep
    <3>1. "waiting" \in Lifecycle!Stage
      BY DEF Lifecycle!Stage
    <3>2. /\ StageOf(submitState'[p], publishState'[p]) = "waiting"
          /\ <<StageOf(submitState[p], publishState[p]), "waiting">> \in Lifecycle!Edges
      BY <2>3, <2>4 DEF StageOf, Lifecycle!Edges
    <3>3. QED
      BY <2>3, <3>1, <3>2, MovesTo
  <2>8. QED
    BY <2>2, <2>5, <2>6, <2>7 DEF LifecycleInv, BatchesInv
<1>3. ASSUME NEW c \in Certifiers, CertificateStep(c)
      PROVE  FALSE
  BY <1>1, <1>3 DEF CertificateStep, DoingCertificate, UploadCertificate, UploadFailed, FailCertificate, NoUploads
<1>4. ASSUME NEW l \in Linkers, LinkStep(l)
      PROVE  LifecycleInv' /\ StageStep
  <2>1. NoUploads' /\ NoEvents'
    BY <1>1, <1>4 DEF LinkStep, LinkRead, LinkCreate, LinkOrders, LinkIds, LinkPosts, NoUploads, NoEvents
  <2>2. CASE LinkPosts(l)
    <3>1. /\ UNCHANGED <<submitState, publishState, postTaskId, publishSiteOrderId, publishTaskState, disp, postJob, postTaskState, batch>>
          /\ NoId \notin link[l].orders
          /\ \A p \in Posts : publishSiteTaskId'[p] = publishSiteTaskId[p] \/
                 (publishSiteOrderId[p] # NoId /\ publishState[p] # "finished")
      BY <2>2 DEF LinkPosts, TypeOK, LinkRun, OrderIds, NoId
    <3>2. RowsInv'
      BY <3>1 DEF LifecycleInv, RowsInv, LinkedIsSubmitted, StagesAgree, PublishedByTask
    <3>3. BatchesInv'
      BY <3>1 DEF LifecycleInv, BatchesInv, NoTaskYet, PreparedPending, ActiveBatch
    <3>4. StageStep
      BY <3>1 DEF StageStep, stages
    <3>5. QED
      BY <2>1, <3>2, <3>3, <3>4 DEF LifecycleInv
  <2>3. CASE LinkRead(l) \/ LinkCreate(l) \/ LinkOrders(l) \/ LinkIds(l)
    <3>1. UNCHANGED <<submitState, publishState, postTaskId, publishSiteOrderId, publishSiteTaskId, disp, postJob, postTaskState, batch>>
      BY <2>3 DEF LinkRead, LinkCreate, LinkOrders, LinkIds
    <3>2. \A t \in PublishTaskIds : publishTaskState[t] = "finished" => publishTaskState'[t] = "finished"
      BY <2>3 DEF LinkRead, LinkCreate, LinkOrders, LinkIds, TypeOK
    <3>3. QED
      BY <2>1, <3>1, <3>2, ElsewhereLifecycle
  <2>4. QED
    BY <1>4, <2>2, <2>3 DEF LinkStep
<1>5. CASE (\E c \in Callers : GenStep(c)) \/ RequestPublish
  <2>1. UNCHANGED <<submitState, publishState, postTaskId, publishSiteOrderId, publishSiteTaskId, publishTaskState,
                    cert, disp, postJob, postTaskState, batch>>
    BY <1>5 DEF GenStep, GenFind, GenCreate, RequestPublish
  <2>2. NoEvents'
    <3>1. ASSUME NEW c \in Callers, GenStep(c)
          PROVE  NoEvents'
      <4>1. gen[c].pc # "none" /\ \A b \in Callers \ {c} : gen'[b] = gen[b]
        BY <3>1 DEF GenStep, GenFind, GenCreate, TypeOK
      <4>2. QED
        BY <1>1, <4>1 DEF NoEvents, Callers
    <3>2. CASE RequestPublish
      BY <1>1, <3>2, NamesAssumption DEF RequestPublish, NoEvents, TypeOK, Callers
    <3>3. QED
      BY <1>5, <3>1, <3>2
  <2>3. QED
    BY <1>1, <2>1, <2>2, ElsewhereLifecycle DEF NoUploads
<1>6. ASSUME NEW r \in Retriers, UpdatePublishOrderId(r)
      PROVE  FALSE
  BY <1>1, <1>6 DEF UpdatePublishOrderId, NoEvents
<1>7. QED
  BY <1>2, <1>3, <1>4, <1>5, <1>6

\* A post job's handlers take its posts from submitting to one of the two outcomes.
LEMMA PostJobLifecycle ==
    ASSUME TypeOK, PostInv, CarryInv, LifecycleInv, NEW t \in PostTaskIds,
           PostJobStep(t) \/ \E p \in Posts : ReportErrored(t, p)
    PROVE  LifecycleInv' /\ StageStep
<1>1. UNCHANGED <<postTaskId, publishSiteTaskId, publishTaskState, cert, disp>>
  BY DEF PostJobStep, PostJobCompleted, PostJobFailed, FailPostTask, FailSubmitPosts, FinishPostTask,
         FinishSubmitPost, ReportErrored
<1>2. \A r \in Retriers : gen'[r] = gen[r]
  BY NamesAssumption DEF PostJobStep, PostJobCompleted, PostJobFailed, FailPostTask, FailSubmitPosts, FinishPostTask,
         FinishSubmitPost, ReportErrored, TypeOK, Callers
<1>3. NoEvents' /\ NoUploads'
  BY <1>1, <1>2 DEF LifecycleInv, NoEvents, NoUploads
<1>4. \A u \in PostTaskIds : postJob'[u] = "active" => postJob[u] = "active"
  BY DEF PostJobStep, PostJobCompleted, PostJobFailed, FailPostTask, FailSubmitPosts, FinishPostTask,
         FinishSubmitPost, ReportErrored, TypeOK
<1>5. CASE PostJobCompleted(t) \/ PostJobFailed(t) \/ FailPostTask(t) \/ FinishPostTask(t)
  <2>1. UNCHANGED <<submitState, publishState, publishSiteOrderId, batch>>
    BY <1>5 DEF PostJobCompleted, PostJobFailed, FailPostTask, FinishPostTask
  <2>2. \A u \in PostTaskIds : postTaskState[u] # "absent" => postTaskState'[u] # "absent"
    BY <1>5 DEF PostJobCompleted, PostJobFailed, FailPostTask, FinishPostTask, TypeOK
  <2>3. QED
    BY <1>1, <1>3, <1>4, <2>1, <2>2, ElsewhereLifecycle
<1>6. CASE FailSubmitPosts(t) \/ FinishSubmitPost(t) \/ \E p \in Posts : ReportErrored(t, p)
  <2>1. PICK to \in {"submitFailed", "submitted"} :
           /\ \A p \in Posts : \/ UNCHANGED <<submitState[p], publishState[p], publishSiteOrderId[p]>>
                               \/ /\ postTaskId[p] = t /\ submitState[p] = "doing"
                                  /\ IF to = "submitFailed"
                                     THEN /\ submitState'[p] = "failed" /\ publishState'[p] = "failed"
                                          /\ UNCHANGED publishSiteOrderId[p]
                                     ELSE submitState'[p] = "finished" /\ UNCHANGED publishState[p]
           /\ \A p \in Posts : submitState'[p] # submitState[p] =>
                 postJob'[t] # "active" \/ p \notin batch'[t]
    <3>1. CASE FailSubmitPosts(t)
      <4>1. postJob'[t] = "done"
        BY <3>1 DEF FailSubmitPosts, TypeOK
      <4>2. \A p \in Posts : \/ UNCHANGED <<submitState[p], publishState[p], publishSiteOrderId[p]>>
                             \/ /\ postTaskId[p] = t /\ submitState[p] = "doing"
                                /\ submitState'[p] = "failed" /\ publishState'[p] = "failed"
                                /\ UNCHANGED publishSiteOrderId[p]
        BY <3>1 DEF FailSubmitPosts
      <4>3. QED
        BY <4>1, <4>2
    <3>2. CASE FinishSubmitPost(t)
      <4>1. postJob'[t] = "done"
        BY <3>2 DEF FinishSubmitPost, TypeOK
      <4>2. \A p \in Posts : \/ UNCHANGED <<submitState[p], publishState[p], publishSiteOrderId[p]>>
                             \/ /\ postTaskId[p] = t /\ submitState[p] = "doing"
                                /\ submitState'[p] = "finished" /\ UNCHANGED publishState[p]
        BY <3>2 DEF FinishSubmitPost
      <4>3. QED
        BY <4>1, <4>2
    <3>3. ASSUME NEW p \in Posts, ReportErrored(t, p)
          PROVE  /\ \A q \in Posts : \/ UNCHANGED <<submitState[q], publishState[q], publishSiteOrderId[q]>>
                                     \/ /\ postTaskId[q] = t /\ submitState[q] = "doing"
                                        /\ submitState'[q] = "failed" /\ publishState'[q] = "failed"
                                        /\ UNCHANGED publishSiteOrderId[q]
                 /\ \A q \in Posts : submitState'[q] # submitState[q] => q \notin batch'[t]
      <4>1. postTaskId[p] = t /\ submitState[p] = "doing"
        BY <3>3 DEF ReportErrored, LifecycleInv, BatchesInv, ActiveBatch
      <4>2. QED
        BY <3>3, <4>1 DEF ReportErrored, TypeOK
    <3>4. QED
      BY <1>6, <3>1, <3>2, <3>3
  <2>2. /\ \A u \in PostTaskIds : batch'[u] \subseteq batch[u] /\ (u # t => batch'[u] = batch[u])
        /\ UNCHANGED postTaskState
    BY <1>6 DEF FailSubmitPosts, FinishSubmitPost, ReportErrored, TypeOK
  <2>3. RowsInv'
    BY <1>1, <2>1 DEF LifecycleInv, RowsInv, LinkedIsSubmitted, StagesAgree, PublishedByTask, TypeOK
  <2>4. postJob[t] # "none"
    BY <1>6 DEF FailSubmitPosts, FinishSubmitPost, ReportErrored, CarryInv, PushedByJob
  <2>5. \A d \in Dispatchers : PreparesPosts(d) => disp[d].postTask # t
    BY <2>4 DEF CarryInv, TasksApart
  <2>6. NoTaskYet'
    BY <1>1, <2>2 DEF LifecycleInv, BatchesInv, NoTaskYet
  <2>7. PreparedPending'
    <3>1. SUFFICES ASSUME NEW d \in Dispatchers, PreparesPosts(d)
                   PROVE  /\ disp[d].pc = "batch" => \A p \in Posts : postTaskId'[p] # disp[d].postTask
                          /\ disp[d].pc \in {"collect", "doingPostTask", "doingSubmit"} =>
                               \A p \in Posts : postTaskId'[p] = disp[d].postTask => submitState'[p] = "pending"
                          /\ disp[d].pc \in {"doingPostTask", "doingSubmit"} =>
                               \A p \in Posts : p \in batch'[disp[d].postTask] => postTaskId'[p] = disp[d].postTask
                          /\ disp[d].pc = "postConfig" =>
                               \A p \in Posts : p \in batch'[disp[d].postTask] =>
                                   postTaskId'[p] = disp[d].postTask /\ submitState'[p] = "doing"
      BY <1>1 DEF PreparedPending, PreparesPosts
    <3>2. disp[d].postTask # t /\ disp[d].postTask \in PostTaskIds
      BY <2>5, <3>1 DEF PostInv, DispatcherHasPostTask, PreparesPosts
    <3>3. batch'[disp[d].postTask] = batch[disp[d].postTask]
      BY <2>2, <3>2
    <3>4. \A p \in Posts : postTaskId[p] = disp[d].postTask => submitState'[p] = submitState[p]
      BY <2>1, <3>2
    <3>5. QED
      BY <1>1, <3>1, <3>3, <3>4 DEF LifecycleInv, BatchesInv, PreparedPending
  <2>8. ActiveBatch'
    <3>1. SUFFICES ASSUME NEW u \in PostTaskIds, postJob'[u] = "active", NEW p \in batch'[u]
                   PROVE  postTaskId'[p] = u /\ submitState'[p] = "doing"
      BY DEF ActiveBatch
    <3>2. p \in Posts /\ postTaskId[p] = u /\ submitState[p] = "doing"
      BY <1>4, <2>2, <3>1 DEF LifecycleInv, BatchesInv, ActiveBatch, TypeOK
    <3>3. submitState'[p] = submitState[p]
      BY <2>1, <3>1, <3>2
    <3>4. QED
      BY <1>1, <3>2, <3>3
  <2>9. StageStep
    <3>1. to \in Lifecycle!Stage
      BY DEF Lifecycle!Stage
    <3>2. ASSUME NEW p \in Posts, ~UNCHANGED <<submitState[p], publishState[p]>>
          PROVE  /\ StageOf(submitState'[p], publishState'[p]) = to
                 /\ <<StageOf(submitState[p], publishState[p]), to>> \in Lifecycle!Edges
      <4>1. submitState[p] = "doing" /\ publishState[p] = "pending"
        BY <2>1, <3>2 DEF LifecycleInv, RowsInv, StagesAgree
      <4>2. QED
        BY <2>1, <3>2, <4>1 DEF StageOf, Lifecycle!Edges
    <3>3. QED
      BY <3>1, <3>2, MovesTo
  <2>10. QED
    BY <1>3, <2>3, <2>6, <2>7, <2>8, <2>9 DEF LifecycleInv, BatchesInv
<1>7. QED
  BY <1>5, <1>6 DEF PostJobStep

\* A publish job's handlers publish or fail the posts that were linked to its task.
LEMMA PublishJobLifecycle ==
    ASSUME TaskInv, LifecycleInv, NEW j \in PublishJobs, PublishJobStep(j)
    PROVE  LifecycleInv' /\ StageStep
<1>1. TypeOK /\ j[1] \in PublishTaskIds /\ j[1] # NoId
  BY DEF TaskInv, PublishJobs, PublishTaskIds, NoId
<1>2. UNCHANGED <<submitState, postTaskId, publishSiteOrderId, publishSiteTaskId, gen, cert, disp, postJob,
                  postTaskState, batch>>
  BY DEF PublishJobStep, PublishJobBuild, PublishJobCompleted, PublishJobFailed, FinishPublishTask,
         UpdateDomain, FinishPublishOrders, FinishPublishPosts, SetPublished, FailPublishTask,
         FailPublishOrders, FailPublishPosts, SetPublishFailed
<1>3. NoEvents' /\ NoUploads'
  BY <1>2 DEF LifecycleInv, NoEvents, NoUploads
<1>4. CASE FinishPublishPosts(j) \/ FailPublishPosts(j)
  <2>1. PICK to \in {"published", "publishFailed"} :
           /\ publishTaskState[j[1]] = IF to = "published" THEN "finished" ELSE "failed"
           /\ \A p \in Posts : publishState'[p] =
                IF publishSiteTaskId[p] = j[1] THEN IF to = "published" THEN "finished" ELSE "failed"
                ELSE publishState[p]
    <3>1. CASE FinishPublishPosts(j)
      <4>1. publishJob[j] = "finishPosts"
        BY <3>1 DEF FinishPublishPosts, AdvancePublish
      <4>2. publishTaskState[j[1]] = "finished"
        BY <4>1 DEF TaskInv, JobHasState
      <4>3. QED
        BY <3>1, <4>2 DEF FinishPublishPosts
    <3>2. CASE FailPublishPosts(j)
      <4>1. publishJob[j] = "failPosts"
        BY <3>2 DEF FailPublishPosts, AdvancePublish
      <4>2. publishTaskState[j[1]] = "failed"
        BY <4>1 DEF TaskInv, JobHasState
      <4>3. QED
        BY <3>2, <4>2 DEF FailPublishPosts
    <3>3. QED
      BY <1>4, <3>1, <3>2
  <2>2. UNCHANGED publishTaskState
    BY <1>4 DEF FinishPublishPosts, FailPublishPosts
  <2>3. \A p \in Posts : publishSiteTaskId[p] = j[1] =>
           /\ submitState[p] = "finished" /\ publishState[p] \in RowState \ {"absent"}
           /\ to = "publishFailed" => publishState[p] # "finished"
    BY <1>1, <2>1 DEF LifecycleInv, RowsInv, LinkedIsSubmitted, StagesAgree, PublishedByTask, TypeOK
  <2>4. RowsInv'
    BY <1>1, <1>2, <2>1, <2>2, <2>3 DEF LifecycleInv, RowsInv, LinkedIsSubmitted, StagesAgree, PublishedByTask
  <2>5. BatchesInv'
    BY <1>2 DEF LifecycleInv, BatchesInv, NoTaskYet, PreparedPending, ActiveBatch
  <2>6. StageStep
    <3>1. to \in Lifecycle!Stage
      BY DEF Lifecycle!Stage
    <3>2. ASSUME NEW p \in Posts, ~UNCHANGED <<submitState[p], publishState[p]>>
          PROVE  /\ StageOf(submitState'[p], publishState'[p]) = to
                 /\ <<StageOf(submitState[p], publishState[p]), to>> \in Lifecycle!Edges
      <4>1. submitState[p] = "finished" /\ submitState'[p] = "finished"
        BY <1>2, <2>1, <2>3, <3>2
      <4>2. publishState'[p] = IF to = "published" THEN "finished" ELSE "failed"
        BY <1>2, <2>1, <3>2
      <4>3. \/ publishState[p] \in {"pending", "doing"}
            \/ publishState[p] = "failed" /\ to = "published"
        BY <1>2, <2>1, <2>3, <3>2, <4>2 DEF RowState
      <4>4. QED
        BY <4>1, <4>2, <4>3 DEF StageOf, Lifecycle!Edges
    <3>3. QED
      BY <3>1, <3>2, MovesTo
  <2>7. QED
    BY <1>3, <2>4, <2>5, <2>6 DEF LifecycleInv
<1>5. CASE ~FinishPublishPosts(j) /\ ~FailPublishPosts(j)
  <2>1. UNCHANGED publishState
    BY <1>5 DEF PublishJobStep, PublishJobBuild, PublishJobCompleted, PublishJobFailed, FinishPublishTask,
         UpdateDomain, FinishPublishOrders, SetPublished, FailPublishTask, FailPublishOrders, SetPublishFailed
  <2>2. UNCHANGED publishTaskState \/ (publishTaskState[j[1]] = "doing" /\
           \A t \in PublishTaskIds \ {j[1]} : publishTaskState'[t] = publishTaskState[t])
    <3>1. CASE FinishPublishTask(j) \/ FailPublishTask(j)
      <4>1. publishJob[j] \in {"finish", "fail"}
        BY <3>1 DEF FinishPublishTask, FailPublishTask, AdvancePublish
      <4>2. publishTaskState[j[1]] = "doing"
        BY <4>1 DEF TaskInv, JobHasState
      <4>3. QED
        BY <1>1, <3>1, <4>2 DEF FinishPublishTask, FailPublishTask, TypeOK
    <3>2. CASE ~FinishPublishTask(j) /\ ~FailPublishTask(j)
      BY <1>5, <3>2 DEF PublishJobStep, PublishJobBuild, PublishJobCompleted, PublishJobFailed,
         UpdateDomain, FinishPublishOrders, SetPublished, FailPublishOrders, SetPublishFailed
    <3>3. QED
      BY <3>1, <3>2
  <2>3. QED
    BY <1>1, <1>2, <1>3, <2>1, <2>2, ElsewhereLifecycle
<1>6. QED
  BY <1>4, <1>5

\* The dispatcher takes the posts of its post task to submitting, and those of
\* its publish task to publishing.
LEMMA DispatchLifecycle ==
    ASSUME SingleDispatcher, PostInv, CarryInv, TaskInv, LifecycleInv, NEW d \in Dispatchers,
           DispatchStep(d) \/ RequestDispatch(d)
    PROVE  LifecycleInv' /\ StageStep
<1>1. TypeOK /\ \A e \in Dispatchers : e = d
  BY DEF TaskInv, SingleDispatcher
<1>2. NoEvents' /\ NoUploads'
  BY DEF LifecycleInv, NoEvents, NoUploads,
         DispatchStep, RequestDispatch, ReadPublishOrder, ReadPostOrder, CheckPublish, PickPending,
         DoingPublishTask, DoingPublishOrders, DoingPublishPosts, DoingPublishStatus, DispatchPublish,
         CreatePostTask, BatchPosts, CollectPosts, DoingPostTask, DoingSubmitPost, DispatchPosts, DispatchFailed
<1>3. PreparesPosts(d) => /\ disp[d].postTask \in PostTaskIds /\ disp[d].postTask # NoTask
                          /\ postTaskState[disp[d].postTask] # "absent" /\ postJob[disp[d].postTask] = "none"
  BY NamesAssumption DEF PostInv, DispatcherHasPostTask, PreparesPosts, CarryInv, TasksApart
<1>4. CASE \/ ReadPublishOrder(d) \/ ReadPostOrder(d) \/ RequestDispatch(d) \/ CheckPublish(d) \/ PickPending(d)
           \/ DoingPublishOrders(d) \/ DoingPublishStatus(d) \/ DispatchPublish(d) \/ DispatchFailed(d)
  <2>1. UNCHANGED <<submitState, publishState, postTaskId, publishSiteOrderId, publishSiteTaskId, batch,
                    postTaskState, publishTaskState, postJob>>
    BY <1>4 DEF RequestDispatch, ReadPublishOrder, ReadPostOrder, CheckPublish, PickPending,
         DoingPublishOrders, DoingPublishStatus, DispatchPublish, DispatchFailed
  <2>2. disp'[d].pc \notin {"batch", "collect", "doingPostTask", "doingSubmit", "postConfig"}
    BY <1>1, <1>4, Selects, Moves
       DEF RequestDispatch, DoingPublishOrders, DoingPublishStatus, DispatchPublish, DispatchFailed, Idle
  <2>3. QED
    BY <1>1, <1>2, <2>1, <2>2, ElsewhereLifecycle DEF PreparesPosts
<1>5. CASE DoingPublishTask(d)
  <2>1. /\ disp[d].publishTask \in PublishTaskIds
        /\ publishTaskState[disp[d].publishTask] = "pending"
    BY <1>5 DEF DoingPublishTask, TaskInv, DispatcherPrepares, Preparing
  <2>2. \A t \in PublishTaskIds : publishTaskState[t] = "finished" => publishTaskState'[t] = "finished"
    BY <1>1, <1>5, <2>1 DEF DoingPublishTask, TypeOK
  <2>3. disp'[d].pc = "doingOrders"
    BY <1>1, <1>5, Moves DEF DoingPublishTask
  <2>4. ~PreparesPosts(d)'
    BY <2>3 DEF PreparesPosts
  <2>5. UNCHANGED <<submitState, publishState, postTaskId, publishSiteOrderId, publishSiteTaskId, batch,
                    postTaskState, postJob>>
    BY <1>5 DEF DoingPublishTask
  <2>6. QED
    BY <1>1, <1>2, <2>2, <2>4, <2>5, ElsewhereLifecycle
<1>6. CASE DoingPublishPosts(d)
  <2>1. /\ disp[d].publishTask \in PublishTaskIds /\ disp[d].publishTask # NoId
        /\ publishTaskState[disp[d].publishTask] = "doing"
    <3>1. disp[d].pc = "doingPosts"
      BY <1>6 DEF DoingPublishPosts
    <3>2. disp[d].publishTask \in PublishTaskIds /\ publishTaskState[disp[d].publishTask] = "doing"
      BY <3>1 DEF TaskInv, DispatcherPrepares, Preparing
    <3>3. QED
      BY <3>2 DEF PublishTaskIds, NoId
  <2>2. /\ UNCHANGED <<submitState, postTaskId, publishSiteOrderId, publishSiteTaskId, batch,
                       postTaskState, publishTaskState, postJob>>
        /\ \A p \in Posts : publishState'[p] = IF publishSiteTaskId[p] = disp[d].publishTask THEN "doing" ELSE publishState[p]
    BY <1>6 DEF DoingPublishPosts
  <2>3. \A p \in Posts : publishSiteTaskId[p] = disp[d].publishTask =>
           submitState[p] = "finished" /\ publishState[p] \in {"pending", "doing", "failed"}
    BY <1>1, <2>1 DEF LifecycleInv, RowsInv, LinkedIsSubmitted, StagesAgree, PublishedByTask, TypeOK, RowState
  <2>4. RowsInv'
    BY <2>2, <2>3 DEF LifecycleInv, RowsInv, LinkedIsSubmitted, StagesAgree, PublishedByTask
  <2>5. disp'[d].pc = "doingStatus"
    BY <1>1, <1>6, Moves DEF DoingPublishPosts
  <2>6. PreparedPending'
    BY <1>1, <2>5 DEF PreparedPending
  <2>7. BatchesInv'
    BY <2>2, <2>6 DEF LifecycleInv, BatchesInv, NoTaskYet, ActiveBatch
  <2>8. StageStep
    <3>1. "publishing" \in Lifecycle!Stage
      BY DEF Lifecycle!Stage
    <3>2. ASSUME NEW p \in Posts, ~UNCHANGED <<submitState[p], publishState[p]>>
          PROVE  /\ StageOf(submitState'[p], publishState'[p]) = "publishing"
                 /\ <<StageOf(submitState[p], publishState[p]), "publishing">> \in Lifecycle!Edges
      <4>1. /\ submitState[p] = "finished" /\ submitState'[p] = "finished"
            /\ publishState[p] \in {"pending", "failed"} /\ publishState'[p] = "doing"
        BY <2>2, <2>3, <3>2
      <4>2. QED
        BY <4>1 DEF StageOf, Lifecycle!Edges
    <3>3. QED
      BY <3>1, <3>2, MovesTo
  <2>9. QED
    BY <1>2, <2>4, <2>7, <2>8 DEF LifecycleInv
<1>7. CASE CreatePostTask(d)
  <2>1. UNCHANGED <<submitState, publishState, postTaskId, publishSiteOrderId, publishSiteTaskId, batch,
                    publishTaskState, postJob>>
    BY <1>7 DEF CreatePostTask
  <2>2. CASE disp'[d].pc = "idle" /\ UNCHANGED postTaskState
    BY <1>1, <1>2, <2>1, <2>2, ElsewhereLifecycle DEF PreparesPosts
  <2>3. CASE /\ disp'[d].pc = "batch" /\ disp'[d].postTask \in PostTaskIds
             /\ postTaskState[disp'[d].postTask] = "absent"
             /\ postTaskState' = [postTaskState EXCEPT ![disp'[d].postTask] = "pending"]
    <3>1. PreparedPending'
      BY <1>1, <2>1, <2>3, NamesAssumption DEF LifecycleInv, BatchesInv, NoTaskYet, PreparedPending
    <3>2. NoTaskYet' /\ ActiveBatch'
      BY <1>1, <2>1, <2>3 DEF LifecycleInv, BatchesInv, NoTaskYet, ActiveBatch, TypeOK
    <3>3. RowsInv' /\ StageStep
      BY <2>1 DEF LifecycleInv, RowsInv, LinkedIsSubmitted, StagesAgree, PublishedByTask, StageStep, stages
    <3>4. QED
      BY <1>2, <3>1, <3>2, <3>3 DEF LifecycleInv, BatchesInv
  <2>4. QED
    BY <1>1, <1>7, <2>2, <2>3, Creates
<1>8. CASE BatchPosts(d)
  <2>1. /\ disp[d].pc = "batch" /\ disp'[d].pc = "collect" /\ disp'[d].postTask = disp[d].postTask
    BY <1>1, <1>8, Moves, MovesPosts DEF BatchPosts
  <2>2. /\ UNCHANGED <<submitState, publishState, publishSiteOrderId, publishSiteTaskId, batch,
                       postTaskState, publishTaskState, postJob>>
        /\ \A p \in Posts : postTaskId'[p] = IF submitState[p] = "pending" THEN disp[d].postTask ELSE postTaskId[p]
    BY <1>8 DEF BatchPosts
  <2>3. /\ \A p \in Posts : postTaskId[p] # disp[d].postTask
        /\ postTaskState[disp[d].postTask] # "absent"
    BY <1>3, <2>1 DEF LifecycleInv, BatchesInv, PreparedPending, PreparesPosts
  <2>4. PreparedPending'
    BY <1>1, <2>1, <2>2, <2>3 DEF PreparedPending
  <2>5. NoTaskYet'
    BY <2>2, <2>3 DEF LifecycleInv, BatchesInv, NoTaskYet
  <2>6. ActiveBatch'
    BY <1>1, <2>2 DEF LifecycleInv, BatchesInv, ActiveBatch, TypeOK
  <2>7. RowsInv' /\ StageStep
    BY <2>2 DEF LifecycleInv, RowsInv, LinkedIsSubmitted, StagesAgree, PublishedByTask, StageStep, stages
  <2>8. QED
    BY <1>2, <2>4, <2>5, <2>6, <2>7 DEF LifecycleInv, BatchesInv
<1>9. CASE CollectPosts(d) \/ DoingPostTask(d) \/ DispatchPosts(d)
  <2>1. UNCHANGED <<submitState, publishState, postTaskId, publishSiteOrderId, publishSiteTaskId, publishTaskState>>
    BY <1>9 DEF CollectPosts, DoingPostTask, DispatchPosts
  <2>2. RowsInv' /\ StageStep
    BY <2>1 DEF LifecycleInv, RowsInv, LinkedIsSubmitted, StagesAgree, PublishedByTask, StageStep, stages
  <2>3. PICK t \in PostTaskIds : t = disp[d].postTask /\ postTaskState[t] # "absent" /\ postJob[t] = "none"
    BY <1>3, <1>9 DEF PreparesPosts, CollectPosts, DoingPostTask, DispatchPosts
  <2>4. NoTaskYet'
    BY <1>1, <1>9, <2>1, <2>3 DEF LifecycleInv, BatchesInv, NoTaskYet, CollectPosts, DoingPostTask, DispatchPosts, TypeOK
  <2>5. CASE CollectPosts(d) \/ DoingPostTask(d)
    <3>1. /\ disp'[d].postTask = t /\ UNCHANGED postJob
          /\ \/ disp[d].pc = "collect" /\ disp'[d].pc = "doingPostTask"
             \/ disp[d].pc = "doingPostTask" /\ disp'[d].pc = "doingSubmit"
      BY <1>1, <2>3, <2>5, Moves, MovesPosts DEF CollectPosts, DoingPostTask
    <3>2. \A u \in PostTaskIds \ {t} : batch'[u] = batch[u]
      BY <1>1, <2>3, <2>5 DEF CollectPosts, DoingPostTask, TypeOK
    <3>3. \A p \in Posts : p \in batch'[t] => postTaskId[p] = t
      <4>1. CASE CollectPosts(d)
        BY <1>1, <2>3, <4>1 DEF CollectPosts, TypeOK
      <4>2. CASE DoingPostTask(d)
        BY <2>3, <4>2 DEF DoingPostTask, LifecycleInv, BatchesInv, PreparedPending
      <4>3. QED
        BY <2>5, <4>1, <4>2
    <3>4. PreparedPending'
      BY <1>1, <2>1, <2>3, <3>1, <3>3 DEF LifecycleInv, BatchesInv, PreparedPending
    <3>5. ActiveBatch'
      BY <2>1, <2>3, <3>1, <3>2 DEF LifecycleInv, BatchesInv, ActiveBatch
    <3>6. QED
      BY <1>2, <2>2, <2>4, <3>4, <3>5 DEF LifecycleInv, BatchesInv
  <2>6. CASE DispatchPosts(d)
    <3>1. disp[d].pc = "postConfig" /\ disp'[d].pc \in {"idle", "awaitPost"} /\ UNCHANGED batch
      BY <1>1, <2>6, Moves DEF DispatchPosts
    <3>2. \A u \in PostTaskIds \ {t} : postJob'[u] = postJob[u]
      BY <1>1, <2>3, <2>6 DEF DispatchPosts, TypeOK
    <3>3. \A p \in Posts : p \in batch[t] => postTaskId[p] = t /\ submitState[p] = "doing"
      BY <2>3, <3>1 DEF LifecycleInv, BatchesInv, PreparedPending
    <3>4. batch[t] \subseteq Posts
      BY <1>1 DEF TypeOK
    <3>5. PreparedPending'
      BY <1>1, <3>1 DEF PreparedPending
    <3>6. ActiveBatch'
      BY <2>1, <3>1, <3>2, <3>3, <3>4 DEF LifecycleInv, BatchesInv, ActiveBatch
    <3>7. QED
      BY <1>2, <2>2, <2>4, <3>5, <3>6 DEF LifecycleInv, BatchesInv
  <2>7. QED
    BY <1>9, <2>5, <2>6
<1>10. CASE DoingSubmitPost(d)
  <2>1. /\ disp[d].pc = "doingSubmit" /\ disp'[d].pc = "postConfig" /\ disp'[d].postTask = disp[d].postTask
    BY <1>1, <1>10, Moves, MovesPosts DEF DoingSubmitPost
  <2>2. /\ UNCHANGED <<publishState, postTaskId, publishSiteOrderId, publishSiteTaskId, batch,
                       postTaskState, publishTaskState, postJob>>
        /\ \A p \in Posts : submitState'[p] = IF postTaskId[p] = disp[d].postTask THEN "doing" ELSE submitState[p]
    BY <1>10 DEF DoingSubmitPost
  <2>3. \A p \in Posts : /\ postTaskId[p] = disp[d].postTask => submitState[p] = "pending" /\ publishState[p] = "pending"
                         /\ p \in batch[disp[d].postTask] => postTaskId[p] = disp[d].postTask
    BY <2>1 DEF LifecycleInv, BatchesInv, PreparedPending, RowsInv, StagesAgree
  <2>4. RowsInv'
    BY <2>2, <2>3 DEF LifecycleInv, RowsInv, LinkedIsSubmitted, StagesAgree, PublishedByTask
  <2>5. PreparedPending'
    BY <1>1, <2>1, <2>2, <2>3 DEF PreparedPending
  <2>6. NoTaskYet' /\ ActiveBatch'
    BY <1>1, <2>2 DEF LifecycleInv, BatchesInv, NoTaskYet, ActiveBatch, TypeOK
  <2>7. StageStep
    <3>1. "submitting" \in Lifecycle!Stage
      BY DEF Lifecycle!Stage
    <3>2. ASSUME NEW p \in Posts, ~UNCHANGED <<submitState[p], publishState[p]>>
          PROVE  /\ StageOf(submitState'[p], publishState'[p]) = "submitting"
                 /\ <<StageOf(submitState[p], publishState[p]), "submitting">> \in Lifecycle!Edges
      <4>1. /\ submitState[p] = "pending" /\ submitState'[p] = "doing"
            /\ publishState[p] = "pending" /\ publishState'[p] = "pending"
        BY <2>2, <2>3, <3>2
      <4>2. QED
        BY <4>1 DEF StageOf, Lifecycle!Edges
    <3>3. QED
      BY <3>1, <3>2, MovesTo
  <2>8. QED
    BY <1>2, <2>4, <2>5, <2>6, <2>7 DEF LifecycleInv, BatchesInv
<1>11. QED
  BY <1>4, <1>5, <1>6, <1>7, <1>8, <1>9, <1>10 DEF DispatchStep

\* Every step keeps the invariant, and is a step of the lifecycle or leaves the stages alone.
LEMMA NextLifecycle ==
    ASSUME SingleDispatcher, NothingRetried, CertificateTypes = {},
           PostInv, CarryInv, TaskInv, LifecycleInv, [Next]_vars
    PROVE  LifecycleInv' /\ StageStep
<1>1. TypeOK
  BY DEF PostInv
<1>2. CASE UNCHANGED vars
  <2>1. NoEvents' /\ NoUploads'
    BY <1>2 DEF vars, LifecycleInv, NoEvents, NoUploads
  <2>2. UNCHANGED <<submitState, publishState, postTaskId, publishSiteOrderId, publishSiteTaskId, batch,
                    postTaskState, publishTaskState, postJob, disp>>
    BY <1>2 DEF vars
  <2>3. QED
    BY <1>1, <2>1, <2>2, ElsewhereLifecycle
<1>3. CASE Next
  <2>1. CASE \/ \E p \in Posts : SavePost(p) \/ RetryRequest(p) \/ SweepRead(p)
             \/ SweepFailed
             \/ \E r \in Retriers : RetrySave(r) \/ UpdatePublishOrderId(r)
             \/ \E c \in Certifiers : CertificateStep(c)
             \/ \E l \in Linkers : LinkStep(l)
             \/ \E c \in Callers : GenStep(c)
             \/ RequestPublish
    BY <1>1, <2>1, NeverRetried, OthersLifecycle
  <2>2. CASE \E d \in Dispatchers : DispatchStep(d) \/ RequestDispatch(d)
    BY <2>2, DispatchLifecycle
  <2>3. CASE \E t \in PostTaskIds : PostJobStep(t) \/ \E p \in Posts : ReportErrored(t, p)
    BY <1>1, <2>3, PostJobLifecycle
  <2>4. CASE \E j \in PublishJobs : PublishJobStep(j)
    BY <2>4, PublishJobLifecycle
  <2>5. CASE Restart
    <3>1. UNCHANGED <<submitState, publishState, postTaskId, publishSiteOrderId, publishSiteTaskId, batch,
                      postTaskState, publishTaskState>>
      BY <2>5 DEF Restart
    <3>2. NoEvents' /\ NoUploads'
      BY <2>5 DEF Restart, NoEvents, NoUploads, NoGen, NoCert, Callers
    <3>3. /\ \A t \in PostTaskIds : postJob'[t] = "active" => postJob[t] = "active"
          /\ \A d \in Dispatchers : ~PreparesPosts(d)'
      BY <2>5 DEF Restart, PreparesPosts, Idle
    <3>4. QED
      BY <1>1, <3>1, <3>2, <3>3, ElsewhereLifecycle
  <2>6. QED
    BY <1>3, <2>1, <2>2, <2>3, <2>4, <2>5 DEF Next
<1>4. QED
  BY <1>2, <1>3

\* Initially every post is unsaved.
LEMMA InitLifecycle == Init => LifecycleInv /\ Lifecycle!Init
<1>1. Init => /\ gen = [c \in Callers |-> IF c = OrderRequest /\ JustDeployed THEN [NoGen EXCEPT !.pc = "find"] ELSE NoGen]
              /\ disp = [d \in Dispatchers |-> Idle]
              /\ cert = [c \in Certifiers |-> NoCert]
              /\ postJob = [t \in PostTaskIds |-> "none"]
              /\ submitState = [p \in Posts |-> "absent"]
              /\ publishState = [p \in Posts |-> "absent"]
              /\ postTaskId = [p \in Posts |-> NoTask]
              /\ publishSiteOrderId = [p \in Posts |-> NoId]
              /\ publishSiteTaskId = [p \in Posts |-> NoId]
  BY Zenon DEF Init
<1>2. Init => NoEvents /\ NoUploads
  BY <1>1, NamesAssumption DEF Callers, NoGen, NoCert, NoEvents, NoUploads
<1>3. Init => RowsInv
  BY <1>1 DEF RowsInv, LinkedIsSubmitted, StagesAgree, PublishedByTask
<1>4. Init => \A d \in Dispatchers : disp[d].pc = "idle"
  BY <1>1 DEF Idle
<1>5. Init => BatchesInv
  BY <1>1, <1>4 DEF BatchesInv, NoTaskYet, PreparedPending, ActiveBatch
<1>6. Init => \A p \in Posts : StageOf(submitState[p], publishState[p]) = "unsaved"
  BY <1>1 DEF StageOf
<1>7. Init => Lifecycle!Init
  BY <1>6 DEF Lifecycle!Init
<1>8. QED
  BY <1>2, <1>3, <1>5, <1>7 DEF LifecycleInv

\* The pipeline implements the lifecycle, for any number of posts, tasks, requests of the
\* user and of the administrator, reports of workers, failed jobs and restarts: as long as
\* one dispatcher runs at a time, no post is retried and none asks for a certificate. A
\* retry saves a row it read earlier, and an upload that fails takes the post out of
\* whatever stage it is in.
THEOREM PostsFollowLifecycle ==
    ASSUME SingleDispatcher, NoRetries, CertificateTypes = {}
    PROVE  Spec => ImplementsLifecycle
<1> DEFINE Inv == NothingRetried /\ PostInv /\ CarryInv /\ TaskInv /\ LifecycleInv
<1>1. Init => Inv /\ Lifecycle!Init
  BY InitUnretried, InitPosts, InitTasks, InitLifecycle
<1>2. Inv /\ [Next]_vars => Inv' /\ StageStep
  <2>1. SUFFICES ASSUME Inv, [Next]_vars PROVE Inv' /\ StageStep
    OBVIOUS
  <2>2. TypeOK
    BY <2>1 DEF PostInv
  <2>3. NothingRetried' /\ SavesFit
    BY <2>1, <2>2, StaysUnretried, NeverRetried
  <2>4. PostInv' /\ CarryInv'
    BY <2>1, <2>3, NextCarried
  <2>5. QED
    BY <2>1, <2>3, <2>4, NextTasks, NextLifecycle
<1>3. StageStep => [Lifecycle!Next]_stages
  BY DEF StageStep
<1>4. QED
  BY <1>1, <1>2, <1>3, PTL DEF Spec, ImplementsLifecycle, Lifecycle!Spec, stages
=============================================================================
