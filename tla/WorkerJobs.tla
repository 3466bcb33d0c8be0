----------------------------- MODULE WorkerJobs -----------------------------
(***************************************************************************)
(* The jobs of the worker queue and what the backend does about them:      *)
(* reports while a job runs, finishTask and failTask when the queue says   *)
(* that it completed or failed, one action per database statement, and the *)
(* restart of the backend. The worker itself is outside of the repository: *)
(* a post job pushes the posts it was given to the user's repository, a    *)
(* publish job builds the site from that repository.                       *)
(***************************************************************************)
EXTENDS PublishLinking

jobsRest == <<postTaskId, publishSiteOrderId, publishSiteTaskId, postCreatedAt, certRows, cert,
              orderTaskId, orderCreatedAt, clock, disp, retry, sweeps, retries, publishRequests, requests>>

-----------------------------------------------------------------------------
(* Post jobs. *)

\* Mutation: the report is logged and nothing else.
ReportErrored_OnlyLogged(t, p) ==
    /\ reports < MaxReports
    /\ postJob[t] = "active"
    /\ p \in batch[t]
    /\ reports' = reports + 1
    /\ batch' = [batch EXCEPT ![t] = @ \ {p}]
    /\ UNCHANGED <<submitState, publishState, postTaskState, orderState, publishTaskState,
                   siteStatus, link, gen, postJob, publishJob, git, faults, crashes, jobsRest>>

\* report(ERRORED) and failSubmitPost: the worker could not submit post p and
\* goes on with the others. The post's row is updated whatever its state.
ReportErrored(t, p) ==
    /\ reports < MaxReports
    /\ postJob[t] = "active"
    /\ p \in batch[t]
    /\ reports' = reports + 1
    /\ batch' = [batch EXCEPT ![t] = @ \ {p}]
    /\ submitState' = [submitState EXCEPT ![p] = "failed"]
    /\ publishState' = [publishState EXCEPT ![p] = "failed"]
    /\ UNCHANGED <<postTaskState, orderState, publishTaskState, siteStatus, link, gen,
                   postJob, publishJob, git, faults, crashes, jobsRest>>

\* The worker has pushed what it still carries; onComplete calls finishTask,
\* which starts with generatePublishSiteOrder.
PostJobCompleted(t) ==
    /\ postJob[t] = "active"
    /\ repo' = repo \union batch[t]
    /\ postJob' = [postJob EXCEPT ![t] = "completed"]
    /\ gen' = [gen EXCEPT ![t] = GenStart]
    /\ UNCHANGED <<submitState, publishState, postTaskRows, orderState, publishTaskState,
                   siteStatus, link, publishJob, built, live, reports, faults, crashes, jobsRest>>

\* Mutation: onFailed calls finishTask.
PostJobFailed_Finishes(t) ==
    /\ postJob[t] = "active"
    /\ faults < MaxFaults
    /\ faults' = faults + 1
    /\ postJob' = [postJob EXCEPT ![t] = "completed"]
    /\ gen' = [gen EXCEPT ![t] = GenStart]
    /\ UNCHANGED <<submitState, publishState, postTaskRows, orderState, publishTaskState,
                   siteStatus, link, publishJob, git, reports, crashes, jobsRest>>

\* The job fails, whatever the worker has pushed by then: its container may end
\* with an error, or end well and not be removed. onFailed calls failTask.
PostJobFailed(t) ==
    /\ postJob[t] = "active"
    /\ faults < MaxFaults
    /\ faults' = faults + 1
    /\ \E pushed \in SUBSET batch[t] : repo' = repo \union pushed
    /\ postJob' = [postJob EXCEPT ![t] = "fail"]
    /\ UNCHANGED <<submitState, publishState, postTaskRows, orderState, publishTaskState,
                   siteStatus, link, gen, publishJob, built, live, reports, crashes, jobsRest>>

\* failPostTask: the task, then the posts of the task that are still doing.
FailPostTask(t) ==
    /\ postJob[t] = "fail"
    /\ postTaskState' = [postTaskState EXCEPT ![t] = "failed"]
    /\ postJob' = [postJob EXCEPT ![t] = "failPosts"]
    /\ UNCHANGED <<submitState, publishState, batch, orderState, publishTaskState,
                   siteStatus, link, gen, publishJob, git, reports, faults, crashes, jobsRest>>

FailSubmitPosts(t) ==
    /\ postJob[t] = "failPosts"
    /\ LET failing == {p \in Posts : postTaskId[p] = t /\ submitState[p] = "doing"} IN
        /\ submitState' = [p \in Posts |-> IF p \in failing THEN "failed" ELSE submitState[p]]
        /\ publishState' = [p \in Posts |-> IF p \in failing THEN "failed" ELSE publishState[p]]
    /\ postJob' = [postJob EXCEPT ![t] = "done"]
    /\ UNCHANGED <<postTaskRows, orderState, publishTaskState,
                   siteStatus, link, gen, publishJob, git, reports, faults, crashes, jobsRest>>

PostJobStep(t) ==
    \/ PostJobCompleted(t) \/ PostJobFailed(t) \/ FailPostTask(t) \/ FailSubmitPosts(t)
    \/ FinishPostTask(t) \/ FinishSubmitPost(t)

-----------------------------------------------------------------------------
(* Publish jobs; j is the pair of the publish task and its dispatcher. *)

AdvancePublish(j, from, to) ==
    /\ publishJob[j] = from
    /\ publishJob' = [publishJob EXCEPT ![j] = to]

\* The worker clones the repository it builds from ...
PublishJobBuild(j) ==
    /\ SlowLinks \/ \A l \in Linkers : link[l].pc = "none"
    /\ AdvancePublish(j, "active", "building")
    /\ built' = [built EXCEPT ![j] = repo]
    /\ UNCHANGED <<submitState, publishState, postTaskRows, orderState, publishTaskState,
                   siteStatus, link, gen, postJob, repo, live, reports, faults, crashes, jobsRest>>

\* ... and replaces the published site by what it has built.
PublishJobCompleted(j) ==
    /\ AdvancePublish(j, "building", "finish")
    /\ live' = built[j]
    /\ UNCHANGED <<submitState, publishState, postTaskRows, orderState, publishTaskState,
                   siteStatus, link, gen, postJob, repo, built, reports, faults, crashes, jobsRest>>

\* The job fails, before or after the site has been replaced.
PublishJobFailed(j) ==
    /\ AdvancePublish(j, "building", "fail")
    /\ faults < MaxFaults
    /\ faults' = faults + 1
    /\ live' \in {live, built[j]}
    /\ UNCHANGED <<submitState, publishState, postTaskRows, orderState, publishTaskState,
                   siteStatus, link, gen, postJob, repo, built, reports, crashes, jobsRest>>

\* finishPublishSiteTask: the task is finished first,
FinishPublishTask(j) ==
    /\ AdvancePublish(j, "finish", "domain")
    /\ publishTaskState' = [publishTaskState EXCEPT ![j[1]] = "finished"]
    /\ UNCHANGED <<submitState, publishState, postTaskRows, orderState,
                   siteStatus, link, gen, postJob, git, reports, faults, crashes, jobsRest>>

\* updateDomain; when it throws, the handler ends here and nobody resumes it,
UpdateDomain(j) ==
    /\ \/ AdvancePublish(j, "domain", "finishOrders") /\ UNCHANGED faults
       \/ AdvancePublish(j, "domain", "stuck") /\ faults < MaxFaults /\ faults' = faults + 1
    /\ UNCHANGED <<submitState, publishState, postTaskRows, orderState, publishTaskState,
                   siteStatus, link, gen, postJob, git, reports, crashes, jobsRest>>

\* Mutation: finishPublishSite looks for pending orders.
FinishPublishOrders_Pending(j) ==
    /\ AdvancePublish(j, "finishOrders", "finishPosts")
    /\ orderState' = [o \in OrderIds |->
         IF orderTaskId[o] = j[1] /\ orderState[o] = "pending" THEN "finished" ELSE orderState[o]]
    /\ UNCHANGED <<submitState, publishState, postTaskRows, publishTaskState,
                   siteStatus, link, gen, postJob, git, reports, faults, crashes, jobsRest>>

\* the task's orders and posts follow, whatever their states,
FinishPublishOrders(j) ==
    /\ AdvancePublish(j, "finishOrders", "finishPosts")
    /\ orderState' = [o \in OrderIds |-> IF orderTaskId[o] = j[1] THEN "finished" ELSE orderState[o]]
    /\ UNCHANGED <<submitState, publishState, postTaskRows, publishTaskState,
                   siteStatus, link, gen, postJob, git, reports, faults, crashes, jobsRest>>

\* Mutation: finishPublishPost takes every pending post of the user.
FinishPublishPosts_AllPending(j) ==
    /\ AdvancePublish(j, "finishPosts", "setPublished")
    /\ publishState' = [p \in Posts |->
         IF publishState[p] \in {"doing", "pending"} THEN "finished" ELSE publishState[p]]
    /\ UNCHANGED <<submitState, postTaskRows, orderState, publishTaskState,
                   siteStatus, link, gen, postJob, git, reports, faults, crashes, jobsRest>>

FinishPublishPosts(j) ==
    /\ AdvancePublish(j, "finishPosts", "setPublished")
    /\ publishState' = [p \in Posts |->
         IF publishSiteTaskId[p] = j[1] THEN "finished" ELSE publishState[p]]
    /\ UNCHANGED <<submitState, postTaskRows, orderState, publishTaskState,
                   siteStatus, link, gen, postJob, git, reports, faults, crashes, jobsRest>>

\* Mutation: setPublished writes lastPublishedAt only.
SetPublished_NoStatus(j) ==
    /\ AdvancePublish(j, "setPublished", "done")
    /\ UNCHANGED <<submitState, publishState, postTaskRows, orderState, publishTaskState,
                   siteStatus, link, gen, postJob, git, reports, faults, crashes, jobsRest>>

\* Mutation: setPublished writes a state of the wrong enumeration.
SetPublished_TaskState(j) ==
    /\ AdvancePublish(j, "setPublished", "done")
    /\ siteStatus' = "finished"
    /\ UNCHANGED <<submitState, publishState, postTaskRows, orderState, publishTaskState,
                   link, gen, postJob, git, reports, faults, crashes, jobsRest>>

\* and the site is PUBLISHED.
SetPublished(j) ==
    /\ AdvancePublish(j, "setPublished", "done")
    /\ siteStatus' = "PUBLISHED"
    /\ UNCHANGED <<submitState, publishState, postTaskRows, orderState, publishTaskState,
                   link, gen, postJob, git, reports, faults, crashes, jobsRest>>

\* failPublishSiteTask, in the same order.
FailPublishTask(j) ==
    /\ AdvancePublish(j, "fail", "failOrders")
    /\ publishTaskState' = [publishTaskState EXCEPT ![j[1]] = "failed"]
    /\ UNCHANGED <<submitState, publishState, postTaskRows, orderState,
                   siteStatus, link, gen, postJob, git, reports, faults, crashes, jobsRest>>

FailPublishOrders(j) ==
    /\ AdvancePublish(j, "failOrders", "failPosts")
    /\ orderState' = [o \in OrderIds |-> IF orderTaskId[o] = j[1] THEN "failed" ELSE orderState[o]]
    /\ UNCHANGED <<submitState, publishState, postTaskRows, publishTaskState,
                   siteStatus, link, gen, postJob, git, reports, faults, crashes, jobsRest>>

\* Mutation: failPublishPost writes the state of finishPublishPost.
FailPublishPosts_Finished(j) ==
    /\ AdvancePublish(j, "failPosts", "failStatus")
    /\ publishState' = [p \in Posts |->
         IF publishSiteTaskId[p] = j[1] THEN "finished" ELSE publishState[p]]
    /\ UNCHANGED <<submitState, postTaskRows, orderState, publishTaskState,
                   siteStatus, link, gen, postJob, git, reports, faults, crashes, jobsRest>>

FailPublishPosts(j) ==
    /\ AdvancePublish(j, "failPosts", "failStatus")
    /\ publishState' = [p \in Posts |->
         IF publishSiteTaskId[p] = j[1] THEN "failed" ELSE publishState[p]]
    /\ UNCHANGED <<submitState, postTaskRows, orderState, publishTaskState,
                   siteStatus, link, gen, postJob, git, reports, faults, crashes, jobsRest>>

SetPublishFailed(j) ==
    /\ AdvancePublish(j, "failStatus", "done")
    /\ siteStatus' = "PUBLISH_FAILED"
    /\ UNCHANGED <<submitState, publishState, postTaskRows, orderState, publishTaskState,
                   link, gen, postJob, git, reports, faults, crashes, jobsRest>>

PublishJobStep(j) ==
    \/ PublishJobBuild(j) \/ PublishJobCompleted(j) \/ PublishJobFailed(j)
    \/ FinishPublishTask(j) \/ UpdateDomain(j) \/ FinishPublishOrders(j)
    \/ FinishPublishPosts(j) \/ SetPublished(j)
    \/ FailPublishTask(j) \/ FailPublishOrders(j) \/ FailPublishPosts(j) \/ SetPublishFailed(j)

-----------------------------------------------------------------------------
(* The backend restarts: the rows and the queue's jobs are kept, every      *)
(* handler in flight is gone. A task that was being dispatched or whose     *)
(* handler was running is marked "lost": no process works for it any more.  *)

DispatchingPost(t) ==
    \E d \in Dispatchers : disp[d].postTask = t /\ disp[d].pc = "postConfig"
DispatchingPublish(j) ==
    /\ disp[j[2]].publishTask = j[1]
    /\ disp[j[2]].pc \in {"doingPosts", "doingStatus", "publishConfig"}

Restart ==
    /\ crashes < MaxCrashes
    /\ crashes' = crashes + 1
    /\ disp' = [d \in Dispatchers |-> Idle]
    /\ link' = [l \in Linkers |-> NoLink]
    /\ gen' = [c \in Callers |-> NoGen]
    /\ retry' = [r \in Retriers |-> NoRetry]
    /\ sweeps' = 0
    /\ cert' = [c \in Certifiers |-> NoCert]
    /\ postJob' = [t \in PostTaskIds |->
         IF postJob[t] \in {"completed", "fail", "failPosts"} \/ DispatchingPost(t)
         THEN "lost" ELSE postJob[t]]
    /\ publishJob' = [j \in PublishJobs |->
         IF publishJob[j] \notin {"none", "active", "building", "done", "stuck"} \/ DispatchingPublish(j)
         THEN "lost" ELSE publishJob[j]]
    /\ UNCHANGED <<postRows, certRows, postTaskRows, orderRows, publishTaskState, siteStatus, clock,
                   git, reports, retries, publishRequests, requests, faults>>
=============================================================================
