----------------------- MODULE WorkerTasksDispatcher -----------------------
(***************************************************************************)
(* WorkerTasksDispatcherService: dispatchNextTask picks the oldest pending *)
(* order and turns it into a job of the worker queue, one action per       *)
(* database statement; an exception ends the run of the dispatcher and     *)
(* leaves what it has written so far. The deploy order of the site is      *)
(* finished, so the deploy branch never applies here.                      *)
(***************************************************************************)
EXTENDS PublishLinking

dispRest == <<orderCreatedAt, postCreatedAt, certRows, cert, clock, gen, retry, sweeps, git,
              reports, retries, publishRequests, crashes>>

-----------------------------------------------------------------------------
(* dispatchNextTask and dispatchOldestOrder. *)

\* The WIP limit and getFirstPendingPublishSiteOrder.
ReadPublishOrder(d) ==
    /\ disp[d].pc = "idle"
    /\ QueuedJobs < WipLimit
    /\ disp' = [disp EXCEPT ![d] = [Idle EXCEPT !.pc = "readPost", !.order =
                  IF DispatchableOrders = {} THEN NoId ELSE Oldest(DispatchableOrders, orderCreatedAt)]]
    /\ UNCHANGED <<postRows, postTaskRows, orderRows, publishTaskState, siteStatus,
                   link, postJob, publishJob, requests, faults, dispRest>>

\* The publish order is dispatched if no post order in posts is older.
OrderFirst(o, posts) ==
    /\ o # NoId
    /\ \A p \in posts : orderCreatedAt[o] <= postCreatedAt[p]

\* getFirstPendingPostOrder, and the choice of the older of the two orders.
ReadPostOrder(d) ==
    /\ disp[d].pc = "readPost"
    /\ disp' = [disp EXCEPT ![d] =
         CASE OrderFirst(@.order, DispatchablePosts) -> [@ EXCEPT !.pc = "publish"]
           [] ~OrderFirst(@.order, DispatchablePosts) /\ DispatchablePosts # {} ->
                [@ EXCEPT !.pc = "posts", !.order = NoId]
           [] OTHER -> Idle]
    /\ UNCHANGED <<postRows, postTaskRows, orderRows, publishTaskState, siteStatus,
                   link, postJob, publishJob, requests, faults, dispRest>>

\* POST publish-site and create-posts: hasTaskInProgress, then the same dispatch.
RequestDispatch(d) ==
    /\ requests < MaxRequests
    /\ disp[d].pc = "idle"
    /\ ~HasTaskInProgress
    /\ requests' = requests + 1
    /\ \E step \in {"publish", "posts"} : disp' = [disp EXCEPT ![d].pc = step]
    /\ UNCHANGED <<postRows, postTaskRows, orderRows, publishTaskState, siteStatus,
                   link, postJob, publishJob, faults, dispRest>>

-----------------------------------------------------------------------------
(* dispatchPublishSiteTask. *)

\* A site that is PUBLISHING and was updated in the last ten minutes ends the
\* run: getDoingPublishSiteTask returns an object whether it finds a task or
\* not. Otherwise linkOrGeneratePublishSiteTask starts.
CheckPublish(d) ==
    /\ disp[d].pc = "publish"
    /\ \/ /\ siteStatus = "PUBLISHING"
          /\ disp' = [disp EXCEPT ![d] = Idle]
          /\ UNCHANGED link
       \/ \* not PUBLISHING, or for more than ten minutes without a response
          /\ disp' = [disp EXCEPT ![d].pc = "linking"]
          /\ link' = [link EXCEPT ![d] = LinkStart]
    /\ UNCHANGED <<postRows, postTaskRows, orderRows, publishTaskState, siteStatus,
                   postJob, publishJob, requests, faults, dispRest>>

\* getPendingPublishSiteTask; without one, reading its fields throws.
PickPending(d) ==
    /\ disp[d].pc = "linking"
    /\ link[d].pc = "none"
    /\ disp' = [disp EXCEPT ![d] =
         IF PendingPublishTasks = {} THEN Idle
         ELSE [@ EXCEPT !.pc = "doingTask", !.publishTask = Newest(PendingPublishTasks)]]
    /\ UNCHANGED <<postRows, postTaskRows, orderRows, publishTaskState, siteStatus,
                   link, postJob, publishJob, requests, faults, dispRest>>

\* doingPublishSiteTask, its four updates.
DoingPublishTask(d) ==
    /\ disp[d].pc = "doingTask"
    /\ publishTaskState' = [publishTaskState EXCEPT ![disp[d].publishTask] = "doing"]
    /\ disp' = [disp EXCEPT ![d].pc = "doingOrders"]
    /\ UNCHANGED <<postRows, postTaskRows, orderRows, siteStatus,
                   link, postJob, publishJob, requests, faults, dispRest>>

DoingPublishOrders(d) ==
    /\ disp[d].pc = "doingOrders"
    /\ orderState' = [o \in OrderIds |->
         IF orderTaskId[o] = disp[d].publishTask THEN "doing" ELSE orderState[o]]
    /\ disp' = [disp EXCEPT ![d].pc = "doingPosts"]
    /\ UNCHANGED <<postRows, postTaskRows, orderTaskId, publishTaskState, siteStatus,
                   link, postJob, publishJob, requests, faults, dispRest>>

\* Mutation: doingPublishPost takes every pending post of the user.
DoingPublishPosts_AllPending(d) ==
    /\ disp[d].pc = "doingPosts"
    /\ publishState' = [p \in Posts |->
         IF publishState[p] = "pending" THEN "doing" ELSE publishState[p]]
    /\ disp' = [disp EXCEPT ![d].pc = "doingStatus"]
    /\ UNCHANGED <<submitState, postTaskId, publishSiteOrderId, publishSiteTaskId, postTaskRows,
                   orderState, orderTaskId, publishTaskState, siteStatus,
                   link, postJob, publishJob, requests, faults, dispRest>>

DoingPublishPosts(d) ==
    /\ disp[d].pc = "doingPosts"
    /\ publishState' = [p \in Posts |->
         IF publishSiteTaskId[p] = disp[d].publishTask THEN "doing" ELSE publishState[p]]
    /\ disp' = [disp EXCEPT ![d].pc = "doingStatus"]
    /\ UNCHANGED <<submitState, postTaskId, publishSiteOrderId, publishSiteTaskId, postTaskRows,
                   orderState, orderTaskId, publishTaskState, siteStatus,
                   link, postJob, publishJob, requests, faults, dispRest>>

DoingPublishStatus(d) ==
    /\ disp[d].pc = "doingStatus"
    /\ siteStatus' = "PUBLISHING"
    /\ disp' = [disp EXCEPT ![d].pc = "publishConfig"]
    /\ UNCHANGED <<postRows, postTaskRows, orderRows, publishTaskState,
                   link, postJob, publishJob, requests, faults, dispRest>>

\* The user and the job's config are fetched, then the job is queued; the config
\* is refused to a site that another handler has taken out of PUBLISHING. If one
\* of these fails, failPublishSiteTask runs before the dispatcher returns.
DispatchPublish(d) ==
    LET job == <<disp[d].publishTask, d>> IN
    /\ disp[d].pc = "publishConfig"
    /\ \/ /\ siteStatus = "PUBLISHING"
          /\ publishJob' = [publishJob EXCEPT ![job] = "active"]
          /\ disp' = [disp EXCEPT ![d] = Idle]
          /\ UNCHANGED faults
       \/ /\ \/ siteStatus # "PUBLISHING" /\ UNCHANGED faults
             \/ faults < MaxFaults /\ faults' = faults + 1
          /\ publishJob' = [publishJob EXCEPT ![job] = "fail"]
          /\ disp' = [disp EXCEPT ![d].pc = "awaitPublish"]
    /\ UNCHANGED <<postRows, postTaskRows, orderRows, publishTaskState, siteStatus,
                   link, postJob, requests, dispRest>>

-----------------------------------------------------------------------------
(* dispatchCreatePostsTask. *)

\* The site's status, and the new post task; a site in PUBLISHING ends the run.
CreatePostTask(d) ==
    /\ disp[d].pc = "posts"
    /\ \/ /\ siteStatus = "PUBLISHING"
          /\ disp' = [disp EXCEPT ![d] = Idle]
          /\ UNCHANGED postTaskState
       \/ /\ siteStatus # "PUBLISHING"
          /\ \E t \in PostTaskIds :
               /\ postTaskState[t] = "absent"
               /\ postTaskState' = [postTaskState EXCEPT ![t] = "pending"]
               /\ disp' = [disp EXCEPT ![d].pc = "batch", ![d].postTask = t]
    /\ UNCHANGED <<postRows, batch, orderRows, publishTaskState, siteStatus,
                   link, postJob, publishJob, requests, faults, dispRest>>

\* batchUpdate: every pending post of the user is given to the task, not only
\* the one the dispatcher selected.
BatchPosts(d) ==
    /\ disp[d].pc = "batch"
    /\ postTaskId' = [p \in Posts |->
         IF submitState[p] = "pending" THEN disp[d].postTask ELSE postTaskId[p]]
    /\ disp' = [disp EXCEPT ![d].pc = "collect"]
    /\ UNCHANGED <<submitState, publishState, publishSiteOrderId, publishSiteTaskId, postTaskRows,
                   orderState, orderTaskId, publishTaskState, siteStatus,
                   link, postJob, publishJob, requests, faults, dispRest>>

\* find: the posts the job will carry.
CollectPosts(d) ==
    LET t == disp[d].postTask IN
    /\ disp[d].pc = "collect"
    /\ batch' = [batch EXCEPT ![t] = {p \in Posts : postTaskId[p] = t}]
    /\ disp' = [disp EXCEPT ![d].pc = "doingPostTask"]
    /\ UNCHANGED <<postRows, postTaskState, orderRows, publishTaskState, siteStatus,
                   link, postJob, publishJob, requests, faults, dispRest>>

\* doingPostTask: the task's row, then doingSubmitPost on every post of the task.
DoingPostTask(d) ==
    /\ disp[d].pc = "doingPostTask"
    /\ postTaskState' = [postTaskState EXCEPT ![disp[d].postTask] = "doing"]
    /\ disp' = [disp EXCEPT ![d].pc = "doingSubmit"]
    /\ UNCHANGED <<postRows, batch, orderRows, publishTaskState, siteStatus,
                   link, postJob, publishJob, requests, faults, dispRest>>

DoingSubmitPost(d) ==
    /\ disp[d].pc = "doingSubmit"
    /\ submitState' = [p \in Posts |->
         IF postTaskId[p] = disp[d].postTask THEN "doing" ELSE submitState[p]]
    /\ disp' = [disp EXCEPT ![d].pc = "postConfig"]
    /\ UNCHANGED <<publishState, postTaskId, publishSiteOrderId, publishSiteTaskId, postTaskRows,
                   orderState, orderTaskId, publishTaskState, siteStatus,
                   link, postJob, publishJob, requests, faults, dispRest>>

\* The job is queued; on failure failPostTask runs before the dispatcher returns.
DispatchPosts(d) ==
    /\ disp[d].pc = "postConfig"
    /\ \/ /\ postJob' = [postJob EXCEPT ![disp[d].postTask] = "active"]
          /\ disp' = [disp EXCEPT ![d] = Idle]
          /\ UNCHANGED faults
       \/ /\ faults < MaxFaults
          /\ faults' = faults + 1
          /\ postJob' = [postJob EXCEPT ![disp[d].postTask] = "fail"]
          /\ disp' = [disp EXCEPT ![d].pc = "awaitPost"]
    /\ UNCHANGED <<postRows, postTaskRows, orderRows, publishTaskState, siteStatus,
                   link, publishJob, requests, dispRest>>

\* The dispatcher returns when the fail handler it awaits is done.
DispatchFailed(d) ==
    /\ \/ disp[d].pc = "awaitPublish" /\ publishJob[<<disp[d].publishTask, d>>] = "done"
       \/ disp[d].pc = "awaitPost" /\ postJob[disp[d].postTask] = "done"
    /\ disp' = [disp EXCEPT ![d] = Idle]
    /\ UNCHANGED <<postRows, postTaskRows, orderRows, publishTaskState, siteStatus,
                   link, postJob, publishJob, requests, faults, dispRest>>

-----------------------------------------------------------------------------
DispatchStep(d) ==
    \/ ReadPublishOrder(d) \/ ReadPostOrder(d)
    \/ CheckPublish(d) \/ PickPending(d) \/ DoingPublishTask(d) \/ DoingPublishOrders(d)
    \/ DoingPublishPosts(d) \/ DoingPublishStatus(d) \/ DispatchPublish(d)
    \/ CreatePostTask(d) \/ BatchPosts(d) \/ CollectPosts(d) \/ DoingPostTask(d)
    \/ DoingSubmitPost(d) \/ DispatchPosts(d) \/ DispatchFailed(d)
=============================================================================
