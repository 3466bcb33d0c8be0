--------------------------- MODULE PublishLinking ---------------------------
(***************************************************************************)
(* generatePublishSiteOrder and linkOrGeneratePublishSiteTask, one action  *)
(* per database statement. Both run as subroutines of several handlers and *)
(* several runs are in flight at the same time: nothing locks the rows     *)
(* between the statement that looks for a pending order or task and the    *)
(* one that inserts or links it.                                           *)
(***************************************************************************)
EXTENDS PipelineTables

linkRest == <<certRows, cert, postTaskRows, siteStatus, disp, postJob, publishJob, retry, sweeps, git, counters>>

-----------------------------------------------------------------------------
(* linkOrGeneratePublishSiteTask(siteConfigId, userId) run by linker l. *)

LinkStart == [NoLink EXCEPT !.pc = "read"]

\* getBySiteConfigUserId: the newest task of the site, whatever its state.
LinkRead(l) ==
    /\ link[l].pc = "read"
    /\ LET reusable == {t \in PendingPublishTasks : t = Newest(PublishTasks)} IN
       link' = [link EXCEPT ![l] =
                  IF reusable = {} THEN [@ EXCEPT !.pc = "create"]
                  ELSE [@ EXCEPT !.pc = "orders", !.task = Newest(PublishTasks)]]
    /\ UNCHANGED <<postRows, orderRows, publishTaskState, clock, gen, linkRest>>

\* save: a new pending task, with the next createdAt.
LinkCreate(l) ==
    /\ link[l].pc = "create"
    /\ \E t \in PublishTaskIds :
        /\ publishTaskState[t] = "absent"
        /\ \A s \in PublishTaskIds : s < t => publishTaskState[s] # "absent"
        /\ publishTaskState' = [publishTaskState EXCEPT ![t] = "pending"]
        /\ link' = [link EXCEPT ![l].pc = "orders", ![l].task = t]
    /\ UNCHANGED <<postRows, orderRows, clock, gen, linkRest>>

\* batchUpdate of publish_site_order_entity: pending and failed orders.
LinkOrders(l) ==
    /\ link[l].pc = "orders"
    /\ orderTaskId' = [o \in OrderIds |->
         IF orderState[o] \in {"pending", "failed"} THEN link[l].task ELSE orderTaskId[o]]
    /\ link' = [link EXCEPT ![l].pc = "ids"]
    /\ UNCHANGED <<postRows, orderState, orderCreatedAt, publishTaskState, clock, gen, linkRest>>

\* getByPublishSiteTaskId: the orders that are linked to the task by now.
LinkIds(l) ==
    /\ link[l].pc = "ids"
    /\ link' = [link EXCEPT ![l].pc = "posts",
                            ![l].orders = {o \in OrderIds : orderTaskId[o] = link[l].task}]
    /\ UNCHANGED <<postRows, orderRows, publishTaskState, clock, gen, linkRest>>

\* batchUpdate of post_order_entity. (The same update of post_task_entity goes
\* before it; no query ever reads the column it sets.)
LinkPosts(l) ==
    /\ link[l].pc = "posts"
    /\ publishSiteTaskId' = [p \in Posts |->
         IF publishSiteOrderId[p] \in link[l].orders /\ publishState[p] \in {"pending", "failed"}
         THEN link[l].task ELSE publishSiteTaskId[p]]
    /\ link' = [link EXCEPT ![l] = NoLink]
    /\ UNCHANGED <<submitState, publishState, postTaskId, publishSiteOrderId, postCreatedAt,
                   orderRows, publishTaskState, clock, gen, linkRest>>

LinkStep(l) ==
    \/ LinkRead(l) \/ LinkCreate(l) \/ LinkOrders(l) \/ LinkIds(l) \/ LinkPosts(l)

-----------------------------------------------------------------------------
(* generatePublishSiteOrder(userId) run for caller c. It ends with the emit *)
(* of LINK_OR_GENERATE_PUBLISH_SITE_TASK_EVENT, whose handler runs on its   *)
(* own. Bound: one such handler in flight per caller.                       *)

GenStart == [NoGen EXCEPT !.pc = "find"]

\* What the caller does with the order: nothing after a deployment and for the
\* user; update its post task and its posts after a post job or a retry event.
GenReturn(c, o) ==
    IF c = OrderRequest THEN NoGen
    ELSE [gen[c] EXCEPT !.pc = IF c \in PostTaskIds THEN "updateTask" ELSE "updatePosts",
                        !.order = o]

\* POST publish: the user asks for a publication of the site.
RequestPublish ==
    /\ publishRequests < MaxPublishRequests
    /\ gen[OrderRequest].pc = "none"
    /\ publishRequests' = publishRequests + 1
    /\ gen' = [gen EXCEPT ![OrderRequest] = GenStart]
    /\ UNCHANGED <<postRows, certRows, cert, postTaskRows, orderRows, publishTaskState, siteStatus, clock,
                   disp, link, postJob, publishJob, retry, sweeps, git, reports, retries, requests,
                   faults, crashes>>

\* getBySiteConfigUserIdAndState(PENDING): the newest pending order is reused.
GenFind(c) ==
    /\ gen[c].pc = "find"
    /\ \/ /\ PendingOrders = {}
          /\ gen' = [gen EXCEPT ![c].pc = "create"]
          /\ UNCHANGED link
       \/ /\ PendingOrders # {}
          /\ link[c].pc = "none"
          /\ gen' = [gen EXCEPT ![c] = GenReturn(c, Newest(PendingOrders))]
          /\ link' = [link EXCEPT ![c] = LinkStart]
    /\ UNCHANGED <<postRows, orderRows, publishTaskState, clock, linkRest>>

\* save: a new pending order.
GenCreate(c) ==
    /\ gen[c].pc = "create"
    /\ link[c].pc = "none"
    /\ \E o \in OrderIds :
        /\ orderState[o] = "absent"
        /\ \A q \in OrderIds : q < o => orderState[q] # "absent"
        /\ orderState' = [orderState EXCEPT ![o] = "pending"]
        /\ orderCreatedAt' = [orderCreatedAt EXCEPT ![o] = clock]
        /\ gen' = [gen EXCEPT ![c] = GenReturn(c, o)]
    /\ clock' = clock + 1
    /\ link' = [link EXCEPT ![c] = LinkStart]
    /\ UNCHANGED <<postRows, orderTaskId, publishTaskState, linkRest>>

\* finishPostTask, its update of post_task_entity.
FinishPostTask(t) ==
    /\ gen[t].pc = "updateTask"
    /\ postTaskState' = [postTaskState EXCEPT ![t] = "finished"]
    /\ gen' = [gen EXCEPT ![t].pc = "updatePosts"]
    /\ UNCHANGED <<postRows, batch, orderRows, publishTaskState, siteStatus, clock, disp,
                   link, postJob, publishJob, retry, sweeps, certRows, cert, git, counters>>

\* Mutation: finishSubmitPost looks for pending posts.
FinishSubmitPost_Pending(t) ==
    /\ gen[t].pc = "updatePosts"
    /\ LET submitted == {p \in Posts : postTaskId[p] = t /\ submitState[p] = "pending"} IN
        submitState' = [p \in Posts |-> IF p \in submitted THEN "finished" ELSE submitState[p]]
    /\ gen' = [gen EXCEPT ![t] = NoGen]
    /\ postJob' = [postJob EXCEPT ![t] = "done"]
    /\ UNCHANGED <<publishState, postTaskId, publishSiteOrderId, publishSiteTaskId, postCreatedAt,
                   postTaskRows, orderRows, publishTaskState, siteStatus, clock, disp, link,
                   publishJob, retry, sweeps, certRows, cert, git, counters>>

\* finishSubmitPost: the posts of the task that are still doing.
FinishSubmitPost(t) ==
    /\ gen[t].pc = "updatePosts"
    /\ LET submitted == {p \in Posts : postTaskId[p] = t /\ submitState[p] = "doing"} IN
        /\ submitState' = [p \in Posts |-> IF p \in submitted THEN "finished" ELSE submitState[p]]
        /\ publishSiteOrderId' = [p \in Posts |->
             IF p \in submitted THEN gen[t].order ELSE publishSiteOrderId[p]]
    /\ gen' = [gen EXCEPT ![t] = NoGen]
    /\ postJob' = [postJob EXCEPT ![t] = "done"]
    /\ UNCHANGED <<publishState, postTaskId, publishSiteTaskId, postCreatedAt, postTaskRows,
                   orderRows, publishTaskState, siteStatus, clock, disp, link, publishJob,
                   retry, sweeps, certRows, cert, git, counters>>

\* updatePublishOrderId for the post task the retried post was read with:
\* every post of that task, whatever its state. (The update of the post task
\* row before it sets a column that no query reads, but it rejects an empty id:
\* nothing is updated when the post was read without a post task.)
UpdatePublishOrderId(r) ==
    /\ gen[r].pc = "updatePosts"
    /\ publishSiteOrderId' = [q \in Posts |->
         IF postTaskId[q] = gen[r].task /\ gen[r].task # NoTask THEN gen[r].order ELSE publishSiteOrderId[q]]
    /\ gen' = [gen EXCEPT ![r] = NoGen]
    /\ UNCHANGED <<submitState, publishState, postTaskId, publishSiteTaskId, postCreatedAt,
                   orderRows, publishTaskState, clock, link, linkRest>>

GenStep(c) == GenFind(c) \/ GenCreate(c)
=============================================================================
