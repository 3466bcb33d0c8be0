--------------------------- MODULE SiteDeployment ---------------------------
(***************************************************************************)
(* The deployment of the sites of several users, who share the dispatcher  *)
(* and the WIP limit: the users' requests to deploy, the selection of the  *)
(* oldest order of all users, dispatchDeploySiteTask and the end of the    *)
(* deploy job, one action per database statement. The posts and the        *)
(* publish orders that compete with deploy orders are here in one step per *)
(* dispatch and per job; PublishPipeline shows them in detail.             *)
(***************************************************************************)
EXTENDS Naturals, FiniteSets

CONSTANTS
    Users,           \* every user has one configured site
    MaxDeployOrders, MaxDeployTasks,
    MaxDeployRequests,
    Overlapping,     \* FALSE: the front end only lets users ask who wait for nothing
    WipLimit,
    Authors,         \* users who save a post,
    EarlyPosts,      \* TRUE: even before their site is deployed
    MaxFaults, MaxCrashes,
    NoUser,
    Dispatchers,     \* dispatchNextTask of the queue's only consumer and the administrator's endpoints
    Consumer,
    MaxDispatchRequests

ASSUME WipLimitAssumption == WipLimit \in Nat \ {0}
ASSUME BoundsAssumption ==
    /\ MaxDeployOrders \in Nat /\ MaxDeployTasks \in Nat /\ MaxDeployRequests \in Nat
    /\ MaxFaults \in Nat /\ MaxCrashes \in Nat /\ MaxDispatchRequests \in Nat
ASSUME FlagsAssumption == Overlapping \in BOOLEAN /\ EarlyPosts \in BOOLEAN
ASSUME UsersAssumption == Authors \subseteq Users /\ NoUser \notin Users
ASSUME DispatchersAssumption == Consumer \in Dispatchers

\* Rows and requests are numbered in the order of their creation; 0 is no row.
DeployOrderIds == 1..MaxDeployOrders
DeployTaskIds == 1..MaxDeployTasks
DeployRequests == 1..MaxDeployRequests
NoId == 0

VARIABLES
    siteStatus,          \* site_config_entity, per user
    deployUser, deployState, deployTaskId, deployCreatedAt,   \* deploy_site_order_entity
    taskUser, taskState, \* deploy_site_task_entity
    job,                 \* the deploy job of a task and the handler of its end
    postState, postCreatedAt,       \* the post of a user
    publishCreatedAt,    \* of the pending publish order of a user, 0: none
    publishing,          \* the publish job of the user and the handler of its end
    clock,
    request,             \* saveDeploySiteOrder, per request
    configuring,         \* whose status a request has begun to write without awaiting it
    disp,                \* what a dispatcher holds
    faults, crashes, dispatchRequests

orderRows == <<deployUser, deployState, deployTaskId, deployCreatedAt>>
taskRows == <<taskUser, taskState>>
others == <<postState, postCreatedAt, publishCreatedAt, publishing>>
requests == <<request, configuring>>
counters == <<faults, crashes, dispatchRequests>>
vars == <<siteStatus, orderRows, taskRows, job, others, clock, requests, disp, counters>>

RowState == {"absent", "pending", "doing", "finished", "failed"}
SiteStatus == {"CONFIGURED", "DEPLOYING", "DEPLOYED", "DEPLOY_FAILED",
               "PUBLISHING", "PUBLISHED", "PUBLISH_FAILED"}
RequestPc == {"new", "find", "create", "save", "done", "lost"}
DispatcherPc == {"idle", "deploy", "publish", "post", "validate", "order", "resetOrder", "resetStatus",
                 "generate", "link", "doingTask", "doingOrder", "doingStatus", "config", "failing",
                 "publishSite", "createPosts"}
JobState == {"none", "active", "finishTask", "finishOrder", "finishStatus", "publish",
             "failTask", "failOrder", "failStatus", "done", "lost"}

PublishState == {"none", "active", "finish", "fail", "lost"}

RequestRun == [pc : RequestPc, user : Users \union {NoUser}, status : SiteStatus,
               order : DeployOrderIds \union {NoId}, task : DeployTaskIds \union {NoId}]
DispatcherRun == [pc : DispatcherPc, deploy : DeployOrderIds \union {NoId},
                  publish : Users \union {NoUser}, user : Users \union {NoUser}, status : SiteStatus,
                  order : DeployOrderIds \union {NoId}, task : DeployTaskIds \union {NoId}]

TypeOK ==
    /\ siteStatus \in [Users -> SiteStatus]
    /\ deployUser \in [DeployOrderIds -> Users \union {NoUser}]
    /\ deployState \in [DeployOrderIds -> RowState]
    /\ deployTaskId \in [DeployOrderIds -> DeployTaskIds \union {NoId}]
    /\ deployCreatedAt \in [DeployOrderIds -> Nat]
    /\ taskUser \in [DeployTaskIds -> Users \union {NoUser}]
    /\ taskState \in [DeployTaskIds -> RowState]
    /\ job \in [DeployTaskIds -> JobState]
    /\ postState \in [Users -> RowState]
    /\ postCreatedAt \in [Users -> Nat] /\ publishCreatedAt \in [Users -> Nat]
    /\ publishing \in [Users -> PublishState]
    /\ clock \in Nat \ {0}
    /\ request \in [DeployRequests -> RequestRun]
    /\ configuring \in [DeployRequests -> Users \union {NoUser}]
    /\ disp \in [Dispatchers -> DispatcherRun]
    /\ faults \in Nat /\ crashes \in Nat /\ dispatchRequests \in Nat

NoRequest == [pc |-> "new", user |-> NoUser, status |-> "CONFIGURED", order |-> NoId, task |-> NoId]
Idle == [pc |-> "idle", deploy |-> NoId, publish |-> NoUser, user |-> NoUser, status |-> "CONFIGURED",
         order |-> NoId, task |-> NoId]

Init ==
    /\ siteStatus = [u \in Users |-> "CONFIGURED"]
    /\ deployUser = [o \in DeployOrderIds |-> NoUser]
    /\ deployState = [o \in DeployOrderIds |-> "absent"]
    /\ deployTaskId = [o \in DeployOrderIds |-> NoId]
    /\ deployCreatedAt = [o \in DeployOrderIds |-> 0]
    /\ taskUser = [t \in DeployTaskIds |-> NoUser]
    /\ taskState = [t \in DeployTaskIds |-> "absent"]
    /\ job = [t \in DeployTaskIds |-> "none"]
    /\ postState = [u \in Users |-> "absent"]
    /\ postCreatedAt = [u \in Users |-> 0] /\ publishCreatedAt = [u \in Users |-> 0]
    /\ publishing = [u \in Users |-> "none"]
    /\ clock = 1
    /\ request = [r \in DeployRequests |-> NoRequest]
    /\ configuring = [r \in DeployRequests |-> NoUser]
    /\ disp = [d \in Dispatchers |-> Idle]
    /\ faults = 0 /\ crashes = 0 /\ dispatchRequests = 0

-----------------------------------------------------------------------------
(* POST deploy: saveDeploySiteOrder. *)

InFlight(r) == request[r].pc \in {"find", "create", "save"}

\* No request of the user is in flight, nor what one did not await.
Served(u) == \A r \in DeployRequests : (InFlight(r) => request[r].user # u) /\ configuring[r] # u

WaitsForNothing(u) ==
    /\ Served(u)
    /\ \A o \in DeployOrderIds : deployUser[o] = u => deployState[o] \notin {"pending", "doing"}

\* validateSiteConfigUserId reads the status.
RequestDeploy(r, u) ==
    /\ request[r].pc = "new"
    /\ \A q \in DeployRequests : q < r => request[q].pc # "new"
    /\ Overlapping \/ WaitsForNothing(u)
    /\ request' = [request EXCEPT ![r].pc = "find", ![r].user = u, ![r].status = siteStatus[u]]
    /\ UNCHANGED <<siteStatus, orderRows, taskRows, job, others, clock, configuring, disp, counters>>

\* getBySiteConfigUserId: no order, one that is to be tried again, or another.
\* Of several orders of the user the query returns any. The update of the status
\* starts and is not awaited.
Found(r, again) ==
    LET found == {o \in DeployOrderIds : deployUser[o] = request[r].user} IN
    /\ request[r].pc = "find"
    /\ \/ /\ found = {}
          /\ request' = [request EXCEPT ![r].pc = "create"]
          /\ UNCHANGED configuring
       \/ /\ found # {} /\ ~again
          /\ request' = [request EXCEPT ![r].pc = "done"]
          /\ UNCHANGED configuring
       \/ /\ again
          /\ \E o \in found :
                request' = [request EXCEPT ![r].pc = "save", ![r].order = o, ![r].task = deployTaskId[o]]
          /\ configuring' = [configuring EXCEPT ![r] = request[r].user]
    /\ UNCHANGED <<siteStatus, orderRows, taskRows, job, others, clock, disp, counters>>

\* Mutation: whatever the status.
FindOrder_Always(r) == Found(r, TRUE)

\* An order that exists is only touched if the site was DEPLOY_FAILED.
FindOrder(r) == Found(r, request[r].status = "DEPLOY_FAILED")

\* save of a new order. The default post saved before it is finished and published.
CreateOrder(r) ==
    /\ request[r].pc = "create"
    /\ \E o \in DeployOrderIds :
        /\ deployState[o] = "absent" /\ \A q \in DeployOrderIds : q < o => deployState[q] # "absent"
        /\ deployUser' = [deployUser EXCEPT ![o] = request[r].user]
        /\ deployState' = [deployState EXCEPT ![o] = "pending"]
        /\ deployCreatedAt' = [deployCreatedAt EXCEPT ![o] = clock]
    /\ clock' = clock + 1
    /\ request' = [request EXCEPT ![r].pc = "done"]
    /\ UNCHANGED <<siteStatus, deployTaskId, taskRows, job, others, configuring, disp, counters>>

\* save of the order that was read, with the state PENDING; createdAt stays.
RetryOrder(r) ==
    /\ request[r].pc = "save"
    /\ deployState' = [deployState EXCEPT ![request[r].order] = "pending"]
    /\ deployTaskId' = [deployTaskId EXCEPT ![request[r].order] = request[r].task]
    /\ request' = [request EXCEPT ![r].pc = "done"]
    /\ UNCHANGED <<siteStatus, deployUser, deployCreatedAt, taskRows, job, others, clock, configuring,
                   disp, counters>>

\* The status update that nobody awaits.
ConfigureSite(r) ==
    /\ configuring[r] # NoUser
    /\ siteStatus' = [siteStatus EXCEPT ![configuring[r]] = "CONFIGURED"]
    /\ configuring' = [configuring EXCEPT ![r] = NoUser]
    /\ UNCHANGED <<orderRows, taskRows, job, others, clock, request, disp, counters>>

RequestStep(r) == FindOrder(r) \/ CreateOrder(r) \/ RetryOrder(r)

-----------------------------------------------------------------------------
(* dispatchNextTask: three queries over the orders of all users. *)

ActiveJobs == Cardinality({t \in DeployTaskIds : job[t] = "active"})
                + Cardinality({u \in Users : postState[u] = "doing"})
                + Cardinality({u \in Users : publishing[u] = "active"})

\* A site that is deployed and not being published.
AtRest == {"DEPLOYED", "PUBLISHED", "PUBLISH_FAILED"}

\* getFirstPendingDeploySiteOrder, getFirstPendingPublishSiteOrder and
\* getFirstPendingPostOrder: only the last one does not look at the status.
DeployOptions == {o \in DeployOrderIds :
    /\ deployState[o] = "pending"
    /\ siteStatus[deployUser[o]] \in {"CONFIGURED", "DEPLOY_FAILED"}}
PublishOptions == {u \in Users :
    /\ publishCreatedAt[u] # 0
    /\ siteStatus[u] \in AtRest
    /\ publishing[u] # "active" /\ postState[u] # "doing"}
PostOptions == {u \in Users : postState[u] = "pending" /\ publishing[u] # "active"}

First(options, createdAt, none) ==
    LET oldest == {x \in options : \A y \in options : createdAt[x] <= createdAt[y]}
    IN IF oldest = {} THEN none ELSE CHOOSE x \in oldest : TRUE

BelowWipLimit(d) ==
    /\ disp[d].pc = "idle"
    /\ ActiveJobs < WipLimit
    /\ disp' = [disp EXCEPT ![d].pc = "deploy"]
    /\ UNCHANGED <<siteStatus, orderRows, taskRows, job, others, clock, requests, faults, crashes>>

\* The queue's consumer polls,
DispatchNextTask(d) ==
    /\ d = Consumer
    /\ BelowWipLimit(d)
    /\ UNCHANGED dispatchRequests

AdministratorAsks(d) ==
    /\ d # Consumer
    /\ dispatchRequests < MaxDispatchRequests
    /\ dispatchRequests' = dispatchRequests + 1

\* and the administrator may ask for the same: POST next-task.
NextTask(d) == AdministratorAsks(d) /\ BelowWipLimit(d)

\* countUserDoingPublishSiteTask, countUserDoingDeploySiteTask and countUserDoingPostTask.
HasTaskInProgress(u) ==
    \/ publishing[u] = "active"
    \/ \E t \in DeployTaskIds : taskUser[t] = u /\ taskState[t] = "doing"
    \/ postState[u] = "doing"

\* POST deploy-site of the administrator: hasTaskInProgress, then the same
\* dispatch. (With autoFailed it ends like one that fails.)
DeploySite(d, u) ==
    /\ AdministratorAsks(d)
    /\ disp[d].pc = "idle"
    /\ ~HasTaskInProgress(u)
    /\ disp' = [disp EXCEPT ![d].pc = "validate", ![d].user = u]
    /\ UNCHANGED <<siteStatus, orderRows, taskRows, job, others, clock, requests, faults, crashes>>

ReadDeploy(d) ==
    /\ disp[d].pc = "deploy"
    /\ disp' = [disp EXCEPT ![d].pc = "publish", ![d].deploy = First(DeployOptions, deployCreatedAt, NoId)]
    /\ UNCHANGED <<siteStatus, orderRows, taskRows, job, others, clock, requests, counters>>

ReadPublish(d) ==
    /\ disp[d].pc = "publish"
    /\ disp' = [disp EXCEPT ![d].pc = "post",
                            ![d].publish = First(PublishOptions, publishCreatedAt, NoUser)]
    /\ UNCHANGED <<siteStatus, orderRows, taskRows, job, others, clock, requests, counters>>

\* dispatchOldestOrder, after the query for posts.
DispatchOldestOrder(d) ==
    LET deploy == disp[d].deploy
        publish == disp[d].publish
        post == First(PostOptions, postCreatedAt, NoUser)
        created == (IF deploy = NoId THEN {} ELSE {deployCreatedAt[deploy]})
                     \union (IF publish = NoUser THEN {} ELSE {publishCreatedAt[publish]})
                     \union (IF post = NoUser THEN {} ELSE {postCreatedAt[post]})
        Oldest(at) == \A c \in created : at <= c
    IN
    /\ disp[d].pc = "post"
    /\ disp' = [disp EXCEPT ![d] =
         CASE deploy # NoId /\ Oldest(deployCreatedAt[deploy]) ->
                [Idle EXCEPT !.pc = "validate", !.user = deployUser[deploy]]
           [] publish # NoUser /\ Oldest(publishCreatedAt[publish]) ->
                [Idle EXCEPT !.pc = "publishSite", !.user = publish]
           [] post # NoUser /\ Oldest(postCreatedAt[post]) ->
                [Idle EXCEPT !.pc = "createPosts", !.user = post]
           [] OTHER -> Idle]
    /\ UNCHANGED <<siteStatus, orderRows, taskRows, job, others, clock, requests, counters>>

-----------------------------------------------------------------------------
(* dispatchDeploySiteTask. *)

Advance(d, from, to) == disp[d].pc = from /\ disp' = [disp EXCEPT ![d].pc = to]

\* validateSiteConfigUserId.
ReadSite(d) ==
    /\ disp[d].pc = "validate"
    /\ disp' = [disp EXCEPT ![d].pc = "order", ![d].status = siteStatus[disp[d].user]]
    /\ UNCHANGED <<siteStatus, orderRows, taskRows, job, others, clock, requests, counters>>

\* getDeploySiteOrderBySiteConfigUserId, and the check of the status that was
\* read; without an order, or with another status, the dispatch throws.
ReadOrder(d) ==
    LET found == {o \in DeployOrderIds : deployUser[o] = disp[d].user}
        next == CASE disp[d].status = "DEPLOY_FAILED" -> "resetOrder"
                  [] disp[d].status = "CONFIGURED" -> "generate"
                  [] OTHER -> "idle"
    IN
    /\ disp[d].pc = "order"
    /\ \/ /\ next = "idle" \/ found = {}
          /\ disp' = [disp EXCEPT ![d] = Idle]
       \/ /\ next # "idle"
          /\ \E o \in found : disp' = [disp EXCEPT ![d].pc = next, ![d].order = o]
    /\ UNCHANGED <<siteStatus, orderRows, taskRows, job, others, clock, requests, counters>>

\* A site that is DEPLOY_FAILED is tried again.
ResetOrder(d) ==
    /\ Advance(d, "resetOrder", "resetStatus")
    /\ deployState' = [deployState EXCEPT ![disp[d].order] = "pending"]
    /\ UNCHANGED <<siteStatus, deployUser, deployTaskId, deployCreatedAt, taskRows, job, others,
                   clock, requests, counters>>

ResetStatus(d) ==
    /\ Advance(d, "resetStatus", "generate")
    /\ siteStatus' = [siteStatus EXCEPT ![disp[d].user] = "CONFIGURED"]
    /\ UNCHANGED <<orderRows, taskRows, job, others, clock, requests, counters>>

GenerateTask(d) ==
    /\ disp[d].pc = "generate"
    /\ \E t \in DeployTaskIds :
        /\ taskState[t] = "absent" /\ \A s \in DeployTaskIds : s < t => taskState[s] # "absent"
        /\ taskState' = [taskState EXCEPT ![t] = "pending"]
        /\ taskUser' = [taskUser EXCEPT ![t] = disp[d].user]
        /\ disp' = [disp EXCEPT ![d].pc = "link", ![d].task = t]
    /\ UNCHANGED <<siteStatus, orderRows, job, others, clock, requests, counters>>

LinkOrder(d) ==
    /\ Advance(d, "link", "doingTask")
    /\ deployTaskId' = [deployTaskId EXCEPT ![disp[d].order] = disp[d].task]
    /\ UNCHANGED <<siteStatus, deployUser, deployState, deployCreatedAt, taskRows, job, others,
                   clock, requests, counters>>

\* doingDeploySiteTask, its three updates.
DoingTask(d) ==
    /\ Advance(d, "doingTask", "doingOrder")
    /\ taskState' = [taskState EXCEPT ![disp[d].task] = "doing"]
    /\ UNCHANGED <<siteStatus, orderRows, taskUser, job, others, clock, requests, counters>>

DoingOrder(d) ==
    /\ Advance(d, "doingOrder", "doingStatus")
    /\ deployState' = [o \in DeployOrderIds |->
         IF deployTaskId[o] = disp[d].task THEN "doing" ELSE deployState[o]]
    /\ UNCHANGED <<siteStatus, deployUser, deployTaskId, deployCreatedAt, taskRows, job, others,
                   clock, requests, counters>>

DoingStatus(d) ==
    /\ Advance(d, "doingStatus", "config")
    /\ siteStatus' = [siteStatus EXCEPT ![disp[d].user] = "DEPLOYING"]
    /\ UNCHANGED <<orderRows, taskRows, job, others, clock, requests, counters>>

\* The user and the config are fetched, which throws unless the site is
\* DEPLOYING, and the job is queued. If one of these fails failDeploySiteTask
\* runs and the dispatcher awaits it.
DispatchDeploy(d) ==
    /\ disp[d].pc = "config"
    /\ \/ /\ siteStatus[disp[d].user] = "DEPLOYING"
          /\ job' = [job EXCEPT ![disp[d].task] = "active"]
          /\ disp' = [disp EXCEPT ![d] = Idle]
          /\ UNCHANGED faults
       \/ /\ \/ siteStatus[disp[d].user] # "DEPLOYING" /\ UNCHANGED faults
             \/ faults < MaxFaults /\ faults' = faults + 1
          /\ job' = [job EXCEPT ![disp[d].task] = "failTask"]
          /\ disp' = [disp EXCEPT ![d].pc = "failing"]
    /\ UNCHANGED <<siteStatus, orderRows, taskRows, others, clock, requests, crashes, dispatchRequests>>

DispatchFailed(d) ==
    /\ disp[d].pc = "failing"
    /\ job[disp[d].task] = "done"
    /\ disp' = [disp EXCEPT ![d] = Idle]
    /\ UNCHANGED <<siteStatus, orderRows, taskRows, job, others, clock, requests, counters>>

-----------------------------------------------------------------------------
(* The other orders, one step per dispatch and per job. *)

\* A user saves a post; there is no check of the site.
SavePost(u) ==
    /\ u \in Authors
    /\ postState[u] = "absent"
    /\ EarlyPosts \/ siteStatus[u] \in {"DEPLOYED", "PUBLISHING", "PUBLISHED", "PUBLISH_FAILED"}
    /\ postState' = [postState EXCEPT ![u] = "pending"]
    /\ postCreatedAt' = [postCreatedAt EXCEPT ![u] = clock]
    /\ clock' = clock + 1
    /\ UNCHANGED <<siteStatus, orderRows, taskRows, job, publishCreatedAt, publishing, requests, disp, counters>>

\* dispatchCreatePostsTask throws unless the site is at rest;
\* dispatchNextTask logs the exception and the order stays pending.
CreatePosts(d) ==
    LET u == disp[d].user IN
    /\ disp[d].pc = "createPosts"
    /\ disp' = [disp EXCEPT ![d] = Idle]
    /\ \/ siteStatus[u] \notin AtRest /\ UNCHANGED <<postState, faults>>
       \/ /\ siteStatus[u] \in AtRest
          /\ \/ postState' = [postState EXCEPT ![u] = "doing"] /\ UNCHANGED faults
             \/ /\ faults < MaxFaults /\ faults' = faults + 1
                /\ postState' = [postState EXCEPT ![u] = "failed"]
    /\ UNCHANGED <<siteStatus, orderRows, taskRows, job, postCreatedAt, publishCreatedAt, publishing,
                   clock, requests, crashes, dispatchRequests>>

\* generatePublishSiteOrder: a pending order is reused.
PublishOrder(u) ==
    IF publishCreatedAt[u] # 0 THEN UNCHANGED <<publishCreatedAt, clock>>
    ELSE /\ publishCreatedAt' = [publishCreatedAt EXCEPT ![u] = clock]
         /\ clock' = clock + 1

PostJobEnds(u) ==
    /\ postState[u] = "doing"
    /\ \/ /\ postState' = [postState EXCEPT ![u] = "finished"]
          /\ PublishOrder(u)
          /\ UNCHANGED faults
       \/ /\ faults < MaxFaults /\ faults' = faults + 1
          /\ postState' = [postState EXCEPT ![u] = "failed"]
          /\ UNCHANGED <<publishCreatedAt, clock>>
    /\ UNCHANGED <<siteStatus, orderRows, taskRows, job, postCreatedAt, publishing, requests, disp,
                   crashes, dispatchRequests>>

\* dispatchPublishSiteTask throws too, unless the site is at rest.
PublishSite(d) ==
    LET u == disp[d].user IN
    /\ disp[d].pc = "publishSite"
    /\ disp' = [disp EXCEPT ![d] = Idle]
    /\ \/ siteStatus[u] \notin AtRest /\ UNCHANGED <<siteStatus, publishCreatedAt, publishing, faults>>
       \/ /\ siteStatus[u] \in AtRest
          /\ publishCreatedAt' = [publishCreatedAt EXCEPT ![u] = 0]
          /\ \/ /\ siteStatus' = [siteStatus EXCEPT ![u] = "PUBLISHING"]
                /\ publishing' = [publishing EXCEPT ![u] = "active"]
                /\ UNCHANGED faults
             \/ /\ faults < MaxFaults /\ faults' = faults + 1
                /\ siteStatus' = [siteStatus EXCEPT ![u] = "PUBLISH_FAILED"]
                /\ UNCHANGED publishing
    /\ UNCHANGED <<orderRows, taskRows, job, postState, postCreatedAt, clock, requests, crashes, dispatchRequests>>

\* The order ends before the status is set.
PublishJobEnds(u) ==
    /\ publishing[u] = "active"
    /\ \/ publishing' = [publishing EXCEPT ![u] = "finish"] /\ UNCHANGED faults
       \/ /\ faults < MaxFaults /\ faults' = faults + 1
          /\ publishing' = [publishing EXCEPT ![u] = "fail"]
    /\ UNCHANGED <<siteStatus, orderRows, taskRows, job, postState, postCreatedAt, publishCreatedAt,
                   clock, requests, disp, crashes, dispatchRequests>>

SetPublished(u) ==
    /\ publishing[u] \in {"finish", "fail"}
    /\ publishing' = [publishing EXCEPT ![u] = "none"]
    /\ siteStatus' = [siteStatus EXCEPT ![u] =
         IF publishing[u] = "finish" THEN "PUBLISHED" ELSE "PUBLISH_FAILED"]
    /\ UNCHANGED <<orderRows, taskRows, job, postState, postCreatedAt, publishCreatedAt, clock, requests, disp, counters>>

OtherStep(u) == PostJobEnds(u) \/ PublishJobEnds(u) \/ SetPublished(u)

DispatchStep(d) ==
    \/ DispatchNextTask(d) \/ ReadDeploy(d) \/ ReadPublish(d) \/ DispatchOldestOrder(d)
    \/ ReadSite(d) \/ ReadOrder(d) \/ ResetOrder(d) \/ ResetStatus(d) \/ GenerateTask(d) \/ LinkOrder(d)
    \/ DoingTask(d) \/ DoingOrder(d) \/ DoingStatus(d) \/ DispatchDeploy(d) \/ DispatchFailed(d)
    \/ CreatePosts(d) \/ PublishSite(d)

-----------------------------------------------------------------------------
(* The end of a deploy job: finishDeploySiteTask and failDeploySiteTask.    *)
(* Timing assumption: the job, a container that fills a repository, takes   *)
(* longer than the few statements of a request of its user.                 *)

AdvanceJob(t, from, to) == job[t] = from /\ job' = [job EXCEPT ![t] = to]

DeployCompleted(t) ==
    /\ AdvanceJob(t, "active", "finishTask")
    /\ Served(taskUser[t])
    /\ UNCHANGED <<siteStatus, orderRows, taskRows, others, clock, requests, disp, counters>>

DeployFailed(t) ==
    /\ AdvanceJob(t, "active", "failTask")
    /\ Served(taskUser[t])
    /\ faults < MaxFaults /\ faults' = faults + 1
    /\ UNCHANGED <<siteStatus, orderRows, taskRows, others, clock, requests, disp, crashes, dispatchRequests>>

EndTask(t, from, to, state) ==
    /\ AdvanceJob(t, from, to)
    /\ taskState' = [taskState EXCEPT ![t] = state]
    /\ UNCHANGED <<siteStatus, orderRows, taskUser, others, clock, requests, disp, counters>>

EndOrder(t, from, to, state) ==
    /\ AdvanceJob(t, from, to)
    /\ deployState' = [o \in DeployOrderIds |-> IF deployTaskId[o] = t THEN state ELSE deployState[o]]
    /\ UNCHANGED <<siteStatus, deployUser, deployTaskId, deployCreatedAt, taskRows, others, clock,
                   requests, disp, counters>>

EndStatus(t, from, to, status) ==
    /\ AdvanceJob(t, from, to)
    /\ siteStatus' = [siteStatus EXCEPT ![taskUser[t]] = status]
    /\ UNCHANGED <<orderRows, taskRows, others, clock, requests, disp, counters>>

\* Mutation: the status gets the state of the order.
FinishDeploySiteTask_State(t) ==
    \/ EndTask(t, "finishTask", "finishOrder", "finished")
    \/ EndOrder(t, "finishOrder", "finishStatus", "finished")
    \/ EndStatus(t, "finishStatus", "publish", "finished")

FinishDeploySiteTask(t) ==
    \/ EndTask(t, "finishTask", "finishOrder", "finished")
    \/ EndOrder(t, "finishOrder", "finishStatus", "finished")
    \/ EndStatus(t, "finishStatus", "publish", "DEPLOYED")

\* Mutations: failDeploySiteTask forgets the site or the order.
FailDeploySiteTask_NoSite(t) ==
    \/ EndTask(t, "failTask", "failOrder", "failed")
    \/ EndOrder(t, "failOrder", "done", "failed")

FailDeploySiteTask_NoOrder(t) ==
    \/ EndTask(t, "failTask", "failStatus", "failed")
    \/ EndStatus(t, "failStatus", "done", "DEPLOY_FAILED")

FailDeploySiteTask(t) ==
    \/ EndTask(t, "failTask", "failOrder", "failed")
    \/ EndOrder(t, "failOrder", "failStatus", "failed")
    \/ EndStatus(t, "failStatus", "done", "DEPLOY_FAILED")

\* The first publication of the site.
GeneratePublishSiteOrder(t) ==
    /\ AdvanceJob(t, "publish", "done")
    /\ PublishOrder(taskUser[t])
    /\ UNCHANGED <<siteStatus, orderRows, taskRows, postState, postCreatedAt, publishing, requests, disp, counters>>

DeployJobStep(t) ==
    \/ DeployCompleted(t) \/ DeployFailed(t)
    \/ FinishDeploySiteTask(t) \/ FailDeploySiteTask(t) \/ GeneratePublishSiteOrder(t)

-----------------------------------------------------------------------------
(* The backend restarts: rows and jobs stay, what its handlers hold is gone. *)

Preparing(t) ==
    \E d \in Dispatchers :
        disp[d].task = t /\ disp[d].pc \in {"link", "doingTask", "doingOrder", "doingStatus", "config"}

Restart ==
    /\ crashes < MaxCrashes
    /\ crashes' = crashes + 1
    /\ disp' = [d \in Dispatchers |-> Idle]
    /\ job' = [t \in DeployTaskIds |->
         IF Preparing(t) \/ job[t] \notin {"none", "active", "done"} THEN "lost" ELSE job[t]]
    /\ request' = [r \in DeployRequests |->
         IF InFlight(r) THEN [request[r] EXCEPT !.pc = "lost"] ELSE request[r]]
    /\ configuring' = [r \in DeployRequests |-> NoUser]
    /\ publishing' = [u \in Users |-> IF publishing[u] \in {"finish", "fail"} THEN "lost" ELSE publishing[u]]
    /\ UNCHANGED <<siteStatus, orderRows, taskRows, postState, postCreatedAt, publishCreatedAt, clock, faults,
                   dispatchRequests>>

Next ==
    \/ \E r \in DeployRequests : \/ \E u \in Users : RequestDeploy(r, u)
                                 \/ RequestStep(r) \/ ConfigureSite(r)
    \/ \E u \in Users : SavePost(u) \/ OtherStep(u)
    \/ \E d \in Dispatchers : DispatchStep(d) \/ NextTask(d) \/ \E u \in Users : DeploySite(d, u)
    \/ \E t \in DeployTaskIds : DeployJobStep(t)
    \/ Restart

\* The event loop gets to every handler, the queue to its consumer, and a worker
\* ends every job one way or the other. Nothing makes a user do anything.
Fairness ==
    /\ \A d \in Dispatchers : WF_vars(DispatchStep(d))
    /\ \A r \in DeployRequests : WF_vars(RequestStep(r)) /\ WF_vars(ConfigureSite(r))
    /\ \A t \in DeployTaskIds : WF_vars(DeployJobStep(t))
    /\ \A u \in Users : WF_vars(OtherStep(u))

Spec == Init /\ [][Next]_vars
FairSpec == Spec /\ Fairness

-----------------------------------------------------------------------------
(* Safety. *)

\* A site that is DEPLOYING, to which no request does anything, has a dispatcher
\* or a job that will set another status, unless a restart cut it off.
DeployingIsOwned ==
    \A u \in Users : siteStatus[u] = "DEPLOYING" =>
        \/ \E d \in Dispatchers : disp[d].user = u /\ disp[d].pc = "config"
        \/ \E t \in DeployTaskIds : taskUser[t] = u /\
              job[t] \in {"active", "finishTask", "finishOrder", "finishStatus",
                          "failTask", "failOrder", "failStatus", "lost"}

\* A deploy order that is doing is linked to a task whose handlers will end it.
DeployOrderIsOwned ==
    \A o \in DeployOrderIds : deployState[o] = "doing" =>
        \E t \in DeployTaskIds :
            /\ t = deployTaskId[o]
            /\ Preparing(t) \/ job[t] \in {"active", "finishTask", "finishOrder", "failTask", "failOrder", "lost"}

\* Both: nothing of a deployment is left behind.
DeploymentIsOwned == DeployingIsOwned /\ DeployOrderIsOwned

\* While the repository of a site is being made, no other job touches it: not a
\* second deployment, a post job or a publish job.
DeployAlone == dispatchRequests = 0 =>
    \A t \in DeployTaskIds : job[t] = "active" =>
        /\ \A s \in DeployTaskIds : taskUser[s] = taskUser[t] /\ job[s] = "active" => s = t
        /\ postState[taskUser[t]] # "doing" /\ publishing[taskUser[t]] # "active"

Deployed == {"DEPLOYED", "PUBLISHING", "PUBLISHED", "PUBLISH_FAILED"}

\* A deployed site stays deployed: a status written late, or a deployment
\* dispatched from stale rows, would shut its posts out of the queue for good.
DeployedForGood ==
    [][dispatchRequests = 0 =>
         \A u \in Users : siteStatus[u] \in Deployed => siteStatus'[u] \in Deployed]_vars

-----------------------------------------------------------------------------
(* Progress. *)

\* A restart ended a handler that works for the user, or it left the site of
\* another user PUBLISHING, whose next post the dispatcher will try for good.
CutOff(u) == \/ \E t \in DeployTaskIds : taskUser[t] = u /\ job[t] = "lost"
             \/ \E r \in DeployRequests : request[r].user = u /\ request[r].pc = "lost"
             \/ \E v \in Users : publishing[v] = "lost"

\* The update that a retry did not await came after the end of a dispatch that
\* had failed: the site is CONFIGURED, but its order has failed and waits for
\* nothing, and another request of the user finds nothing to do.
Overtaken(u) ==
    /\ siteStatus[u] = "CONFIGURED" /\ Served(u)
    /\ \A o \in DeployOrderIds : deployUser[o] = u => deployState[o] = "failed"
    /\ \A t \in DeployTaskIds : taskUser[t] = u => job[t] \in {"none", "done"}

\* "Configured: ... just wait" and "Deploying: ... wait for the result"
\* (SiteOrdersLogicService.saveDeploySiteOrder): a user need not do more, unless
\* a restart or a late update of his own retry left his deployment behind.
WaitingIsEnough ==
    \A u \in Users :
        siteStatus[u] = "CONFIGURED" /\ (\E o \in DeployOrderIds : deployUser[o] = u)
            ~> \/ siteStatus[u] \in Deployed \union {"DEPLOY_FAILED"}
               \/ CutOff(u) \/ Overtaken(u) \/ dispatchRequests > 0
=============================================================================
