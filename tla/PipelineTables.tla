--------------------------- MODULE PipelineTables ---------------------------
(***************************************************************************)
(* The tables the publishing pipeline of one user works on, the handlers   *)
(* that are in flight between two of their database statements, and the    *)
(* queries the dispatcher selects work with.                               *)
(*                                                                         *)
(* Every column is a function of its own, keyed by the primary key: a bulk *)
(* UPDATE ... WHERE of the code is one function comprehension here. All    *)
(* the queries filter on the user, so the rows of two users never meet:    *)
(* one user with one deployed site is modelled.                            *)
(***************************************************************************)
EXTENDS Integers, FiniteSets

CONSTANTS
    Posts,            \* post_order_entity ids (signatures)
    PostTaskIds,      \* post_task_entity ids (uuids)
    Dispatchers,      \* concurrent runs of the dispatcher: the consumer of the dispatch
                      \* queue (concurrency 1) and requests to the administrator's endpoints
    OrderRequest,     \* a caller that only generates a publish order: the finish handler of
                      \* the deploy job, and afterwards a publish request of the user
    NoTask,           \* the column default '' of postTaskId
    CertificateTypes, \* the certificateStorageTypes that requests carry
    JustDeployed,     \* TRUE: the handler of the deploy job is still to generate the first
                      \* publish order; FALSE: the site has been published before
    MaxOrders,        \* bound: publish_site_order_entity rows
    MaxPublishTasks,  \* bound: publish_site_task_entity rows
    WipLimit,         \* pipeline.dispatcher.wipLimit
    SlowLinks,        \* bound: FALSE lets no link handler (a few queries) run for longer
                      \* than a publish job (a container that builds a site)
    MaxReports,       \* bound: ERRORED reports of workers
    MaxRetries,       \* bound: retry requests of the user
    MaxPublishRequests, \* bound: publish requests of the user; one of them in flight
    MaxSweeps,        \* bound: sweeps of failed posts in flight
    MaxRequests,      \* bound: create-posts and publish-site requests of the administrator
    MaxFaults,        \* bound: failed dispatches, failed jobs, failed domain updates
    MaxCrashes        \* bound: restarts of the backend

\* Who retries a post: a request of the user or the sweep of failed posts that
\* every new post starts. Bound: one retry of each kind in flight per post.
Retriers == Posts \X {"request", "sweep"}
\* Who runs handleCertificate: the request that saves a post, and its retries.
\* Bound: one run of each kind in flight per post.
Certifiers == Posts \X {"save", "request", "sweep"}
NoCertificate == ""               \* the column default of certificateStorageType

ASSUME BoundsAssumption ==
    /\ MaxOrders \in Nat /\ MaxPublishTasks \in Nat /\ WipLimit \in Nat
    /\ MaxReports \in Nat /\ MaxRetries \in Nat /\ MaxRequests \in Nat /\ MaxSweeps \in Nat
    /\ MaxPublishRequests \in Nat /\ MaxFaults \in Nat /\ MaxCrashes \in Nat

ASSUME NamesAssumption ==
    /\ JustDeployed \in BOOLEAN /\ SlowLinks \in BOOLEAN
    /\ NoTask \notin PostTaskIds
    /\ OrderRequest \notin PostTaskIds \union Retriers \union Dispatchers
    /\ PostTaskIds \intersect Retriers = {}
    /\ Dispatchers \intersect (PostTaskIds \union Retriers) = {}

VARIABLES
    \* post_order_entity
    submitState, publishState, postTaskId, publishSiteOrderId,
    publishSiteTaskId, postCreatedAt,
    certificateStorageType, certificateState, certificateId,
    \* post_task_entity; batch is the list of posts the job's config carries
    postTaskState, batch,
    \* publish_site_order_entity
    orderState, orderTaskId, orderCreatedAt,
    \* publish_site_task_entity and site_config_entity.status
    publishTaskState, siteStatus,
    \* one clock for the createdAt columns
    clock,
    \* handlers in flight: dispatchers, link and generate subroutines,
    \* worker jobs with their finish and fail handlers, retries, sweeps,
    \* certificate uploads
    disp, link, gen, postJob, publishJob, retry, sweeps, cert,
    \* outside of the backend: the posts in the user's source repository, in
    \* the copy a publish job builds from, and on the published site
    repo, built, live,
    \* how often each bounded event has happened
    reports, retries, publishRequests, requests, faults, crashes

postRows    == <<submitState, publishState, postTaskId, publishSiteOrderId,
                 publishSiteTaskId, postCreatedAt>>
postTaskRows == <<postTaskState, batch>>
orderRows   == <<orderState, orderTaskId, orderCreatedAt>>
certRows    == <<certificateStorageType, certificateState, certificateId>>
git         == <<repo, built, live>>
counters    == <<reports, retries, publishRequests, requests, faults, crashes>>
vars == <<postRows, certRows, postTaskRows, orderRows, publishTaskState, siteStatus, clock,
          disp, link, gen, postJob, publishJob, retry, sweeps, cert, git, counters>>

-----------------------------------------------------------------------------
OrderIds == 1..MaxOrders
PublishTaskIds == 1..MaxPublishTasks
NoId == 0                      \* the column default of publishSiteOrderId, '' of publishSiteTaskId

\* PipelineOrderTaskCommonState, and "absent" for a row that was not inserted yet.
RowState == {"absent", "pending", "doing", "finished", "failed"}

\* The column default of a post without a certificate is the empty state.
CertificateState == {"", "pending", "doing", "finished", "failed"}
CertificateIds == {"", "txId"}

\* The values SiteStatus takes once the site is deployed.
SiteStatus == {"DEPLOYED", "PUBLISHING", "PUBLISHED", "PUBLISH_FAILED"}

\* Who calls generatePublishSiteOrder: the finish handlers of the deploy job and of
\* the post jobs, publish requests of the user, and the event a retried post emits.
Callers == {OrderRequest} \union PostTaskIds \union Retriers
\* Who runs linkOrGeneratePublishSiteTask: a dispatcher inline, and the event
\* handler on behalf of each caller.
Linkers == Dispatchers \union Callers
\* The queue's jobs of a publish task; two dispatchers may both dispatch a task.
PublishJobs == PublishTaskIds \X Dispatchers

PostRow == [submit : RowState, publish : RowState, task : PostTaskIds \union {NoTask},
            order : OrderIds \union {NoId}, publishTask : PublishTaskIds \union {NoId},
            certType : CertificateTypes \union {NoCertificate},
            certState : CertificateState, certId : CertificateIds]
NoRow == [submit |-> "absent", publish |-> "absent", task |-> NoTask,
          order |-> NoId, publishTask |-> NoId,
          certType |-> NoCertificate, certState |-> "", certId |-> ""]
Row(p) == [submit |-> submitState[p], publish |-> publishState[p],
           task |-> postTaskId[p], order |-> publishSiteOrderId[p],
           publishTask |-> publishSiteTaskId[p],
           certType |-> certificateStorageType[p], certState |-> certificateState[p],
           certId |-> certificateId[p]]

DispatcherPc == {"idle", "readPost",
                 "publish", "linking", "doingTask", "doingOrders", "doingPosts",
                 "doingStatus", "publishConfig", "awaitPublish",
                 "posts", "batch", "collect", "doingPostTask", "doingSubmit",
                 "postConfig", "awaitPost"}
LinkPc  == {"none", "read", "create", "orders", "ids", "posts"}
GenPc   == {"none", "find", "create", "updateTask", "updatePosts"}
PostJobPc == {"none", "active", "completed", "fail", "failPosts", "done", "lost"}
PublishJobPc == {"none", "active", "building", "finish", "domain", "finishOrders", "finishPosts",
                 "setPublished", "fail", "failOrders", "failPosts", "failStatus",
                 "done", "stuck", "lost"}
RetryPc == {"none", "read", "save"}
CertPc  == {"none", "start", "upload", "again", "fail"}

\* What a handler in flight remembers between two statements.
DispatcherRun == [pc : DispatcherPc, order : OrderIds \union {NoId},
                  postTask : PostTaskIds \union {NoTask}, publishTask : PublishTaskIds \union {NoId}]
LinkRun  == [pc : LinkPc, task : PublishTaskIds \union {NoId}, orders : SUBSET OrderIds]
GenRun   == [pc : GenPc, order : OrderIds \union {NoId}, task : PostTaskIds \union {NoTask}]
RetryRun == [pc : RetryPc, row : PostRow]
CertRun  == [pc : CertPc, type : CertificateTypes \union {NoCertificate}]

Idle    == [pc |-> "idle", order |-> NoId, postTask |-> NoTask, publishTask |-> NoId]
NoLink  == [pc |-> "none", task |-> NoId, orders |-> {}]
NoGen   == [pc |-> "none", order |-> NoId, task |-> NoTask]
NoRetry == [pc |-> "none", row |-> NoRow]
NoCert  == [pc |-> "none", type |-> NoCertificate]

TypeOK ==
    /\ submitState \in [Posts -> RowState]
    /\ publishState \in [Posts -> RowState]
    /\ postTaskId \in [Posts -> PostTaskIds \union {NoTask}]
    /\ publishSiteOrderId \in [Posts -> OrderIds \union {NoId}]
    /\ publishSiteTaskId \in [Posts -> PublishTaskIds \union {NoId}]
    /\ postCreatedAt \in [Posts -> Nat]
    /\ certificateStorageType \in [Posts -> CertificateTypes \union {NoCertificate}]
    /\ certificateState \in [Posts -> CertificateState]
    /\ certificateId \in [Posts -> CertificateIds]
    /\ postTaskState \in [PostTaskIds -> RowState]
    /\ batch \in [PostTaskIds -> SUBSET Posts]
    /\ orderState \in [OrderIds -> RowState]
    /\ orderTaskId \in [OrderIds -> PublishTaskIds \union {NoId}]
    /\ orderCreatedAt \in [OrderIds -> Nat]
    /\ publishTaskState \in [PublishTaskIds -> RowState]
    /\ siteStatus \in SiteStatus
    /\ clock \in Nat
    /\ disp \in [Dispatchers -> DispatcherRun]
    /\ link \in [Linkers -> LinkRun]
    /\ gen \in [Callers -> GenRun]
    /\ postJob \in [PostTaskIds -> PostJobPc]
    /\ publishJob \in [PublishJobs -> PublishJobPc]
    /\ retry \in [Retriers -> RetryRun]
    /\ cert \in [Certifiers -> CertRun]
    /\ sweeps \in Nat
    /\ repo \in SUBSET Posts /\ live \in SUBSET Posts
    /\ built \in [PublishJobs -> SUBSET Posts]
    /\ reports \in Nat /\ retries \in Nat /\ requests \in Nat
    /\ publishRequests \in Nat /\ faults \in Nat /\ crashes \in Nat

\* The deploy job of the site has finished: its handler has set the status and
\* is about to generate the first publish order. Or it has done so long ago and
\* the site has been published; the rows of that time have all ended and no
\* statement below would touch them.
Init ==
    /\ submitState = [p \in Posts |-> "absent"]
    /\ publishState = [p \in Posts |-> "absent"]
    /\ postTaskId = [p \in Posts |-> NoTask]
    /\ publishSiteOrderId = [p \in Posts |-> NoId]
    /\ publishSiteTaskId = [p \in Posts |-> NoId]
    /\ postCreatedAt = [p \in Posts |-> 0]
    /\ certificateStorageType = [p \in Posts |-> NoCertificate]
    /\ certificateState = [p \in Posts |-> ""]
    /\ certificateId = [p \in Posts |-> ""]
    /\ postTaskState = [t \in PostTaskIds |-> "absent"]
    /\ batch = [t \in PostTaskIds |-> {}]
    /\ orderState = [o \in OrderIds |-> "absent"]
    /\ orderTaskId = [o \in OrderIds |-> NoId]
    /\ orderCreatedAt = [o \in OrderIds |-> 0]
    /\ publishTaskState = [t \in PublishTaskIds |-> "absent"]
    /\ siteStatus = IF JustDeployed THEN "DEPLOYED" ELSE "PUBLISHED"
    /\ clock = 1
    /\ disp = [d \in Dispatchers |-> Idle]
    /\ link = [l \in Linkers |-> NoLink]
    /\ gen = [c \in Callers |-> IF c = OrderRequest /\ JustDeployed THEN [NoGen EXCEPT !.pc = "find"] ELSE NoGen]
    /\ postJob = [t \in PostTaskIds |-> "none"]
    /\ publishJob = [j \in PublishJobs |-> "none"]
    /\ retry = [r \in Retriers |-> NoRetry]
    /\ cert = [c \in Certifiers |-> NoCert]
    /\ sweeps = 0
    /\ repo = {} /\ live = {} /\ built = [j \in PublishJobs |-> {}]
    /\ reports = 0 /\ retries = 0 /\ publishRequests = 0 /\ requests = 0 /\ faults = 0 /\ crashes = 0

-----------------------------------------------------------------------------
(* The queries. *)

\* The user has a post that a post or publish task is working on, a publish
\* order that is being published: the NOT EXISTS clauses of both queries.
SomePostDoing == \E p \in Posts : "doing" \in {submitState[p], publishState[p]}
SomeOrderDoing == \E o \in OrderIds : orderState[o] = "doing"

DispatchableOrders ==
    {o \in OrderIds : /\ orderState[o] = "pending"
                      /\ siteStatus \in {"DEPLOYED", "PUBLISHED", "PUBLISH_FAILED"}
                      /\ ~SomeOrderDoing
                      /\ ~SomePostDoing}

\* No certificate was asked for, or there is one.
HasCertificate(p) == certificateStorageType[p] = NoCertificate \/ certificateId[p] # ""

\* Mutation: the query of posts forgets the clause on the user's posts.
DispatchablePosts_IgnoresPosts ==
    {p \in Posts : submitState[p] = "pending" /\ HasCertificate(p) /\ ~SomeOrderDoing}

DispatchablePosts ==
    {p \in Posts : /\ submitState[p] = "pending"
                   /\ HasCertificate(p)
                   /\ ~SomePostDoing
                   /\ ~SomeOrderDoing}

\* ORDER BY createdAt ASC, first row.
Oldest(S, createdAt) == CHOOSE x \in S : \A y \in S : createdAt[x] <= createdAt[y]

\* The newest row with a property; tasks and orders get increasing ids.
Newest(S) == CHOOSE x \in S : \A y \in S : y <= x

PublishTasks == {t \in PublishTaskIds : publishTaskState[t] # "absent"}
PendingPublishTasks == {t \in PublishTaskIds : publishTaskState[t] = "pending"}
PendingOrders == {o \in OrderIds : orderState[o] = "pending"}

\* Jobs of the worker queue that are active or waiting.
LivePostJobs == {t \in PostTaskIds : postJob[t] = "active"}
LivePublishJobs == {j \in PublishJobs : publishJob[j] \in {"active", "building"}}
QueuedJobs == Cardinality(LivePostJobs) + Cardinality(LivePublishJobs)

\* hasTaskInProgress, the check in front of the administrator's endpoints.
HasTaskInProgress ==
    \/ \E t \in PublishTaskIds : publishTaskState[t] = "doing"
    \/ \E t \in PostTaskIds : postTaskState[t] = "doing"
=============================================================================
