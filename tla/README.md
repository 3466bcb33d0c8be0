# Meta CMS backend: specification and proofs

The Meta CMS backend (NestJS, TypeScript) takes signed posts from its users, submits them to the
Git repositories of their sites and publishes the sites. This directory holds TLA+ modules of it:
of the *publishing pipeline* (`src/src/api/pipelines`), where most of the work and the trouble is;
of the rows and the names of sites (`src/src/api/site`, `src/src/api/provider`); and of the older
half of the backend that is still served (`src/src/api/task`, `post`, `synchronizer`,
`real-time-event`, `management/migrate`). Beside them are the TLC configurations that check the
modules on small instances, and theorems about them that TLAPS checks for every instance.

Paths below are relative to the repository; PO, PT, SO, ST, WD stand for the logic services
`post-orders`, `post-tasks`, `site-orders`, `site-tasks` and for
`worker-tasks.dispatcher.service.ts` in `src/api/pipelines`.

    PipelineTables            rows, handlers in flight, queries, initial state
      PublishLinking          generatePublishSiteOrder, linkOrGeneratePublishSiteTask
        WorkerTasksDispatcher the dispatcher: from a pending order to a job of the queue
        WorkerJobs            post and publish jobs, their finish and fail handlers, restart
      PostCertificates        upload of a post's certificate
        PostOrders            new posts, sweep of failed posts, retry
          PublishPipeline     all of them together; fairness; the properties
            PublishPipeline_proofs             TypeOK is invariant
              PublishPipeline_ownership_proofs nothing is left doing without an owner
                PublishPipeline_outcomes_proofs  what the rows of a post report has happened; retries
                  PublishPipeline_lifecycle_proofs  one job at a time; published is on the site; the refinement
            MCPublishPipeline                  model values and constraints for TLC
    PostLifecycle             what the user is promised about a post (abstract)

    SiteDeployment            the deployment of several users' sites by one dispatcher
      SiteDeployment_proofs   types; nothing is left DEPLOYING or doing without an owner;
                              nothing disturbs a deployment or undoes it
      MCSiteDeployment        model values and constraints for TLC

    SiteConfigStore           site infos, configs, storages and publishers: requests over stale rows
    SiteDomains               DNS records and the custom domains of the pages
      MCSites                 one of the two at a time, for TLC
        Sites_proofs          the invariants of both, and of MCSites

    TaskChains                chains of legacy jobs, their promise, the working directory's lock
      LegacyTasks             deployments, publications and posts made of such chains
    LegacyPosts               requests that carry posts: verification, rows, tasks
    PostListings              the lists of posts, from the repository and from the pages
    Synchronizer              access tokens, and the import of posts
    RealTimeEvents            the sockets of a user and the counts they show
    PostMigration             the migration of old posts to post orders
      PostServices_proofs     the invariants of the last four
      MCPosts                 one of the six at a time, for TLC
        LegacyPosts_proofs    what legacy rows are inserted and linked; which tasks end them, and how;
                              the invariants of MCPosts

PublishPipeline is one user's posts and publications in every detail; SiteDeployment is several
users, their deployments in every detail, and their posts and publications in one step per
dispatch and per job. They share no state: what they have in common is the code. The other modules
are parts that meet in the database and in Redis only through rows that each of them keeps for
itself; MCSites and MCPosts check several of them in one run, each behaviour being about one part
(`subject`), because their product has no behaviour that the parts do not have.

Run a check with `tlc -config PublishPipeline_<run>.cfg MCPublishPipeline.tla` (or
`SiteDeployment_<run>.cfg MCSiteDeployment.tla`, `MCSites_sites.cfg MCSites.tla`, `MCPosts_posts.cfg MCPosts.tla`), a proof with `tlapm SiteDeployment_proofs.tla`.

## 1. The system

### Components, their state and their operations

| component | state | operations that change it | in |
|---|---|---|---|
| post orders (PO) | `post_order_entity`: `submitState`, `publishState`, `postTaskId`, `publishSiteOrderId`, `publishSiteTaskId`, certificate columns | save, retry, sweep of failed posts, doing/finish/fail of a submission and of a publication, links to orders and tasks | PostOrders, WorkerTasksDispatcher, WorkerJobs, PublishLinking |
| certificates (PO, `provider/metadata-storage`) | the certificate columns; an upload in flight | `handleCertificate`, `doUploadCertificate` | PostCertificates |
| post tasks (PT) | `post_task_entity.state`; the list of posts in the job | batch all pending posts, doing, finish, fail | WorkerTasksDispatcher, WorkerJobs |
| publish orders (SO) | `publish_site_order_entity`: `state`, `publishSiteTaskId` | generate or reuse, link, doing, finish, fail | PublishLinking, WorkerTasksDispatcher, WorkerJobs |
| publish tasks (ST) | `publish_site_task_entity.state`; `site_config_entity.status` | link or generate, doing, finish, fail, update of the domain | the same |
| dispatcher (WD) | nothing but its two queues | poll, select the oldest order, dispatch; finish, fail and report of a job; three administrator endpoints | WorkerTasksDispatcher, WorkerJobs, SiteDeployment |
| deploy orders and tasks (SO, ST) | `deploy_site_order_entity`, `deploy_site_task_entity`, the status | save or retry an order, dispatch, finish, fail | SiteDeployment |
| site configuration (`site`, `provider/storage`, `provider/publisher`) | rows of site infos, configs, storages, publishers | create, edit, delete; every status update rewrites the row it read | SiteConfigStore; the status alone in the pipeline modules |
| DNS and pages (`provider/dns`, `provider/publisher`) | nothing; the zone and the pages are external | list, patch or post a record; timers that set the domain of the pages | SiteDomains |
| legacy task workers (`task`, `task/workers`) | chains of Bull jobs, promises, a workspace key with a TTL in Redis, `post_site_config_rela_entity` | dispatch, next step, renew, release, time out; the stages of deployments, publications and posts | TaskChains, LegacyTasks |
| legacy posts (`post`, `meta-signature`) | the rows of posts and sites of a request, the workspace keys | publish, update, delete, move; list | LegacyPosts, PostListings |
| synchronizer (`synchronizer`, `post.controller.ts`, `token`) | `access_token_entity`, a key in Redis | bind, unbind, enable; trigger and poll | Synchronizer |
| real-time events | the open connections of each user | connect (awaits the token's verification), disconnect, notify | RealTimeEvents |
| migration of old posts | `post_order_entity`, made from legacy posts; the jobs of a queue | request, list, convert, save; stalled jobs run again | PostMigration |
| authorization, domains, themes, images, microservices, glue | none, or read-only | | no state machine |

### How they interact

A *post order* is saved with both states pending. The user's request does not wait for what
follows. An upload of the certificate, if one was asked for, runs beside everything else and fails
the whole post if it fails twice. The *dispatcher* is polled on an interval and after every job
(`requestNextTask`); under the WIP limit it reads the oldest pending publish order and the oldest
pending post order whose user has nothing doing, and dispatches the older one. A post order becomes
a *post task* with **all** pending posts of the user and a job of the worker queue. A publish order
becomes a *publish task* with all the pending and failed orders and posts of the user. When a worker
ends a job the queue calls `finishTask` or `failTask`. The finish handler of a post task generates or
reuses a pending *publish order* and links the posts to it; the order's event handler links orders
and posts to a pending publish task. The finish handler of a publish task finishes the orders and
posts of the task and sets the site's status. A retry of a failed post reads its row, changes it,
possibly starts an upload or emits the event that generates a publish order, and saves the row.

Before any of that a *deploy order* is saved, one per site. The dispatcher reads three candidates,
the oldest deploy order, publish order and post order of *all* users, and dispatches the oldest of
them. A deployment makes a *deploy task*, sets task, order and site to doing, doing and DEPLOYING, and
queues the job; `finishDeploySiteTask` or `failDeploySiteTask` takes the three back in the same
order, and a finished deployment generates the first publish order. A user whose deployment failed
asks again: the request puts the order back to pending and, without waiting for it, the site back to
CONFIGURED.

Nothing is a transaction. Every statement above is an `await` of its own, handlers interleave at
each of them, and what keeps them apart are three conventions: the `NOT EXISTS` clauses of the two
queries, the site's status, and updates that select rows by the id of their task.

### What is hard

- *Handlers between two statements.* A link handler reads the newest publish task, and the
  dispatcher makes it doing before the handler links orders and posts to it.
- *Stale saves.* A retry, the sweep of failed posts, and every status update save rows they read
  before other handlers changed them.
- *Failures.* A dispatch, a job, an upload or the update of the domain may fail, the last one after
  half of the rows have been written and with nobody to resume it.
- *Restarts.* Rows and jobs survive, handlers in flight do not.
- *Reports.* A worker may report one post of a job as failed and go on.
- *Two dispatchers.* The administrator's endpoints dispatch beside the queue's consumer.
- *One queue for everybody.* The dispatcher tries the oldest order of all users, and what it does
  when a dispatch throws is to log it.
- *Progress.* A pending order is only ever taken up by the next poll, while link handlers keep
  moving it between tasks.

In the other parts:

- *Stale rows of sites.* A request saves a whole config it read several statements before, and a
  provider is inserted, named and deleted in separate statements.
- *Names shared by sites.* DNS records are found by their content, which the sites of an owner share;
  timers go on setting the domain that a site had minutes ago.
- *Locks with a lifetime.* The working directory of a site is a key that expires, that a timer renews
  without looking, and that a task deletes after it has read it. A timeout gives up a chain that goes on.
- *Requests made of parts.* Posts are verified side by side, and rows and tasks follow one after
  the other with nothing to undo them.
- *Checked, then set.* A synchronization reads its key and writes it two statements later; a count is read
  and its key deleted.
- *Sockets that close too early*, while their token is verified or a count is read for them.
- *Jobs that run again.* A stalled job of the migration starts over, with what it has queued still there.
- *Lists that take time.* A tree is fetched, and then its blobs; the address of a site is cached under an
  id that two tables count.

What makes the pipeline correct: a post the user is told is published is on the site, and one that
is not told so can be retried; the two jobs that work on a user's repositories exclude each other;
nothing is left in `doing` or `PUBLISHING`, which would block the user for good, unless a process
still works for it; every pending order ends. What makes the other parts correct is of the same kind:
a config names providers that exist; a name leads to the site that was published under it last; a row
says SUCCESS only of a post that was pushed; no row is there for a post that was refused; one spider
runs; a list is of one commit; a post is migrated once and as what it is on the site.

## 2. Model and code

**One action per database statement.** A handler is a record with a program counter and what the
code holds in local variables (`disp`, `link`, `gen`, `retry`, `cert`, and the worker jobs with their
handlers in `postJob`, `publishJob`). Consecutive code without an `await` is in the same action as
the statement it precedes. Every action leaves everything else to interleave.

**Tables are functions per column**, so that a bulk `UPDATE ... WHERE` is one comprehension that
reads like the statement. Rows are never deleted; a row not inserted yet is `"absent"`. Publish
orders and tasks get increasing ids in the order of their creation, and one `clock` gives the
`createdAt` values the dispatcher compares.

**One user, one site.** Every query and every update filters on the user or on ids of the user's
rows, so rows of two users never meet. What users share is the dispatcher and the WIP limit: that is
SiteDeployment. In PublishPipeline the deploy job has ended (`JustDeployed`: its finish handler is about
to generate the first publish order) or ended long ago. That handler and a user who asks for a
publication (`RequestPublish`) both only generate an order and share the caller `OrderRequest`.

Particular translations:

- `save` of TypeORM writes back every column that differs from the database: a retry's save makes
  the row what it was in memory (`RetrySave`).
- A retry that finds nothing failed throws and changes nothing: it is not a step. A retry and the
  read it begins with are one step. An update with `In([])` or an empty id changes nothing
  (`UpdatePublishOrderId` with `NoTask`).
- `getDoingPublishSiteTask` returns an object whether it finds a task or not (ST:215), so a site
  that is PUBLISHING and recently updated ends the dispatch (`CheckPublish`); whether ten minutes
  have passed is a free choice.
- A site's status is checked by `generatePublishConfigAndTemplate` again, so a dispatch can fail
  because another handler has just ended a publication (`DispatchPublish`).
- `updatePublishSiteTaskId` also updates `post_task_entity`; no query reads the column it sets, and
  it is left out. `site_config_entity` is reduced to its status and each status update to one step;
  SiteConfigStore has the row, and reads it before it saves it.
- The worker is outside of the repository. A post job that completes has pushed the posts it
  carries; one that fails has pushed any of them, because its container may end with an error, or end well and
  not be removed. A publish job copies the repository and publishes the copy, before it fails or not at all.
- Both attempts of `handleCertificate` may fail; the attempts inside `upload` (p-retry) count as one.
- Certificates, signatures and post contents are data; a certificate id is present or not.

**SiteDeployment** has several users with one configured site each. Each request (`request`), each
dispatcher (`disp`) and the handler at the end of a job (`job`) have a program counter; rows are
numbered and one `clock` gives the `createdAt` of all three kinds of orders, which decide whose turn it is.

- The status update that a repeated request starts and does not await is a process of its own
  (`configuring`, `ConfigureSite`).
- `getBySiteConfigUserId` returns any of several orders of a user; nothing makes them unique.
- `Overlapping = FALSE` is the assumption the comment at SO:81 makes about the front end: a user asks
  only when none of his orders is pending or doing and no request of his is on its way. The second
  assumption is about time: a deploy job, a container that fills a repository, does not end before
  the few statements of a request of the same user have (`Served` in `DeployCompleted`, `DeployFailed`).
- Posts and publications compete with deployments and are coarse: one post and one publish order per
  user; a dispatch of them is one step that succeeds, fails, or throws for the site's status; the
  end of a publish job is two, because the order ends before the status is set. The dispatcher's three
  queries and every statement of a deployment are steps of their own.
- One dispatcher is the consumer of the dispatch queue, the others are requests of the administrator: `NextTask`
  runs the same three queries, `DeploySite` checks `HasTaskInProgress` and dispatches the deployment of a site.
  A request with `autoFailed` fails its task at once, as a dispatch does that throws after the task is doing.
- `EarlyPosts` lets users save posts before their site is deployed. The API takes them: `savePostOrder`
  looks at no site. With `FALSE` the front end is assumed to wait.

**SiteConfigStore** has one record per request with the rows it has read. `save` of TypeORM inserts a row
that has been deleted meanwhile and writes back what the request holds. The body of a POST is stored as it is, with
types and ids of providers that may not exist (`Bodies`); a PATCH is stripped of those columns but not of `id`, which
the merge copies, so that the row that was read is saved over that of another config, info or provider (`Targets`, `SaveInfo`,
`SaveProvider`). Two histories record what becomes of a provider at the saves themselves: `adopted`, that a row has come to name it
without the request that created it, and `abandoned`, that a row or a request has lost it. Prefixes stand for all columns an edit may set; `other` for the columns of a CDN or a CI; the
status and the columns that decide nothing are read and saved with these, and left out. A PATCH whose body carries another
user's `userId` or the object of a relation is not modelled. Ids are never used twice; the unique index on the
prefix and the foreign key of the info are guards. **SiteDomains**: `createRecord` and
`patchRecord` make an `Error` and do not throw it, so a publication ends well whatever the zone said
(`refused`); the three timers of `updateDomainName` fire in any order; the health check finds the name,
or not, whatever the record says; the column a user edits is the one read by the next publication.

**TaskChains** and **LegacyTasks**: a task is what is left of its chain of jobs. The promise may be rejected by
its timer while the chain goes on; a restart loses promises and timers, not jobs. A workspace is a number,
given out once. A request is the list of its stages, and each stage is the statement or the task it
awaits. The repository of the storage is missing, empty or filled; a template is left out. `registered`
is any set of methods, the empty one included: the worker modules are commented out in `tasks.module.ts`.

**LegacyPosts**: posts are data with a digest and a signature that are absent, good or bad; verifications of
the posts of a request interleave, the first refusal ends the request, and the others go on and upload (`Verifying`). Rows are found again by the key of their title, as the code does, and
not by their ids. **PostListings**: a version of a file stands for its blob, so that what a list holds can be
compared with what the repository has held (`seen`); `path.includes` finds the folder of a theme's demo too
(`IsIn`). Pushes are external. The cache swallows its errors, so each of its calls may do nothing.

**Synchronizer**: `AccessTokenService.remove` returns between the start of its transaction and its end.
What the connection sees afterwards, until another transaction is started on it, is modelled as MySQL's
repeatable read (`pooled`), so a request may pass or be refused by a token that is not there any more, or not yet. The spider is external; the key of a running synchronization lives a minute. `races` counts how often two synchronizations of an account could overlap:
a request that passes while another has passed and its spider does not run yet, the end of that minute, and a poll that deletes a key that says syncing.

**RealTimeEvents**: a socket opens, its token is verified, it is registered; it may close at any point. The
list of a user without a socket is a new array that the map does not hold. A change of a user's posts is saved, then announced by
whoever saved it, some after another read that may fail (`AnnounceFails`); a certificate that fails for good changes the count and is not announced (PO:448), nor is
a migrated post (`ChangeUnannounced`); and the count may fail. `superseded` records, whenever an answer is sent, the counts that were over before any handler of that user then
under way began. **PostMigration**: a job is the record
of what it has done so far; a restart stalls the jobs that were active, and Bull starts them again (once
each, `maxStalledCount`). An order's id is the signature, so what is signed twice has two orders.

**Bounds**, all in guards and all constants: rows (`MaxOrders`, `MaxPublishTasks`, `PostTaskIds`),
reports, retries, sweeps in flight, administrator's requests, publish requests, faults, crashes. One retry of each kind
and one certificate upload per starter is in flight per post, one link handler per starter.
`SlowLinks = FALSE` keeps a link handler (four quick statements) from outliving a publish job (a
container that builds a site), to save states; `progress` has it `TRUE`, and so may the theorems. In runs without a
constraint the numbers of rows are large enough for the pipeline never to stop for want of a
row, which the deadlock check confirms; with the constraint `SpareRows` the search ends at states that have
used the last row, which cuts long histories and never an interleaving.

## 3. What TLC checks

Passing runs:

| run | instance | properties |
|---|---|---|
| `failures` | two posts, one failure of anything; or one post of a deployed site, a publish request of the user, a failure and a restart | TypeOK, PublicationIsOwned, DoingPostIsOwned, JobsExclusive, PublishedIsLive, SubmittedWasCarried, ImplementsLifecycle |
| `retries` | two posts saved together, one failure, and an ERRORED report or a retry request; or one post, one failure, a retry request and the sweep | DoingPostIsOwned, PublishedIsLive, SubmittedWasCarried |
| `contention` | one post with a certificate, two failures, a retry request; or without one, a second dispatcher and a request to an endpoint | PublicationIsOwned, DoingPostIsOwned, FinishedCertificateHasId |
| `deployment` | two users, two requests, one of them writes a post; WIP limit of two, one failure, one restart; or one user and two failures; or one user, one failure and a request of the administrator beside the consumer; fairness | TypeOK, DeploymentIsOwned, DeployAlone, DeployedForGood, WaitingIsEnough |
| `progress` | one post with a certificate, two failures, slow link handlers, fairness | OrderSettles, SubmitSettles |
| `sites` | two requests over two configs of one info, or over one config with storages or with publishers, or two configs, one request after the other, and one interrupted; two sites of two owners, two publications, one refusal of the zone | TypeOK, NamedProviderExists, NoForgottenPublisher, RecordFollowsSite, CnameLeadsToPages |
| `posts` | nine subjects, see below | TypeOK, SuccessIsPushed, WorkIsOwned, ReturnedRowsAreLinked, RowsAreOfPassedPosts, OneSpider, RegisteredIsOpen, SupersededIsNotShown, OrderedOnce, RecordedIsComplete, OrderMatchesSite, ListIsOfOneCommit, PagesAreOfThePublisher |

The subjects of `posts`: one legacy request with any failure, timeout and restart (`task`), and two of one site
without timeouts and restarts (`pair`); two requests that carry up to two posts for up to two sites
(`posts`); two triggers, two polls and two connections (`synchronizer`); three sockets of one user and a
change of his posts, or two and three changes, of which two may be announced at once (`sockets`); two administrators' requests for one user with two posts, one of them on no page (`migrations`), or
one and up to two restarts (`restarts`); one list of two files while two commits are pushed (`repository`);
two lists of pages, three publishers in two tables (`pages`).

*Ownership* (PublicationIsOwned, which is DoingOrderIsOwned and PublishingIsOwned, and DoingPostIsOwned) is the property behind "the user
is not blocked for good": a row that is doing belongs to a task whose dispatcher is about to queue
the job, or whose job or handler is at work, or whose handler was cut off by a restart or by the
failed update of the domain. It relates the columns that link handlers rewrite at any moment to the
handlers that will clear them. *JobsExclusive* says the two queries and the status are as good as a
lock. *PublishedIsLive* and *SubmittedWasCarried* relate what the user is told to what is in the
repository and on the site. *ImplementsLifecycle* is a refinement: the two states of a post, mapped to
the stage they mean to the user, only make the steps of PostLifecycle, without retries and
certificates (a retry's save may undo a step, see the findings). *FinishedCertificateHasId* holds
although `SavedCanBeRetried` does not: a stale save may lose the id, but never leaves the state
saying otherwise.

For deployments, *DeploymentIsOwned* is the same question; *DeployAlone* and
*DeployedForGood* say that neither a late status update nor a second request from stale rows starts a
second deployment of a site or undoes one; *WaitingIsEnough* is the promise of the comments at SO:99
and SO:100: a user with a deploy order need not do anything but wait, until the site is deployed or is
DEPLOY_FAILED, which invites to try again. It excepts a user whose own retry has overtaken him (`Overtaken`:
the status update that SO:95 starts and nobody awaits comes after the dispatched order has failed again, so that the
site is CONFIGURED, its order failed, and another request finds nothing to do; TLC needs a second failure for it).
It also excepts a user whose handler a restart has cut off, and
everybody once a restart has left a site PUBLISHING: the next post of that site is dispatched in vain again
and again, ahead of all younger orders. Without either exception TLC finds the loop.
The administrator's part of the run (`AdministratorApart`) is about ownership only; the other three are stated as long as
he has asked for nothing (below).

For the other parts the properties say what the code achieves although its statements interleave, and name
the histories in which it does not; most exceptions are history variables, without which TLC refutes the property:

- *NamedProviderExists*: for every provider but one that a save has put into a row that did not name it (`adopted`): a row
  read before the provider was deleted, or under another id, or the body of a POST. *NoForgottenPublisher*: for every publisher
  but one that was lost at one of five places (`abandoned`): a save of a row read before it was named, the deletion of its config, the
  end of the request that was to name or delete it, an update that inserts it again. Requests that overlap in any other way
  are covered: a provider is named after it is inserted and forgotten before it is deleted, and a second publisher is refused.
- *RecordFollowsSite*: after a publication the zone has the site's name, unless it refused it, publications crossed,
  or another site of the owner took the record over (the two sites of the run have two owners, so that this one is
  in the theorem only). *CnameLeadsToPages*: the domain of the pages is set only to a name
  that leads to them, with the same exceptions.
- *SuccessIsPushed*: for a row that shares its directory with no other, as long as the site had one directory.
- *WorkIsOwned*: no row is left DOING, and no site DEPLOYING, unless by a restart, by a request that lost its directory,
  or by two deployments at once.
- *ReturnedRowsAreLinked*: whoever gets ids back has one row per post and site, each known to a task.
  *RowsAreOfPassedPosts*: no row before all posts of the request have been verified and checked.
- *OneSpider* is a bound, with the races in it: an account has one spider, running or about to, and one more for each time that two requests overlapped, the
  key expired, or a poll deleted the next key (`races`). However they come together, none costs two.
- *RegisteredIsOpen*: unless the socket closed while its token was verified (`lateSockets`). *SupersededIsNotShown* has no exception, and claims less
  than one would like: once an answer has been sent, no open socket of the user shows a count that was over before the oldest handler then under way began.
- *OrderedOnce*, *RecordedIsComplete*, *OrderMatchesSite*: unless the user was queued while under way (`crossedOwners`), a
  post's job failed (`lost`), or a list did (`unlisted`).
- *ListIsOfOneCommit*: without exception, because blobs are read by the SHA of the tree. *PagesAreOfThePublisher*: the
  address may be that of the other table's publisher with the same id, or up to an hour old (`staleIds`).

Why the bounds are enough: two posts are the least with which one can join an order late and one
task carries several; three post tasks allow for the second submission of a post to overlap the first
one's end; two or three publish orders and three to seven publish tasks let an order be moved while a task is
doing and be published by the next; one retry request and one sweep are the two that can meet on a
row, and one of two posts of a task that fail together is retried while the other waits; two failures are what an upload needs to fail; two users are a queue with somebody ahead, and
two deploy requests are either two users or a failed deployment and its retry. Two posts and everything at once is out of
TLC's reach; a new config names a provider, a type alone or an id alone, one kind of provider at a time; in the other parts two of everything that can meet on a row, a key or a name are enough for
every pair of statements to interleave, and a third socket is one that comes while two others go; the proofs below cover any number of everything for the properties they are about.

What is *not* claimed, because TLC finds it false and the code nowhere promises it:

- JobsExclusive with ERRORED reports, requests to the endpoints, two dispatchers, or a certificate that fails
  while its post's job runs: each dispatches a second job beside the first.
- JobsExclusive when a request's retry and the sweep meet on one post: one of them saves, the post is dispatched, and the
  other saves the row it read before, which takes the post out of doing while its job runs, so that a publication the user
  asks for is dispatched beside it.
- DoingPostIsOwned when a certificate, a request's retry and the sweep meet on one post: the sweep
  reads a row whose submission is doing and whose publication has failed, and saves it after the job has ended.
- PublishedIsLive, DoingPostIsOwned and SubmittedWasCarried with an ERRORED report and retries. A post of a task is
  reported, the other one is submitted, its publication fails and is retried, and the event of that retry gives the
  reported post a publish order too (`unsubmitted` below). Retried itself while the dispatcher has already selected that order, it
  is published without being in the repository and submitted afterwards: both states are finished, and it is on no
  site. If that publication fails while its submission goes on, a third retry reads submission doing and publication
  failed, and saves that after the job has ended (DoingPostIsOwned), or while a later job reports on it (SubmittedWasCarried).
  TLC finds these with two posts, two or three retries and one or two failures.
- ImplementsLifecycle with retries or certificates.
- That an open socket shows the latest count when no change is under way: two answers may overtake each other, and a failed
  certificate or a failed read after a change leaves it unannounced.
- That a status is changed by its writers alone: an edit or a request to a provider saves the row it has read, and puts the
  status of that time back.
- That a request to synchronize is refused only for want of a token: after an account without a token has been unbound, a pooled connection
  shows the rows of that moment.
- DeployAlone and DeployedForGood with `Overlapping = TRUE` and three requests of one user: two requests that
  both read DEPLOY_FAILED save the same order twice, the second time while the first deployment runs or
  has ended. Without overlap three requests of two users change nothing.
- DeployAlone, DeployedForGood and WaitingIsEnough beside a request of the administrator: both dispatchers may read a
  site as CONFIGURED before either makes it DEPLOYING, two jobs fill its repository, and the end of the second
  takes a deployed site back; if a failed one is tried again meanwhile, the site may be CONFIGURED with an order that
  is failed, which nothing dispatches. Ownership holds nevertheless.
- A restart between the two updates of a retried request: the site is CONFIGURED and the order failed, which
  no request and no dispatch ever changes (SO:89, SO:95).

### Disagreements with the code's own comments

Each is a run that TLC refutes, with the comment it refutes quoted in PROJECT.json.

| run | the comment says | the code does |
|---|---|---|
| `left_behind` | SO:301, a later publish task takes everything along | a post linked to a reused order while the order is being taken keeps `publishState` pending with its order finished |
| `unretriable` | PO:257, what was saved can be retried | the save of a retry erases the id its own upload has written; nothing is failed, so nothing can be retried |
| `unsubmitted` | PO:350, a retried publication starts from a successful submission | it takes along the failed posts of the same post task and reports them as published |
| `head_of_line` | SO:99, a user with a configured site only has to wait | a post saved before its site is deployed is selected for good; its dispatch throws and no younger order of anybody is dispatched |
| `stuck_site` | WD:345, a site without a doing task is repaired | the branch is dead |

The save behind `unretriable` also overwrites the publish order that the event of a retry has just
linked (PO:374); that is the same stale save and has no run of its own.

### Fairness

`FairSpec` has weak fairness for every handler that was started (the process runs its promises), for the
dispatcher (polled by `@Interval`), for uploads (they return or throw) and for workers (Bull ends a job as completed or
failed). Weak is enough: nothing but the handler itself disables its next statement, apart from
the dispatcher's poll, which stays enabled while the WIP limit allows. Nothing is assumed about users, the
administrator, reports, restarts, and nothing forces a failure. SiteDeployment is the same:
requests, the update nobody awaits, each dispatch that was begun and the ends of jobs are fair, users are not. `OrderSettles` and
`SubmitSettles` except histories in which a handler was abandoned: the code has nobody to resume those.

## 4. What is proved

For every value of the constants under the ASSUMEs of the modules (bounds are naturals, names of different
things differ, the WIP limit is positive, the posts and sites of a request are sequences and not empty), which TLC evaluates in
the runs. What a theorem assumes beyond that is in its row.

| module | theorem | says | assumes |
|---|---|---|---|
| PublishPipeline_proofs | `TypeCorrect` | `[]TypeOK` | |
| PublishPipeline_ownership_proofs | `PublicationsOwned` | `[]PublicationIsOwned` | |
| PublishPipeline_outcomes_proofs | `CertificatesFound` | `[]FinishedCertificateHasId` | |
| | `PostsOwned` | `[]DoingPostIsOwned` | `NoRetries \/ FailTogether` |
| | `SubmissionsCarried` | `SubmittedWasCarried` | `NoRetries \/ FailTogether` |
| PublishPipeline_lifecycle_proofs | `OneJob` | `[]JobsExclusive` | one dispatcher, no endpoint requests; `FailTogether`; retries of the user or of the sweeps, not both |
| | `PublishedOnSite` | `[]PublishedIsLive` | one dispatcher, no endpoint requests; `NoRetries \/ FailTogether` |
| | `PostsFollowLifecycle` | `ImplementsLifecycle` | one dispatcher; `NoRetries`; no certificates |
| SiteDeployment_proofs | `TypeCorrect` | `[]TypeOK` | |
| | `DeploymentOwned` | `[]DeploymentIsOwned` | |
| | `DeploysAlone` | `[]DeployAlone` | `~Overlapping` |
| | `StaysDeployed` | `DeployedForGood` | `~Overlapping` |
| Sites_proofs | `StoreTypeCorrect`, `DomainsTypeCorrect` | `[]StoreTypeOK`, `[]DomainsTypeOK` | |
| | `BothSubjects`, `SitesTypeCorrect` | of MCSites: `StoreSpec /\ DomainsSpec`; `[]TypeOK` | |
| | `OneRecord` | `[]RecordFollowsSite` | |
| | `DomainLeadsToPages` | `CnameLeadsToPages` | |
| | `ProvidersExist` | `[]NamedProviderExists` | |
| | `PublishersKept` | `[]NoForgottenPublisher` | |
| LegacyPosts_proofs | `PostsTypeCorrect` | `[]PostsTypeOK` | |
| | `RowsPassed` | `[]RowsAreOfPassedPosts` | |
| | `RowsLinked` | `[]ReturnedRowsAreLinked` | |
| | `TasksTypeCorrect` | `[]TasksTypeOK` | |
| | `SuccessPushed` | `[]SuccessIsPushed` | |
| | `WorkOwned` | `[]WorkIsOwned` | |
| | `AllSubjects` | of MCPosts: `Spec` implies the specification of each of its six components | |
| | `RunTypeCorrect` | of MCPosts: `[]TypeOK` | |
| PostServices_proofs | `ListingsTypeCorrect`, `SynchronizerTypeCorrect`, `RealTimeTypeCorrect`, `MigrationTypeCorrect` | `[]` of the four type invariants | |
| | `OneCommit` | `[]ListIsOfOneCommit` | |
| | `PagesOfThePublisher` | `PagesAreOfThePublisher` | |
| | `OneSpiderRuns` | `[]OneSpider` | |
| | `OpenIsRegistered` | `[]RegisteredIsOpen` | |
| | `SupersededIsGone` | `[]SupersededIsNotShown` | |
| | `MatchesSite` | `[]OrderMatchesSite` | |
| | `OneOrder` | `[]OrderedOnce` | |
| | `NoneForgotten` | `[]RecordedIsComplete` | |

The assumptions of the fourth column are bounds set to zero or a set to one element. One dispatcher is what the code has
as long as the administrator does not use his endpoints: the consumer of the dispatch queue handles one job at
a time. `~Overlapping` is the front end, which offers the button only to a user who waits for nothing. `NoRetries` is no requests to retry and no sweeps. `FailTogether` is no certificates and no ERRORED reports: whatever
fails then is a whole dispatch or a whole job, and with it all posts of its task; retries and sweeps are as many as one likes.

These assumptions are about what the properties need, not about what could be proved. With ERRORED reports and retries
PostsOwned, SubmissionsCarried and PublishedOnSite are false, with certificates and both kinds of retry PostsOwned is;
OneJob is false with reports, with certificates that fail, with both kinds of retry, and with two dispatchers; PostsFollowLifecycle
with retries or certificates; and the two theorems on deployments with what they exclude (section 3, "not claimed", has
the histories). Open are SubmittedWasCarried and PublishedIsLive with certificates and retries but no reports, the latter with two
dispatchers, and OneJob with certificates that do not fail. Faults, restarts, slow link handlers and the numbers of rows,
posts and users are arbitrary everywhere.

### The publishing pipeline

The type proof has one lemma per handler; records with a program counter are treated with the
values they are updated to. DoingOrderIsOwned is not inductive: after `DoingPublishOrders` the owner is
the dispatcher, so the dispatcher's own task must exist (`DispatcherHasTask`), and
the argument that no step takes a doing order away from its task rests on `LinkOrders` moving
pending and failed orders only. A step that ends a job must leave none of the task's orders
doing: `FinishPublishOrders` and `FailPublishOrders` update *by the task id, whatever the state*,
which is exactly what the proof uses. The inductive invariant is

    OwnershipInv == TypeOK /\ DispatcherHasTask /\ DoingOrderIsOwned /\ PublishingIsOwned

For posts the update goes by task id *and* `submitState = doing`, and a retry may give a post
`doing` from a stale row, or a task that is being prepared. `PostInv`, which has `DispatcherHasPostTask` beside the
property, is therefore kept by a step only if `SavesFit`: no retry is about to save a row that says doing, one that says
finished of a post that was never pushed, or one of a post task whose job is not queued yet. That is trivial if nothing
is retried. If posts fail together it follows from `RetryInv`, which says why a stale save is harmless then: the two states of a
post agree (`StatesAgree`: a failed submission has a failed publication, and only pushed posts have a publish
order); what a retry is about to save is linked to nothing, and starts over either with the submission, without a task, or with
the publication of a post that was pushed (`SavesStartOver`); the posts of a task are in the same state of submission
at any time (`TasksAgree`, `TasksWait`); so all posts of the task of a retried publication are submitted, and stay so
(`RetriedTasks`), and the event that links every one of them links submitted posts only. An ERRORED report breaks `TasksAgree`, and
with it the rest. `SavesInv` joins the two cases, and is what PostsOwned and SubmissionsCarried are proved from.

FinishedCertificateHasId is not inductive either: a retry saves the row it has read, whatever an upload has
done since. `CertificateInv` adds `SavedRowFits`, that the row about to be saved has an id if it says the
certificate is finished; state and id are always read, and always saved, together.

SubmittedWasCarried is a property of steps: only `FinishSubmitPost` ends a submission well, and `CarryInv`, kept
together with `PostInv`, says what it finds. The task a dispatcher prepares posts for is that dispatcher's alone and
has no job yet (`TasksApart`, `NewTasksWait`); the posts it has collected are those it is linking
(`BatchIsTask`), so a post that is doing is in the batch of the job of its task
(`CarriedByTask`: a post the job reports as failed leaves both); and the finish handler only starts after the
push (`PushedByJob`). A retry would break `CarriedByTask` by giving a post `doing` after its job has dropped it; `SavesFit`
says it does not.

*OneJob* needs to know why the two queries and the status are as good as a lock, although the status is
written long after the queries. `PublicationInv` is about publications alone: one publish job is busy at most, the site
is PUBLISHING from before the job is queued until after its last update, and a dispatcher that has selected a
publish order has seen no busy job (`PublishesAlone`). `ExclusionInv` adds the posts: an active post job still has
a post that is doing, which is what the queries count (`ActiveHasPosts`; a certificate that fails
takes that post away, hence the assumption), the post a dispatcher has selected is still pending when it queues the job
(`SelectedStays`), and both kinds of job exclude each other (`NeverBoth`, `DispatchesAlone`). Retries are added by `SettledInv`: with one kind of
them a post has one retry at most, nobody else takes it out of failed or finished until the row is saved (`SavesSettled`), and so no save meets
a post that an active job is counted by.

*PublishedOnSite* follows a post from the repository to the site. A link handler may outlive the clone of the repository and
link posts to a task whose site is already built; this does no harm, because no post gets its *first* publish order
meanwhile. That is `SubmitsAlone`: nothing is in submission while a publish job is busy or the dispatcher is on its way to one. `LiveInv`
says that a post with a publish order or task is in the repository (`LinkedIsPushed`) and in every site that is being
built or has been built and not reported yet (`BuiltHasPosts`), and that a site that replaces another has what that one had
(`BuiltFromRepo`), so that `finished` can only be written to posts the visitors see. A retry of a failed publication takes the
link away and lets an event give a new one, which may happen while a site is built. So all of this is said of posts that are
`Known`: linked, submitted, or about to be saved as submitted by a retry (`KnownIsPushed`, `BuiltHasPosts`); and `EventsInv` says
that the event of a retry only ever links such posts, because the posts of its task have all been submitted (`EventsFit`).

*PostsFollowLifecycle* is the refinement: `Init` maps to `Lifecycle!Init` and every step to a step of PostLifecycle or a
stutter. `TaskInv` says that the state of a publish task tells how far its job is. `LifecycleInv` keeps the two states of a post in agreement (`StagesAgree`), says that a post is
linked after it is submitted (`LinkedIsSubmitted`) and published by a task that is finished, which is never dispatched
again (`PublishedByTask`), and that each post task reports on posts that are doing for it
(`BatchesInv`). The handlers that update many posts at once make one step of the lifecycle, which is why its `Move` takes a set
of posts; the lemma `MovesTo` does that part of the argument for all of them.

### Deployments

In SiteDeployment TypeOK is not inductive alone: the user a dispatcher reads from an order must be a user, so
every pending order, every request in flight and each dispatcher's candidate must have one
(`OrdersHaveUsers`). The ownership invariant adds that the task of each dispatcher exists and is one of
its user (`DispatcherHasTask`) and that a job has a task (`JobsHaveTasks`), so that a new task is never
the one that owns a site already.

Two dispatchers may work for one site, and one
may link its order to a task of its own while the other is at work: an order that is doing is owned through the task it is linked to *now*, whoever linked it, and
DEPLOYING through any task of the user.

DeployAlone and DeployedForGood are proved from one invariant, `AloneInv`, which holds while the administrator has
asked for nothing. Its parts tie the rows of a user to whoever works with them: he has one order (`OrdersApart`); an open
order, a doing post and a running publication say what the status can be (`SitesFit`); a job is the only one of its
user, and its order is the one it will end (`JobsFit`); what a request has read still holds when it writes (`RequestsFit`: a
retry is for a user without a job, and nothing but a job that fails overtakes the update it does not await); and so
does what the consumer has read (`Serves`: its order stays pending until it makes it doing). The two properties
follow from `JobsFit` and `SitesFit`, and from looking at every writer of the status. That a retry's late update may still meet the
user's next dispatch is part of the invariant (the status of a live job is DEPLOYING *or CONFIGURED*).

### Sites and domains

For the domains the invariant says whose record each call is about to rename, that a timer that is about to set a domain has found
the record of its name (`Checked`), and that a site whose publications have not crossed has one call under way at
most and one record, if its owner has no other site (`SpaceFits`). For the rows, `StoreInv` says what each request knows
at the statement it has come to (`RequestFits`), that the columns of a kind hold providers of its tables (`ColumnsFit`), and of a provider
that has not been adopted (`ProviderFits`) that one config names it at most, which no request is about to delete it behind, and that the request that has created
it is the only one that knows of it until its config names it.

The types of SiteDomains include a bound on the timers that no single row shows: three for each publication. `TimersInv` counts three for
every publication under a name that has not started its own yet (`Pending`, a finite set), so that the sum never
exceeds three times the publications made, whatever fires, fails or is lost in a restart.

### The legacy half

For LegacyPosts the invariant `PostsInv` says of each request what is known at the statement it has come to (`CallFits`: the stage of each
verification agrees with the digest and the signature of its post, and all posts have passed once rows are
inserted) and of each row that its request is past the verification (`HasRows`). Requests only share the set of uploads,
which grows; so a step of one keeps what is known of the others (`UploadsStay`, `StepKeeps`). `LinkedInv` adds which
rows a request has inserted and linked so far, each to a directory made for its site, and that a later request may link them again, to
another directory of that site, but never unlink them.

For LegacyTasks, `BaseInv` has the types, which stages a request still has ahead (`PlansFit`: the end of one of the
code's lists of stages, or its failure) and that the task it waits for is kept for it (`HeldInv`). SuccessIsPushed follows with `PushInv`: what a
request still has ahead says what has been given, linked, edited and pushed, also for the task it waits for, whose worker may
end after the request has given up. WorkIsOwned follows with `OwnInv`, that a row DOING has a request that will write its state or one
that has lost its directory, and `RolledInv`, that the only deployment of a site has the stage ahead that takes it out of
DEPLOYING and has stored another status to go back to.

For the services: the address or tree a list has read is that of a publisher or commit it was
asked for (`ListingsInv`); no more synchronizations run, or are about to, than the races allow, and one fewer unless the key refuses the next request or is about to (`AccountFits`); a socket is verified
once, and held in its user's list from then until it closes, where it is once (`SocketsInv`, in which the lists are sequences
without repetition), and no handler under way holds, nor does an open socket show, a count that is superseded, while one that began without a list is older than what any socket shows (`CountsInv`); of the migration, what a job knows of its
posts (`JobFits`), that a post is claimed by one job or has one order (`OnceInv`), and that all posts of a user
are on their way once one is (`CompleteInv`).

### Only checked

- Liveness (OrderSettles, SubmitSettles, WaitingIsEnough), which together with ENABLED is beyond the prover.
- DoingPostIsOwned, SubmittedWasCarried and PublishedIsLive where certificates or ERRORED reports meet retries: they are false
  in general (section 3), and hold in the small instances of `contention` (one retry request beside a certificate) and `retries` (a report
  or a retry) because those bound how many of them meet.
- The five claims that are refuted. JobsExclusive with certificates that do not fail is neither checked in a run nor proved.

## 5. Not modelled, and the plan

Left to do, in this order:

1. In LegacyPosts, `setPostState`, `setPostMetadata` and the drafts of the editor: saves of single columns of
   `post_entity`, which no other part reads.
2. Proofs: SubmittedWasCarried and PublishedIsLive with certificates and retries; the locks of TaskChains on their own.

Outside for good: HTTP, guards, JWTs and DTO validation (authorization admits or refuses a request and keeps nothing
between two); domains and themes (read-only; the index that makes a prefix unique is in SiteConfigStore);
messages to other services, sent after the state has been written and never answered; keys and digests, the
clients of Git, IPFS, Arweave and Cloudflare; configuration, schema migrations and logging. They keep no state that another part reads,
or their effect is the success or failure of the call that uses them.
