---------------------------- MODULE LegacyTasks -----------------------------
(***************************************************************************)
(* SiteTasksService and PostTasksService: what the endpoints of tasks and  *)
(* the legacy posts do with the task chains. A request is a list of stages *)
(* that run one after the other; several requests for one site interleave, *)
(* and share its working directory as long as its key lives.               *)
(***************************************************************************)
EXTENDS TaskChains

CONSTANTS
    TitleOf,        \* the title of the post of each request
    ServiceOf       \* the git service of a site's storage: GITHUB or GITEE

PostKinds == {"createPost", "createDraft", "deletePost", "deleteDraft", "publishDraft", "moveToDraft"}
SiteKinds == {"deploy", "publish", "deployAndPublish"}

ASSUME TasksAssumption ==
    /\ ServiceOf \in [Sites -> {"GITHUB", "GITEE"}]
    /\ DOMAIN TitleOf = Posts

VARIABLES
    siteStatus,     \* the column status of the site configs
    repo,           \* external: the storage repository of each site
    flow,           \* the requests: one for each of Posts
    rela            \* the row of PostSiteConfigRelaEntity each post request has inserted

taskVars == <<registered, workspace, used, task, timeouts, restarts, siteStatus, repo, flow, rela>>

SiteStates == {"CONFIGURED", "DEPLOYING", "DEPLOYED", "PUBLISHING", "PUBLISHED"}

\* The statuses a post task, a checkout and a publication ask for.
Live == {"DEPLOYED", "PUBLISHING", "PUBLISHED"}

PostStages ==
    <<"workspace", "link", "begin", "doing", "config", "checkout", "postConfig", "edit", "push", "success">>
DeployStages  == <<"status", "config", "deploying", "workspace", "deploy", "deployed">>
PublishStages == <<"publishConfig", "publishing", "workspace", "publish", "dns", "published">>

\* Mutation: the state is written before the commit is pushed.
Plan_SuccessFirst(kind) ==
    IF kind \in PostKinds
    THEN <<"workspace", "link", "begin", "doing", "config", "checkout", "postConfig", "edit", "success", "push">>
    ELSE <<"config", "workspace", "checkout">> \o PublishStages

Plan(kind) ==
    CASE kind \in PostKinds         -> PostStages
      [] kind = "deploy"            -> DeployStages
      [] kind = "publish"           -> <<"config", "workspace", "checkout">> \o PublishStages
      [] kind = "deployAndPublish"  -> <<"metadata">> \o DeployStages \o PublishStages

Stages == {"workspace", "link", "begin", "doing", "config", "checkout", "postConfig", "edit",
           "push", "success", "fail", "metadata", "status", "deploying", "deploy", "deployed",
           "rollback", "publishConfig", "publishing", "publish", "dns", "published"}

FlowRow ==
    [kind: PostKinds \union SiteKinds \union {"none"}, site: Sites, plan: Seq(Stages),
     generating: BOOLEAN,                        \* the key was absent when it was read
     given: Workspaces \union {NoWorkspace},     \* the workspace the rows were linked to
     workspace: Workspaces \union {NoWorkspace}, \* and the one read for their states
     original: SiteStates, repoEmpty: BOOLEAN,
     task: Tasks \union {0}]

RelaRow ==
    [state: {"TODO", "DOING", "SUCCESS", "FAIL"}, workspace: Workspaces \union {NoWorkspace},
     edited: Workspaces \union {NoWorkspace},    \* external: the directory that holds the edit
     pushed: BOOLEAN]                            \* external: a commit of it has been pushed

\* Types of the keys, tasks, requests and rows.
TasksTypeOK ==
    /\ ChainsTypeOK
    /\ siteStatus \in [Sites -> SiteStates]
    /\ repo \in [Sites -> {"missing", "empty", "filled"}]
    /\ flow \in [Posts -> FlowRow]
    /\ rela \in [Posts -> RelaRow]

NoFlow(s) ==
    [kind |-> "none", site |-> s, plan |-> <<>>, generating |-> FALSE, given |-> NoWorkspace,
     workspace |-> NoWorkspace, original |-> "CONFIGURED", repoEmpty |-> FALSE, task |-> 0]

NoRela == [state |-> "TODO", workspace |-> NoWorkspace, edited |-> NoWorkspace, pushed |-> FALSE]

TasksInit ==
    /\ ChainsInit
    /\ repo \in [Sites -> {"missing", "empty", "filled"}]
    /\ siteStatus \in [Sites -> {"CONFIGURED", "DEPLOYED", "PUBLISHED"}]
    /\ \A s \in Sites : siteStatus[s] = "CONFIGURED" \/ repo[s] = "filled"
    /\ \E s \in Sites : flow = [f \in Posts |-> NoFlow(s)]
    /\ rela = [f \in Posts |-> NoRela]

-----------------------------------------------------------------------------
(* Requests and their stages. *)

InFlight(f) == flow[f].plan # <<>>

At(f, stage) == InFlight(f) /\ Head(flow[f].plan) = stage /\ flow[f].task = 0

SetFlow(f, row) == flow' = [flow EXCEPT ![f] = row]

Done(f) == [flow[f] EXCEPT !.plan = Tail(@)]

\* Mutation: the push is outside of the try.
Catch_NotThePush(f) ==
    IF flow[f].kind \in PostKinds /\ Head(flow[f].plan) \in {"config", "checkout", "postConfig", "edit"}
    THEN <<"fail">> ELSE <<>>

\* Mutation: a failed deployment does not put the status back.
Catch_NoRollback(f) ==
    IF flow[f].kind \in PostKinds /\ Head(flow[f].plan) \in {"config", "checkout", "postConfig", "edit", "push"}
    THEN <<"fail">> ELSE <<>>

\* What catches an error: the try of doCheckoutCommitPush starts after the state
\* DOING is written, the one of doDeploySite after the status is read; publishing
\* has none.
Catch(f) ==
    LET q == flow[f] IN
    CASE q.kind \in PostKinds /\ Head(q.plan) \in {"config", "checkout", "postConfig", "edit", "push"}
           -> <<"fail">>
      [] q.kind \in {"deploy", "deployAndPublish"}
           /\ \E i \in 1..Len(q.plan) : q.plan[i] = "deployed" /\ Head(q.plan) \notin {"metadata", "status"}
           -> <<"rollback">>
      [] OTHER -> <<>>

Thrown(f) == [flow[f] EXCEPT !.plan = Catch(f), !.generating = FALSE, !.task = 0]

Request(f, s, kind) ==
    /\ flow[f].kind = "none"
    /\ SetFlow(f, [NoFlow(s) EXCEPT !.kind = kind, !.plan = Plan(kind)])
    /\ UNCHANGED <<registered, workspace, used, task, timeouts, restarts, siteStatus, repo, rela>>

\* createPost, updatePost, deletePost, publishDraft and moveToDraft, called with
\* the row inserted for the post and the site.
PostRequest(f, s) == \E kind \in PostKinds : Request(f, s, kind)

\* deploySite, publishSite and deployAndPublishSite.
SiteRequest(f, s) == \E kind \in SiteKinds : Request(f, s, kind)

\* checkAndGetSiteConfigTaskWorkspace: read the key, and write a new name if it
\* was absent. A post request keeps what it is given.
GetWorkspace(f) ==
    LET s == flow[f].site IN
    /\ At(f, "workspace")
    /\ \/ /\ ~flow[f].generating
          /\ IF workspace[s] = NoWorkspace
             THEN SetFlow(f, [flow[f] EXCEPT !.generating = TRUE])
             ELSE SetFlow(f, [Done(f) EXCEPT !.given = workspace[s]])
          /\ UNCHANGED <<workspace, used>>
       \/ /\ flow[f].generating
          /\ GenerateWorkspace(s)
          /\ SetFlow(f, [Done(f) EXCEPT !.given = workspace'[s], !.generating = FALSE])
    /\ UNCHANGED <<registered, task, timeouts, restarts, siteStatus, repo, rela>>

-----------------------------------------------------------------------------
(* Post tasks. *)

\* updatePostSiteConfigRelaTaskWorkspaceBySiteConfigId: every row of the site
\* with that title, those of earlier requests too.
LinkRela(f) ==
    /\ At(f, "link")
    /\ rela' = [g \in Posts |->
                  IF flow[g].kind \in PostKinds /\ flow[g].site = flow[f].site /\ TitleOf[g] = TitleOf[f]
                  THEN [rela[g] EXCEPT !.workspace = flow[f].given] ELSE rela[g]]
    /\ SetFlow(f, Done(f))
    /\ UNCHANGED <<registered, workspace, used, task, timeouts, restarts, siteStatus, repo>>

\* The endpoint has returned; doCheckoutCommitPush reads the key.
BeginPost(f) ==
    /\ At(f, "begin")
    /\ SetFlow(f, [Done(f) EXCEPT !.workspace = workspace[flow[f].site]])
    /\ UNCHANGED <<registered, workspace, used, task, timeouts, restarts, siteStatus, repo, rela>>

\* updatePostSiteConfigRelaStateByTaskWorkspace: every row of the site with that
\* workspace, and none if there is no workspace.
RelaWith(f, state) ==
    [g \in Posts |->
        IF /\ flow[f].workspace # NoWorkspace /\ rela[g].workspace = flow[f].workspace
           /\ flow[g].site = flow[f].site
        THEN [rela[g] EXCEPT !.state = state] ELSE rela[g]]

StateAtStage == [doing |-> "DOING", success |-> "SUCCESS", fail |-> "FAIL"]

WriteRelaState(f) ==
    \E stage \in DOMAIN StateAtStage :
        /\ At(f, stage)
        /\ rela' = RelaWith(f, StateAtStage[stage])
        /\ SetFlow(f, Done(f))
        /\ UNCHANGED <<registered, workspace, used, task, timeouts, restarts, siteStatus, repo>>

\* The method tables of the HEXO template; a created post is written by an update,
\* and the one of deleteDraft throws.
EditSteps(kind) ==
    CASE kind = "createPost"   -> <<"HEXO_UPDATE_POST">>
      [] kind = "createDraft"  -> <<"HEXO_UPDATE_DRAFT">>
      [] kind = "deletePost"   -> <<"HEXO_DELETE_POST">>
      [] kind = "publishDraft" -> <<"HEXO_PUBLISH_DRAFT">>
      [] kind = "moveToDraft"  -> <<"HEXO_MOVETO_DRAFT">>

EditMethods == {"HEXO_UPDATE_POST", "HEXO_UPDATE_DRAFT", "HEXO_DELETE_POST",
                "HEXO_PUBLISH_DRAFT", "HEXO_MOVETO_DRAFT"}

-----------------------------------------------------------------------------
(* Configs for the workers, and the repository of the storage. *)

\* generateMetaWorkerSiteInfo: the deploy task takes a site in any status.
StatusAllows(f) == flow[f].kind \in {"deploy", "deployAndPublish"} \/ siteStatus[flow[f].site] \in Live

\* OctokitService.createGitRepo: a missing repository is created.
GitHubRepo(r) == IF r = "missing" THEN {"empty"} ELSE {r}

\* GiteeService.createGitRepo: the error of a missing repository has no status of
\* its own, so that it is thrown again and none is created.
GiteeRepo(r) == {r} \ {"missing"}

RepoAfter(s) == IF ServiceOf[s] = "GITHUB" THEN GitHubRepo(repo[s]) ELSE GiteeRepo(repo[s])

\* The git info of the storage is generated, which creates the repository; the flow
\* goes on with one of the given rows, which know what the repository is.
WithStorage(f, rows) ==
    LET s == flow[f].site IN
    /\ StatusAllows(f)
    /\ \E r \in RepoAfter(s) :
          /\ repo' = [repo EXCEPT ![s] = r]
          /\ SetFlow(f, rows[r])
    /\ UNCHANGED <<registered, workspace, used, task, timeouts, restarts, siteStatus, rela>>

\* generateDeployConfigAndRepoSize.
GenerateDeployConfig(f) ==
    /\ At(f, "config")
    /\ WithStorage(f, [r \in RepoAfter(flow[f].site) |-> [Done(f) EXCEPT !.repoEmpty = (r = "empty")]])

\* generatePostConfigAndTemplate, which does not ask for the size.
GeneratePostConfig(f) ==
    /\ At(f, "postConfig")
    /\ WithStorage(f, [r \in RepoAfter(flow[f].site) |-> Done(f)])

\* generatePublishConfigAndTemplate; the publisher's repository is left out.
GeneratePublishConfig(f) ==
    /\ At(f, "publishConfig")
    /\ siteStatus[flow[f].site] \in Live
    /\ SetFlow(f, Done(f))
    /\ UNCHANGED <<registered, workspace, used, task, timeouts, restarts, siteStatus, repo, rela>>

\* A config is refused, or one of the calls of a stage to a git service, to the
\* storage of metadata or to the DNS throws.
StageThrows(f) ==
    /\ \/ \E stage \in {"config", "postConfig", "publishConfig", "metadata", "dns"} : At(f, stage)
       \/ At(f, "edit") /\ flow[f].kind = "deleteDraft"
    /\ SetFlow(f, Thrown(f))
    /\ UNCHANGED <<registered, workspace, used, task, timeouts, restarts, siteStatus, repo, rela>>

-----------------------------------------------------------------------------
(* Site tasks. *)

\* deployAndPublishSite uploads the server verification first.
UploadMetadata(f) ==
    /\ At(f, "metadata")
    /\ SetFlow(f, Done(f))
    /\ UNCHANGED <<registered, workspace, used, task, timeouts, restarts, siteStatus, repo, rela>>

\* doDeploySite stores the status for its rollback.
ReadStatus(f) ==
    /\ At(f, "status")
    /\ SetFlow(f, [Done(f) EXCEPT !.original = siteStatus[flow[f].site]])
    /\ UNCHANGED <<registered, workspace, used, task, timeouts, restarts, siteStatus, repo, rela>>

StatusAtStage ==
    [deploying |-> "DEPLOYING", deployed |-> "DEPLOYED",
     publishing |-> "PUBLISHING", published |-> "PUBLISHED"]

\* updateSiteConfigStatus and setPublished.
WriteStatus(f) ==
    /\ \/ \E stage \in DOMAIN StatusAtStage :
             /\ At(f, stage)
             /\ siteStatus' = [siteStatus EXCEPT ![flow[f].site] = StatusAtStage[stage]]
       \/ /\ At(f, "rollback")
          /\ siteStatus' = [siteStatus EXCEPT ![flow[f].site] = flow[f].original]
    /\ SetFlow(f, Done(f))
    /\ UNCHANGED <<registered, workspace, used, task, timeouts, restarts, repo, rela>>

\* doUpdateDns and updateDomainName.
UpdateDomain(f) ==
    /\ At(f, "dns")
    /\ SetFlow(f, Done(f))
    /\ UNCHANGED <<registered, workspace, used, task, timeouts, restarts, siteStatus, repo, rela>>

-----------------------------------------------------------------------------
(* Dispatching and waiting. *)

DeploySteps(f) ==
    <<IF flow[f].repoEmpty THEN "GIT_INIT_PUSH" ELSE "GIT_CLONE_CHECKOUT",
      "HEXO_UPDATE_CONFIG", "GENERATE_METASPACE_CONFIG", "GIT_COMMIT_PUSH">>
      \o (IF flow[f].kind = "deploy" THEN <<>> ELSE <<"GIT_OVERWRITE_THEME">>)

\* The checkout before a publication also commits, if it has metadata to sign.
CheckoutSteps(f) ==
    {<<"GIT_CLONE_CHECKOUT">>} \union
    (IF flow[f].kind = "publish"
     THEN {<<"GIT_CLONE_CHECKOUT", "GENERATE_METASPACE_CONFIG", "GIT_COMMIT_PUSH">>} ELSE {})

StepsAtStage(f, stage) ==
    CASE stage = "checkout" -> CheckoutSteps(f)
      [] stage = "edit"     -> {EditSteps(flow[f].kind)}
      [] stage = "push"     -> {<<"GIT_COMMIT_PUSH">>}
      [] stage = "deploy"   -> {DeploySteps(f)}
      [] stage = "publish"  -> {<<"HEXO_GENERATE_DEPLOY", "PUBLISH_GITHUB_PAGES">>}

\* The last task of a request deletes the key of the workspace.
IsLast(f, stage) == stage \in {"push", "publish"} \/ (stage = "deploy" /\ flow[f].kind = "deploy")

\* dispatchTask; without a workspace it throws a ConflictException.
Dispatch(f) ==
    LET s == flow[f].site IN
    /\ \E stage \in {"checkout", "edit", "push", "deploy", "publish"} :
          /\ At(f, stage)
          /\ ~(stage = "edit" /\ flow[f].kind = "deleteDraft")
          /\ IF CanDispatch(s)
             THEN \E t \in Tasks, steps \in StepsAtStage(f, stage) :
                     /\ FreeTask(t)
                     /\ SetTask(t, Dispatched(s, IF stage = "edit" THEN f ELSE NoPost, steps, IsLast(f, stage)))
                     /\ SetFlow(f, [flow[f] EXCEPT !.task = t])
             ELSE SetFlow(f, Thrown(f)) /\ UNCHANGED task
    /\ UNCHANGED <<registered, workspace, used, timeouts, restarts, siteStatus, repo, rela>>

\* The promise is settled: the request goes on, or the error is thrown.
Await(f) ==
    LET t == flow[f].task IN
    /\ t # 0
    /\ \/ task[t].promise = "resolved" /\ SetFlow(f, [Done(f) EXCEPT !.task = 0])
       \/ task[t].promise = "rejected" /\ SetFlow(f, Thrown(f))
    /\ SetTask(t, Awaited(t))
    /\ UNCHANGED <<registered, workspace, used, timeouts, restarts, siteStatus, repo, rela>>

\* The steps of the workers: an edit is written to the working directory, a push
\* takes along everything that was written there.
JobDone(t) ==
    LET row == task[t]
        method == Head(row.left)
        pushes == method \in {"GIT_INIT_PUSH", "GIT_COMMIT_PUSH"} IN
    /\ CompleteJob(t)
    /\ repo' = IF pushes THEN [repo EXCEPT ![row.site] = "filled"] ELSE repo
    /\ rela' = [f \in Posts |->
                  [rela[f] EXCEPT !.edited = IF row.post = f /\ method \in EditMethods THEN row.workspace ELSE @,
                                  !.pushed = @ \/ (pushes /\ rela[f].edited = row.workspace)]]
    /\ UNCHANGED <<siteStatus, flow>>

TasksRestart ==
    /\ ChainsRestart
    /\ flow' = [f \in Posts |-> [flow[f] EXCEPT !.plan = <<>>, !.generating = FALSE, !.task = 0]]
    /\ UNCHANGED <<siteStatus, repo, rela>>

FlowStep(f) ==
    \/ GetWorkspace(f) \/ LinkRela(f) \/ BeginPost(f) \/ WriteRelaState(f)
    \/ GenerateDeployConfig(f) \/ GeneratePostConfig(f) \/ GeneratePublishConfig(f) \/ StageThrows(f)
    \/ UploadMetadata(f) \/ ReadStatus(f) \/ WriteStatus(f) \/ UpdateDomain(f)
    \/ Dispatch(f) \/ Await(f)

TasksNext ==
    \/ \E f \in Posts, s \in Sites : PostRequest(f, s) \/ SiteRequest(f, s)
    \/ \E f \in Posts : FlowStep(f)
    \/ \E t \in DOMAIN task :
          \/ JobDone(t)
          \/ (JobStep(t) \/ TimerStep(t)) /\ UNCHANGED <<siteStatus, repo, flow, rela>>
    \/ \E s \in Sites : ExpireWorkspace(s) /\ UNCHANGED <<siteStatus, repo, flow, rela>>
    \/ TasksRestart

TasksSpec == TasksInit /\ [][TasksNext]_taskVars

-----------------------------------------------------------------------------
(* Properties. *)

Alone(f) == \A g \in Posts \ {f} : rela[g].workspace # rela[f].workspace

\* A row that shares its workspace with no other is SUCCESS only if its own edit
\* has been written and pushed, as long as the site has had one working directory.
\* (A row that shares it takes the state of whichever request of that workspace
\* ends last, one that failed within the minute the key lives included; and a
\* request whose key is named anew between two of its tasks pushes a directory
\* that does not hold its edit.)
SuccessIsPushed ==
    \A f \in Posts : rela[f].state = "SUCCESS" /\ Alone(f) /\ used <= 1 => rela[f].pushed

\* A request that was linked to one workspace and found another one, or none, when
\* it began.
HasLostWorkspace(f) ==
    /\ flow[f].kind \in PostKinds /\ flow[f].given # flow[f].workspace
    /\ \A i \in 1..Len(flow[f].plan) : flow[f].plan[i] # "begin"

Deploys(f, s) == flow[f].site = s /\ flow[f].kind \in {"deploy", "deployAndPublish"}

\* A row is DOING, or a site DEPLOYING, only while a request of its workspace, or a
\* deployment, is in flight: neither an error, a job that hangs, nor another request
\* of the site leaves it behind. A restart does, and a request that has lost its
\* workspace; and two deployments at once may put back each other's status.
WorkIsOwned ==
    \/ restarts > 0
    \/ /\ \A f \in Posts :
             rela[f].state = "DOING" =>
                 \/ \E g \in Posts : InFlight(g) /\ rela[f].workspace \in {flow[g].given, flow[g].workspace}
                 \/ \E g \in Posts : HasLostWorkspace(g)
       /\ \A s \in Sites :
             siteStatus[s] = "DEPLOYING" =>
                 \/ \E f \in Posts : InFlight(f) /\ Deploys(f, s)
                 \/ \E f, g \in Posts : f # g /\ Deploys(f, s) /\ Deploys(g, s)
=============================================================================
