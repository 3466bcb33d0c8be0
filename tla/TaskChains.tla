----------------------------- MODULE TaskChains -----------------------------
(***************************************************************************)
(* The task workers in front of the legacy site and post tasks. A task is  *)
(* a chain of steps, each a job of a Bull queue; whoever dispatches it     *)
(* waits on a promise that the chain settles or a timer of an hour         *)
(* rejects. The steps of a site share a working directory, whose name is   *)
(* the value of a Redis key that expires unless a running job renews it.   *)
(***************************************************************************)
EXTENDS Naturals, Sequences

CONSTANTS
    Sites,              \* site configs
    MaxWorkspaces,      \* bound: working directories; their names are random, here 1, 2, ...
    MaxTasks,           \* bound: tasks in flight; one that is over makes room for another
    Posts,              \* the posts of the requests
    NoPost,             \* the task carries no post
    MaxTaskRestarts     \* bound: restarts of the backend

GitMethods ==
    {"GIT_INIT_PUSH", "GIT_OVERWRITE_PUSH", "GIT_OVERWRITE_THEME", "GIT_COMMIT_PUSH",
     "GIT_CLONE_CHECKOUT", "PUBLISH_GITHUB_PAGES", "GENERATE_METASPACE_CONFIG"}

HexoMethods ==
    {"HEXO_UPDATE_CONFIG", "HEXO_GENERATE_DEPLOY", "HEXO_CREATE_POST", "HEXO_UPDATE_POST",
     "HEXO_DELETE_POST", "HEXO_CREATE_DRAFT", "HEXO_UPDATE_DRAFT", "HEXO_PUBLISH_DRAFT",
     "HEXO_MOVETO_DRAFT"}

Methods == GitMethods \union HexoMethods

ASSUME ChainsAssumption ==
    /\ NoPost \notin Posts
    /\ MaxWorkspaces \in Nat /\ MaxTasks \in Nat /\ MaxTaskRestarts \in Nat

VARIABLES
    registered,     \* the methods that have a worker: the worker modules may be left out
    workspace,      \* the Redis key SITE_CONFIG_<id> of each site
    used,           \* how many names of working directories have been given out
    task,
    timeouts,       \* history: tasks that have timed out
    restarts

chainVars == <<registered, workspace, used, task, timeouts, restarts>>

Workspaces == 1..MaxWorkspaces

NoWorkspace == 0    \* the key is absent; undefined

Tasks == 1..MaxTasks

TaskRow ==
    [site: Sites, post: Posts \union {NoPost}, workspace: Workspaces, left: Seq(Methods),
     promise: {"pending", "resolved", "rejected", "lost"},
     job: {"none", "waiting", "active"},
     unlock: {"no", "onExit", "read", "delete"},
     awaited: BOOLEAN]

ChainsTypeOK ==
    /\ registered \subseteq Methods
    /\ workspace \in [Sites -> Workspaces \union {NoWorkspace}]
    /\ used \in 0..MaxWorkspaces
    /\ DOMAIN task \subseteq Tasks
    /\ \A t \in DOMAIN task : task[t] \in TaskRow
    /\ timeouts \in Nat /\ restarts \in Nat

\* GitWorkersService and HexoWorkersService register their methods when their
\* modules are loaded; TasksModule has both commented out.
ChainsInit ==
    /\ registered \in {{}, Methods}
    /\ workspace = [s \in Sites |-> NoWorkspace]
    /\ used = 0
    /\ task = <<>>
    /\ timeouts = 0 /\ restarts = 0

-----------------------------------------------------------------------------
(* The workspace lock. *)

Without(t) == [u \in DOMAIN task \ {t} |-> task[u]]

SetTask(t, row) == task' = [u \in DOMAIN task \union {t} |-> IF u = t THEN row ELSE task[u]]

\* A free place for the next task.
FreeTask(t) == t \in Tasks \ DOMAIN task /\ \A u \in Tasks \ DOMAIN task : t <= u

Active(s) == {t \in DOMAIN task : task[t].site = s /\ task[t].job = "active"}

\* doGenerateTaskIdAndTaskWorkspace: a new name is written, whatever the key holds.
GenerateWorkspace(s) ==
    /\ used < MaxWorkspaces
    /\ used' = used + 1
    /\ workspace' = [workspace EXCEPT ![s] = used']

\* The timer of a job that is being processed, and a health check of its worker:
\* renewSiteConfigTaskWorkspaceLock writes the key without reading it.
RenewWorkspace(t) ==
    LET s == task[t].site IN
    /\ task[t].job = "active"
    /\ workspace[s] # task[t].workspace
    /\ workspace' = [workspace EXCEPT ![s] = task[t].workspace]
    /\ UNCHANGED <<registered, used, task, timeouts, restarts>>

\* The time to live is a minute, a running job renews the key every five seconds.
ExpireWorkspace(s) ==
    /\ workspace[s] # NoWorkspace /\ Active(s) = {}
    /\ workspace' = [workspace EXCEPT ![s] = NoWorkspace]
    /\ UNCHANGED <<registered, used, task, timeouts, restarts>>

\* removeSiteConfigTaskWorkspaceLock, which nobody waits for: read the key,
ReadBeforeUnlock(t) ==
    /\ task[t].unlock = "read"
    /\ SetTask(t, [task[t] EXCEPT !.unlock =
                     IF workspace[task[t].site] = task[t].workspace THEN "delete" ELSE "no"])
    /\ UNCHANGED <<registered, workspace, used, timeouts, restarts>>

\* and delete it, whatever it holds by then.
Unlock(t) ==
    /\ task[t].unlock = "delete"
    /\ workspace' = [workspace EXCEPT ![task[t].site] = NoWorkspace]
    /\ SetTask(t, [task[t] EXCEPT !.unlock = "no"])
    /\ UNCHANGED <<registered, used, timeouts, restarts>>

-----------------------------------------------------------------------------
(* Tasks. *)

Settled(row, outcome) == IF row.promise = "pending" THEN [row EXCEPT !.promise = outcome] ELSE row

\* invokeTaskMethod: the job is added, or the task rejected.
Invoked(row) ==
    IF row.left # <<>> /\ Head(row.left) \in registered
    THEN [row EXCEPT !.job = "waiting"]
    ELSE Settled([row EXCEPT !.job = "none"], "rejected")

\* Mutation: the key is not checked.
CanDispatch_Always(s) == TRUE

\* initQueueTaskConfig and dispatchTask: without a workspace it throws.
CanDispatch(s) == workspace[s] # NoWorkspace

Dispatched(s, p, steps, isLast) ==
    Invoked([site |-> s, post |-> p, workspace |-> workspace[s], left |-> steps, promise |-> "pending",
             job |-> "none", unlock |-> IF isLast THEN "onExit" ELSE "no", awaited |-> TRUE])

\* nextTaskStep: the next method, or the task is resolved.
Advanced(row) ==
    IF Len(row.left) > 1
    THEN Invoked([row EXCEPT !.left = Tail(@)])
    ELSE Settled([row EXCEPT !.left = <<>>, !.job = "none"], "resolved")

\* The queue gives the job to its processor.
StartJob(t) ==
    /\ task[t].job = "waiting"
    /\ SetTask(t, [task[t] EXCEPT !.job = "active"])
    /\ UNCHANGED <<registered, workspace, used, timeouts, restarts>>

\* The container exits with 0: onComplete.
CompleteJob(t) ==
    /\ task[t].job = "active"
    /\ SetTask(t, Advanced(task[t]))
    /\ UNCHANGED <<registered, workspace, used, timeouts, restarts>>

\* It exits with another code, or docker throws: onFailed, rejectTask.
FailJob(t) ==
    /\ task[t].job = "active"
    /\ SetTask(t, Settled([task[t] EXCEPT !.job = "none"], "rejected"))
    /\ UNCHANGED <<registered, workspace, used, timeouts, restarts>>

\* The timer of an hour; the chain knows nothing of it.
Timeout(t) ==
    /\ task[t].promise = "pending"
    /\ SetTask(t, Settled(task[t], "rejected"))
    /\ timeouts' = timeouts + 1
    /\ UNCHANGED <<registered, workspace, used, restarts>>

\* A task nobody waits for, with no job and no key to delete, is over.
Forget(t) ==
    /\ ~task[t].awaited /\ task[t].job = "none" /\ task[t].unlock = "no"
    /\ task' = Without(t)
    /\ UNCHANGED <<registered, workspace, used, timeouts, restarts>>

\* The finally block of dispatchTask, when its caller goes on.
Awaited(t) ==
    [task[t] EXCEPT !.awaited = FALSE, !.unlock = IF @ = "onExit" THEN "read" ELSE @]

\* What a restart leaves: the promises, timers and unlocks of the process are
\* gone, its waiting jobs are kept in Redis and its active ones are run again, or
\* were completed without the event being seen.
AfterRestart(jobs) ==
    [t \in DOMAIN task |->
        [task[t] EXCEPT !.promise = IF @ = "pending" THEN "lost" ELSE @,
                        !.unlock = "no", !.awaited = FALSE,
                        !.job = jobs[t]]]

ChainsRestart ==
    /\ restarts < MaxTaskRestarts
    /\ restarts' = restarts + 1
    /\ \E jobs \in [DOMAIN task -> {"none", "waiting"}] :
          /\ \A t \in DOMAIN task : /\ task[t].job = "none" => jobs[t] = "none"
                                    /\ task[t].job = "waiting" => jobs[t] = "waiting"
          /\ task' = AfterRestart(jobs)
    /\ UNCHANGED <<registered, workspace, used, timeouts>>

JobStep(t) == RenewWorkspace(t) \/ StartJob(t) \/ FailJob(t)

TimerStep(t) == ReadBeforeUnlock(t) \/ Unlock(t) \/ Timeout(t) \/ Forget(t)
=============================================================================
