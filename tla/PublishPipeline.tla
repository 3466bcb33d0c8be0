--------------------------- MODULE PublishPipeline ---------------------------
(***************************************************************************)
(* The publishing pipeline of one user's site: posts, dispatcher, worker   *)
(* jobs, publish orders and tasks, with every handler of the backend       *)
(* running concurrently with the others.                                   *)
(***************************************************************************)
EXTENDS PostOrders, WorkerTasksDispatcher, WorkerJobs

Next ==
    \/ \E p \in Posts : SavePost(p) \/ RetryRequest(p) \/ SweepRead(p)
    \/ SweepFailed
    \/ \E r \in Retriers : RetrySave(r) \/ UpdatePublishOrderId(r)
    \/ \E c \in Certifiers : CertificateStep(c)
    \/ \E l \in Linkers : LinkStep(l)
    \/ \E c \in Callers : GenStep(c)
    \/ RequestPublish
    \/ \E d \in Dispatchers : DispatchStep(d) \/ RequestDispatch(d)
    \/ \E t \in PostTaskIds : PostJobStep(t)
    \/ \E t \in PostTaskIds, p \in Posts : ReportErrored(t, p)
    \/ \E j \in PublishJobs : PublishJobStep(j)
    \/ Restart

\* Every handler that was started goes on as long as the backend runs, the
\* dispatch queue is polled on an interval, and workers end their jobs. Nothing
\* is assumed about the user, the administrator, reports and restarts.
Fairness ==
    /\ WF_vars(SweepFailed) /\ \A p \in Posts : WF_vars(SweepRead(p))
    /\ \A r \in Retriers : WF_vars(RetrySave(r)) /\ WF_vars(UpdatePublishOrderId(r))
    /\ \A c \in Certifiers : WF_vars(CertificateStep(c))
    /\ \A l \in Linkers : WF_vars(LinkStep(l))
    /\ \A c \in Callers : WF_vars(GenStep(c))
    /\ \A d \in Dispatchers : WF_vars(DispatchStep(d))
    /\ \A t \in PostTaskIds : WF_vars(PostJobStep(t))
    /\ \A j \in PublishJobs : WF_vars(PublishJobStep(j))

Spec == Init /\ [][Next]_vars
FairSpec == Spec /\ Fairness

-----------------------------------------------------------------------------
(* Safety. *)

\* The states of a publish job whose orders a handler will still write, or
\* would if it had not died (stuck, lost).
WorksOnOrders == {"active", "building", "finish", "domain", "finishOrders",
                  "fail", "failOrders", "stuck", "lost"}

\* The dispatcher of job j is about to queue it, or the job is being worked for.
OwnsOrders(j) == DispatchingPublish(j) \/ publishJob[j] \in WorksOnOrders

\* A publish order that is doing belongs to a publish task some handler still
\* works for: doingPublishSite, finishPublishSite and failPublishSite update by
\* the task id while linkOrGeneratePublishSiteTask moves orders between tasks.
DoingOrderIsOwned ==
    \A o \in OrderIds :
        orderState[o] = "doing" => \E j \in PublishJobs : j[1] = orderTaskId[o] /\ OwnsOrders(j)

\* A site in PUBLISHING, where neither posts nor orders are dispatched, has a
\* publish job that is about to be queued or whose end will set another status,
\* unless its handler died.
PublishingIsOwned ==
    siteStatus = "PUBLISHING" =>
        \/ \E d \in Dispatchers : disp[d].pc = "publishConfig"
        \/ \E j \in PublishJobs : publishJob[j] \notin {"none", "done"}

\* Both, for the publications of a site.
PublicationIsOwned == DoingOrderIsOwned /\ PublishingIsOwned

\* The dispatcher of post task t is about to queue its job, or the job is being
\* worked for, or was until its handler died (lost).
OwnsPosts(t) == \/ DispatchingPost(t)
                \/ postJob[t] \in {"active", "completed", "fail", "failPosts", "lost"}

\* The same as for orders, for a post whose submission is doing and the post
\* task it is in: no post is left doing, which would block its user for good.
DoingPostIsOwned ==
    \A p \in Posts :
        submitState[p] = "doing" => postTaskId[p] \in PostTaskIds /\ OwnsPosts(postTaskId[p])

\* Two jobs never work on the repositories of the site at the same time: the
\* NOT EXISTS clauses of the queries and the site's status stand in for a lock.
JobsExclusive == QueuedJobs <= 1

\* A post both of whose states say finished, which is what the user is told of
\* a published post, is on the published site.
PublishedIsLive ==
    \A p \in Posts : submitState[p] = "finished" /\ publishState[p] = "finished" => p \in live

\* A certificate that is reported as finished can be found: stale saves of
\* retries and failed uploads of another handler never leave it without an id.
FinishedCertificateHasId ==
    \A p \in Posts : certificateState[p] = "finished" => certificateId[p] # ""

\* A submission ends well only for a post that its job carried to the end.
SubmittedWasCarried ==
    [][\A p \in Posts : submitState[p] = "doing" /\ submitState'[p] = "finished"
          => p \in batch[postTaskId[p]] /\ p \in repo]_vars

\* The two states of a post and the stage they stand for.
StageOf(submit, publish) ==
    CASE submit = "absent"                               -> "unsaved"
      [] submit = "pending"  /\ publish = "pending"      -> "waiting"
      [] submit = "doing"    /\ publish = "pending"      -> "submitting"
      [] submit = "finished" /\ publish = "pending"      -> "submitted"
      [] submit = "finished" /\ publish = "doing"        -> "publishing"
      [] submit = "finished" /\ publish = "finished"     -> "published"
      [] submit = "failed"   /\ publish = "failed"       -> "submitFailed"
      [] submit = "finished" /\ publish = "failed"       -> "publishFailed"
      [] OTHER                                           -> "illegal"

Lifecycle == INSTANCE PostLifecycle
    WITH stage <- [p \in Posts |-> StageOf(submitState[p], publishState[p])]

\* Every step of the pipeline is a step of the lifecycle the user sees.
ImplementsLifecycle == Lifecycle!Spec

-----------------------------------------------------------------------------
(* Progress. *)

\* Some handler ended before its time: updateDomain threw, or a restart.
Abandoned == \/ \E j \in PublishJobs : publishJob[j] \in {"stuck", "lost"}
             \/ \E t \in PostTaskIds : postJob[t] = "lost"

\* A pending publish order is published, whatever the link handlers do to it.
OrderSettles ==
    \A o \in OrderIds :
        orderState[o] = "pending" ~> (orderState[o] \in {"finished", "failed"} \/ Abandoned)

\* A pending post is submitted or fails.
SubmitSettles ==
    \A p \in Posts :
        submitState[p] = "pending" ~> (submitState[p] \in {"finished", "failed"} \/ Abandoned)

-----------------------------------------------------------------------------
(* What comments of the code say and the code does not do. *)

\* "A later publishTask that succeeds takes out everything all the same"
\* (SiteOrdersLogicService.updatePublishSiteTaskId): a submitted post is not
\* left pending by the publication of its order.
NotLeftBehind ==
    \A p \in Posts :
        submitState[p] = "finished" /\ publishState[p] = "pending"
          /\ publishSiteOrderId[p] # NoId /\ orderState[publishSiteOrderId[p]] = "finished"
        => \E d \in Dispatchers : publishJob[<<publishSiteTaskId[p], d>>] = "finishPosts"

\* "As long as it could be saved, there is a way to retry" (savePostOrder): a
\* post that waits for its certificate, and is not failed, is being certified.
SavedCanBeRetried ==
    \A p \in Posts :
        submitState[p] = "pending" /\ ~HasCertificate(p)
        => \/ \E c \in Certifiers : c[1] = p /\ cert[c].pc # "none"
           \/ \E r \in Retriers : r[1] = p /\ retry[r].pc # "none"

\* "Equivalent to starting again from a successful submission" (retryPostOrder):
\* a published post has been submitted.
PublishedWasSubmitted ==
    \A p \in Posts : publishState[p] = "finished" => submitState[p] = "finished"

\* "If it cannot be found, the site's status is wrong: try to repair it"
\* (dispatchPublishSiteTask): the dispatcher does not give up on a site in
\* PUBLISHING that no publish job and no handler of one works for.
StuckSiteIsRepaired ==
    [][\A d \in Dispatchers :
          disp[d].pc = "publish" /\ siteStatus = "PUBLISHING"
          /\ (\A j \in PublishJobs : publishJob[j] \in {"none", "done", "stuck", "lost"})
          => disp'[d].pc # "idle"]_vars
=============================================================================
