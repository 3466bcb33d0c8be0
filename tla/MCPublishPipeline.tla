------------------------- MODULE MCPublishPipeline -------------------------
(***************************************************************************)
(* Model values and constraints for the runs of PublishPipeline.           *)
(***************************************************************************)
EXTENDS PublishPipeline, TLC

CONSTANTS p1, p2, pt1, pt2, pt3, d1, d2

\* Post tasks are interchangeable, and so are dispatchers.
Symmetry == Permutations(PostTaskIds) \union Permutations(Dispatchers)

\* So are posts, where no constraint names one of them.
PostSymmetry == Symmetry \union Permutations(Posts)

\* For the searches of a counterexample: states that have used fewer rows than
\* the bounds allow.
SpareRows ==
    /\ \E t \in PostTaskIds : postTaskState[t] = "absent"
    /\ \E o \in OrderIds : orderState[o] = "absent"
    /\ \E t \in PublishTaskIds : publishTaskState[t] = "absent"

\* A run may ask several questions of one instance: a scenario keeps the bounded
\* events of one question apart from those of the others, and the run explores
\* the union of its scenarios.
OnePost ==
    /\ submitState[p2] = "absent"
    /\ \A o \in OrderIds : o > 2 => orderState[o] = "absent"
    /\ \A t \in PublishTaskIds : t > 2 => publishTaskState[t] = "absent"

\* Two posts and one failure; or one post, publish requests of the user, a
\* failure and a restart.
FaultsOrRestarts ==
    \/ publishRequests = 0 /\ crashes = 0
    \/ OnePost

\* Only one dispatcher has dispatched anything.
OneDispatcher == \E d \in Dispatchers : disp[d] = Idle /\ \A t \in PublishTaskIds : publishJob[<<t, d>>] = "none"

\* A post with a certificate, retries and failures, one dispatcher; or a post
\* without one, two dispatchers and an endpoint.
CertificateOrDispatchers ==
    /\ SpareRows
    /\ IF certificateStorageType[p1] # NoCertificate \/ \E c \in Certifiers : cert[c] # NoCert
       THEN OneDispatcher /\ requests = 0
       ELSE /\ retries = 0 /\ faults = 0
            /\ \E t, u \in PostTaskIds : t # u /\ postTaskState[t] = "absent" /\ postTaskState[u] = "absent"

Begun(kind) == \E p \in Posts : retry[<<p, kind>>].pc # "none"

\* An ERRORED report, and no retry; a retry request; or, of one post, a request and the sweep.
ReportsOrRetries ==
    /\ SpareRows
    /\ reports = 0 \/ (retries = 0 /\ ~Begun("sweep"))
    /\ Begun("sweep") => \E p \in Posts : submitState[p] = "absent"

\* A second post is saved before anything is dispatched.
SavedTogether ==
    (\E p \in Posts : submitState[p] = "absent" /\ submitState'[p] # "absent") =>
        /\ \A d \in Dispatchers : disp[d].pc = "idle"
        /\ \A t \in PostTaskIds : postTaskState[t] = "absent"
=============================================================================
