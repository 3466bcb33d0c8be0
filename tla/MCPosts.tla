------------------------------- MODULE MCPosts --------------------------------
(***************************************************************************)
(* The legacy posts and tasks, and what is beside them: synchronization,   *)
(* migration, the sockets and the listings. They share no state that the   *)
(* modules keep, so a behaviour is about one of them; the subject also     *)
(* picks the faults of the small instance.                                 *)
(***************************************************************************)
EXTENDS LegacyTasks, LegacyPosts, Synchronizer, RealTimeEvents, PostMigration,
    PostListings, TLC

CONSTANTS s1, f1, f2, c1, c2, c3, r1, r2, a1, a2, a3, p1, m1, m2, o1, e1, e2, h1, x1, x2

MCTitleOf == f1 :> "a" @@ f2 :> "a"
MCServiceOf == s1 :> "GITHUB"

Article(title, inStorage, state, digest, signature) ==
    [title |-> title, titleInStorage |-> inStorage, state |-> state,
     digest |-> digest, signature |-> signature]

MCBatches ==
    {<<Article("a", "none", "pending", "none", "none"), Article("b", "none", "pending_edit", "good", "good")>>,
     <<Article("b", "a", "published", "good", "good")>>,
     <<Article("b", "none", "pending", "none", "none"), Article("a", "none", "pending", "good", "none")>>,
     <<Article("b", "none", "drafted", "good", "good"), Article("a", "none", "drafted", "good", "bad")>>,
     <<Article("a", "none", "drafted", "none", "none")>>}
MCTargets == {<<c1>>, <<c1, c2>>, <<c1, c3>>}
MCKeyOf == "a" :> "ka" @@ "b" :> "kb"

MCBearerOf == a1 :> p1 @@ a2 :> p1 @@ a3 :> p1

MCEntriesOf == o1 :> {e1, e2}
MCPageOf == e1 :> 0 @@ e2 :> 2

MCPublishers ==
    {[type |-> "GITHUB", id |-> 1], [type |-> "GITEE", id |-> 1], [type |-> "GITHUB", id |-> 2]}

VARIABLE subject

subjectVars == <<taskVars, postsVars, synchronizerVars, realTimeVars, migrationVars, listingVars>>

Init ==
    /\ subject \in {"task", "pair", "posts", "synchronizer", "sockets", "migrations", "restarts",
                   "repository", "pages"}
    /\ TasksInit /\ PostsInit /\ SynchronizerInit /\ RealTimeInit /\ MigrationInit
    /\ ListingsInit
    /\ subject # "task" => repo[s1] = "filled" /\ siteStatus[s1] = "DEPLOYED"
    /\ subject = "pair" => registered = Methods
    /\ subject \notin {"task", "pair"} => registered = {}
    /\ files[x1].folder = "source/_posts"
    /\ subject # "repository" => files[x2].folder = "source/_posts"
    /\ \A p \in Publishers : named[p] = h1
    /\ \A k \in Listings : listing[k].publisher = [type |-> "GITHUB", id |-> 1]

Next ==
    /\ \/ /\ subject \in {"task", "pair"} /\ TasksNext
          /\ UNCHANGED <<postsVars, synchronizerVars, realTimeVars, migrationVars, listingVars>>
       \/ /\ subject = "posts" /\ PostsNext
          /\ UNCHANGED <<taskVars, synchronizerVars, realTimeVars, migrationVars, listingVars>>
       \/ /\ subject = "synchronizer" /\ SynchronizerNext
          /\ UNCHANGED <<taskVars, postsVars, realTimeVars, migrationVars, listingVars>>
       \/ /\ subject = "sockets" /\ RealTimeNext
          /\ UNCHANGED <<taskVars, postsVars, synchronizerVars, migrationVars, listingVars>>
       \/ /\ subject \in {"migrations", "restarts"} /\ MigrationNext
          /\ UNCHANGED <<taskVars, postsVars, synchronizerVars, realTimeVars, listingVars>>
       \/ /\ subject \in {"repository", "pages"} /\ ListingsNext
          /\ UNCHANGED <<taskVars, postsVars, synchronizerVars, realTimeVars, migrationVars>>
    /\ UNCHANGED subject

Spec == Init /\ [][Next]_<<subjectVars, subject>>

\* Types of all of the variables.
TypeOK ==
    /\ TasksTypeOK /\ PostsTypeOK /\ SynchronizerTypeOK /\ RealTimeTypeOK /\ MigrationTypeOK
    /\ ListingsTypeOK

-----------------------------------------------------------------------------
(* The instances. *)

\* One request, with all that may go wrong.
OneFlow == flow[f2].kind = "none"

\* A post that has been linked and another request for its site, both without a timeout or a restart.
TwoFlows ==
    /\ timeouts = 0 /\ restarts = 0
    /\ flow[f1].kind \in {"none", "createPost"}
    /\ flow[f2].kind \in {"none", "createPost", "deployAndPublish"}
    /\ flow[f2].kind # "none" =>
          flow[f1].kind # "none" /\ (~InFlight(f1) \/ Head(flow[f1].plan) \notin {"workspace", "link"})

\* One request, or two to publish or update, one of which is past its verification
\* and one of which succeeds.
TwoCalls ==
    /\ \/ \E r \in Submissions : call[r].pc = "idle"
       \/ \A r \in Submissions : call[r].op \in {"publish", "update"}
    /\ Cardinality({r \in Submissions : call[r].pc = "verify"}) <= 1
    /\ \E r \in Submissions : call[r].pc # "failed"

\* Two sockets and three changes of the counts, or three and one.
FewSockets == socket[a3].state = "new" \/ \A p \in People : postCount[p] <= 1

\* Two requests to migrate, or one and restarts.
TwoMigrations == reboots = 0 /\ Cardinality(DOMAIN queued) <= 3

OneMigration ==
    /\ \E m \in Administrators : migration[m].pc = "idle"
    /\ reboots > 0 => lost = {} \/ unlisted = {}
    /\ reboots > 1 => unlisted = {} /\ orderRows = {}

\* One list from the repository; two from the pages.
OneList ==
    /\ \E k \in Listings : listing[k].pc = "idle"
    /\ \A k \in Listings : listing[k].state # "published"
    /\ \A p \in Publishers : named[p] = h1
    /\ pushes > 0 => \A k \in Listings : listing[k].pc \in {"idle", "blobs", "done"}
    /\ pushes > 0 => \E k \in Listings : listing[k].pc # "idle"

TwoLists == pushes = 0 /\ \A k \in Listings : listing[k].pc # "idle" => listing[k].state = "published"

Instance ==
    CASE subject = "task"         -> OneFlow
      [] subject = "pair"         -> TwoFlows
      [] subject = "posts"        -> TwoCalls
      [] subject = "sockets"      -> FewSockets
      [] subject = "migrations"   -> TwoMigrations
      [] subject = "restarts"     -> OneMigration
      [] subject = "repository"   -> OneList
      [] subject = "pages"        -> TwoLists
      [] OTHER                    -> TRUE
=============================================================================
