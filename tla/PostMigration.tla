---------------------------- MODULE PostMigration ----------------------------
(***************************************************************************)
(* The migration of the posts of version 1 to post orders. A request of an *)
(* administrator queues a job for each user who has no order yet; the job  *)
(* lists the user's posts, in the repository and on the site, and queues a *)
(* job for each; that one saves the metadata and the order. What is done   *)
(* already is known only by the orders there are.                          *)
(***************************************************************************)
EXTENDS Naturals, FiniteSets

CONSTANTS
    Administrators, \* requests to management/migrate-v1-post-order-data
    Owners,         \* users whose latest published config is to be migrated
    EntriesOf,      \* the posts in the repository of that config
    Certified,      \* posts that name a server verification of theirs
    PageOf,         \* the page of the published list a post is on, 0 if on none
    MaxJobs,        \* bound: jobs in the queue
    MaxRestarts     \* bound: restarts of the backend

Entries == UNION {EntriesOf[o] : o \in Owners}

\* The pages up to the last one with a post; some may hold posts of nobody.
Pages == UNION {1..PageOf[e] : e \in Entries}

ASSUME MigrationAssumption ==
    /\ EntriesOf \in [Owners -> SUBSET Entries]
    /\ \A o, p \in Owners : o # p => EntriesOf[o] \intersect EntriesOf[p] = {}
    /\ PageOf \in [Entries -> Nat]
    /\ Certified \subseteq Entries
    /\ MaxJobs \in Nat /\ MaxRestarts \in Nat

VARIABLES
    migration,      \* the requests
    queued,         \* the jobs of MIGRATE_POST_ORDER_QUEUE that are not over
    signed,         \* how many signatures have been made for each post
    metadataRows,   \* PostMetadataEntity
    orderRows,      \* PostOrderEntity
    reboots,
    lost,           \* history: posts whose job failed, or was not queued
    unlisted,       \* history: users of whom a list, or a page of it, failed
    crossedOwners   \* history: users queued while recorded or under way

migrationVars ==
    <<migration, queued, signed, metadataRows, orderRows, reboots, lost, unlisted, crossedOwners>>

JobRow ==
    [name: {"findUnrecordedPosts", "migrateUnrecordedPost"},
     pc: {"waiting", "posted", "published", "add", "convert", "metadata", "order"},
     stalled: BOOLEAN, owner: Owners,
     posts: SUBSET Entries,         \* listed, or still to be queued; or the one of the job
     published: SUBSET Entries,     \* those of them that are on the site
     serial: Nat]                   \* of the signature; a certificate has the author's

\* The id of an order and of its metadata is the author's signature.
OrderIds == [post: Entries, serial: Nat]

\* Types of the requests, the jobs and the rows.
MigrationTypeOK ==
    /\ migration \in [Administrators -> [pc: {"idle", "queue", "done"}, left: SUBSET Owners]]
    /\ DOMAIN queued \subseteq 1..MaxJobs
    /\ \A j \in DOMAIN queued : queued[j] \in JobRow
    /\ signed \in [Entries -> Nat]
    /\ metadataRows \subseteq OrderIds
    /\ \A o \in orderRows : o \in [post: Entries, serial: Nat, publishState: {"finished", "none"}]
    /\ reboots \in Nat
    /\ lost \subseteq Entries /\ unlisted \subseteq Owners /\ crossedOwners \subseteq Owners

MigrationInit ==
    /\ migration = [m \in Administrators |-> [pc |-> "idle", left |-> {}]]
    /\ queued = <<>>
    /\ signed = [e \in Entries |-> 0]
    /\ metadataRows = {} /\ orderRows = {}
    /\ reboots = 0
    /\ lost = {} /\ unlisted = {} /\ crossedOwners = {}

-----------------------------------------------------------------------------
(* The queue. *)

FreeJob(j) == j \in 1..MaxJobs \ DOMAIN queued /\ \A k \in 1..MaxJobs \ DOMAIN queued : j <= k

PutJob(j, row) == [k \in DOMAIN queued \union {j} |-> IF k = j THEN row ELSE queued[k]]

Over(j) == [k \in DOMAIN queued \ {j} |-> queued[k]]

JobsOf(o) == {j \in DOMAIN queued : queued[j].owner = o}

NewJob(name, o, posts, published) ==
    [name |-> name, pc |-> "waiting", stalled |-> FALSE, owner |-> o, posts |-> posts,
     published |-> published, serial |-> 0]

Recorded(o) == \E row \in orderRows : row.post \in EntriesOf[o]

-----------------------------------------------------------------------------
(* The request. *)

\* findRecordedUserIds and findUnrecordedUserIds;
FindUnrecordedUsers(m) ==
    /\ migration[m].pc = "idle"
    /\ migration' = [migration EXCEPT ![m] = [pc |-> "queue", left |-> {o \in Owners : ~Recorded(o)}]]
    /\ UNCHANGED <<queued, signed, metadataRows, orderRows, reboots, lost, unlisted, crossedOwners>>

\* a job for each of them, one after the other.
QueueUser(m, o) ==
    /\ migration[m].pc = "queue" /\ o \in migration[m].left
    /\ \E j \in 1..MaxJobs :
          /\ FreeJob(j)
          /\ queued' = PutJob(j, NewJob("findUnrecordedPosts", o, {}, {}))
    /\ migration' = [migration EXCEPT ![m].left = @ \ {o}]
    /\ crossedOwners' =
          IF Recorded(o) \/ JobsOf(o) # {} THEN crossedOwners \union {o} ELSE crossedOwners
    /\ UNCHANGED <<signed, metadataRows, orderRows, reboots, lost, unlisted>>

-----------------------------------------------------------------------------
(* findUnrecordedPosts. *)

StartQueued(j) ==
    LET first == IF queued[j].name = "findUnrecordedPosts" THEN "posted" ELSE "convert" IN
    /\ queued[j].pc = "waiting"
    /\ queued' = PutJob(j, [queued[j] EXCEPT !.pc = first])
    /\ UNCHANGED <<migration, signed, metadataRows, orderRows, reboots, lost, unlisted, crossedOwners>>

\* getUnrecordedStoragePosts of the repository: an error is an empty list.
ListPosted(j) ==
    LET o == queued[j].owner IN
    /\ queued[j].pc = "posted"
    /\ \E found \in {EntriesOf[o], {}} :
          /\ queued' = PutJob(j, [queued[j] EXCEPT !.pc = "published", !.posts = found])
          /\ unlisted' = IF found = {} THEN unlisted \union {o} ELSE unlisted
    /\ UNCHANGED <<migration, signed, metadataRows, orderRows, reboots, lost, crossedOwners>>

\* Mutation: the loop over the pages stops before the last one.
PublishedOn_NotTheLast(failed) ==
    {e \in Entries : PageOf[e] \in Pages \ failed /\ \E n \in Pages : PageOf[e] < n}

\* getAllPublishedPostsFromStorage: without its first page there is no list; a
\* later page that fails is left out.
PublishedOn(failed) ==
    IF 1 \in failed THEN {} ELSE {e \in Entries : PageOf[e] \in Pages \ failed}

ListPublished(j) ==
    LET o == queued[j].owner IN
    /\ queued[j].pc = "published"
    /\ \E failed \in SUBSET Pages :
          /\ queued' = PutJob(j, [queued[j] EXCEPT !.pc = "add",
                                     !.published = PublishedOn(failed) \intersect queued[j].posts])
          /\ unlisted' = IF failed # {} THEN unlisted \union {o} ELSE unlisted
    /\ UNCHANGED <<migration, signed, metadataRows, orderRows, reboots, lost, crossedOwners>>

\* Mutation: the last post is left out.
AllQueued_ButOne(row) == Cardinality(row.posts) <= 1

AllQueued(row) == row.posts = {}

\* A job for each post in the repository; after the last one this job is over.
QueuePost(j) ==
    LET row == queued[j] IN
    /\ row.pc = "add"
    /\ IF AllQueued(row) THEN queued' = Over(j)
       ELSE \E e \in row.posts, k \in 1..MaxJobs :
               /\ FreeJob(k)
               /\ queued' = [PutJob(k, NewJob("migrateUnrecordedPost", row.owner, {e}, row.published \intersect {e}))
                               EXCEPT ![j].posts = @ \ {e}]
    /\ UNCHANGED <<migration, signed, metadataRows, orderRows, reboots, lost, unlisted, crossedOwners>>

-----------------------------------------------------------------------------
(* migrateUnrecordedPost. *)

ThePost(j) == CHOOSE e \in queued[j].posts : TRUE

\* Mutation: the server signs every post.
Signature_Server(e) == signed[e] + 1

\* convertPostInfoToPostOrderEntity: the signature of a post with a certificate is
\* the one it refers to, for any other post the server makes one.
Signature(e) == IF e \in Certified THEN 0 ELSE signed[e] + 1

ConvertPost(j) ==
    LET e == ThePost(j) IN
    /\ queued[j].pc = "convert"
    /\ queued' = PutJob(j, [queued[j] EXCEPT !.pc = "metadata", !.serial = Signature(e)])
    /\ signed' = IF Signature(e) = 0 THEN signed ELSE [signed EXCEPT ![e] = Signature(e)]
    /\ UNCHANGED <<migration, metadataRows, orderRows, reboots, lost, unlisted, crossedOwners>>

\* The certificate cannot be read or has no digest, or a save throws: the job has
\* failed, and is not tried again.
FailPost(j) ==
    /\ queued[j].pc \in {"metadata", "order"} \/ (queued[j].pc = "convert" /\ ThePost(j) \in Certified)
    /\ queued' = Over(j)
    /\ lost' = lost \union queued[j].posts
    /\ UNCHANGED <<migration, signed, metadataRows, orderRows, reboots, unlisted, crossedOwners>>

\* savePostOrderEntity: the metadata,
SaveMetadata(j) ==
    /\ queued[j].pc = "metadata"
    /\ metadataRows' = metadataRows \union {[post |-> ThePost(j), serial |-> queued[j].serial]}
    /\ queued' = PutJob(j, [queued[j] EXCEPT !.pc = "order"])
    /\ UNCHANGED <<migration, signed, orderRows, reboots, lost, unlisted, crossedOwners>>

\* and the order, over one of the same id.
SaveOrder(j) ==
    LET e == ThePost(j)
        state == IF queued[j].published = {} THEN "none" ELSE "finished" IN
    /\ queued[j].pc = "order"
    /\ orderRows' = {row \in orderRows : row.post # e \/ row.serial # queued[j].serial}
                      \union {[post |-> e, serial |-> queued[j].serial, publishState |-> state]}
    /\ queued' = Over(j)
    /\ UNCHANGED <<migration, signed, metadataRows, reboots, lost, unlisted, crossedOwners>>

\* A restart: the request is gone, an active job has stalled and is run again from
\* its start; one that stalls for the second time fails.
Interrupted(row) == row.pc # "waiting"

MigrationRestart ==
    LET fails == {j \in DOMAIN queued : Interrupted(queued[j]) /\ queued[j].stalled} IN
    /\ reboots < MaxRestarts
    /\ reboots' = reboots + 1
    /\ migration' = [m \in Administrators |->
                       IF migration[m].pc = "queue" THEN [pc |-> "done", left |-> {}] ELSE migration[m]]
    /\ queued' = [j \in DOMAIN queued \ fails |->
                    IF ~Interrupted(queued[j]) THEN queued[j]
                    ELSE [NewJob(queued[j].name, queued[j].owner,
                                 IF queued[j].name = "migrateUnrecordedPost" THEN queued[j].posts ELSE {},
                                 IF queued[j].name = "migrateUnrecordedPost" THEN queued[j].published ELSE {})
                            EXCEPT !.stalled = TRUE]]
    /\ lost' = lost \union
                 UNION {IF queued[j].name = "migrateUnrecordedPost" THEN queued[j].posts
                        ELSE EntriesOf[queued[j].owner] : j \in fails}
    /\ UNCHANGED <<signed, metadataRows, orderRows, unlisted, crossedOwners>>

QueuedStep(j) ==
    \/ StartQueued(j) \/ ListPosted(j) \/ ListPublished(j) \/ QueuePost(j)
    \/ ConvertPost(j) \/ FailPost(j) \/ SaveMetadata(j) \/ SaveOrder(j)

MigrationNext ==
    \/ \E m \in Administrators : FindUnrecordedUsers(m) \/ \E o \in Owners : QueueUser(m, o)
    \/ \E j \in DOMAIN queued : QueuedStep(j)
    \/ MigrationRestart

MigrationSpec == MigrationInit /\ [][MigrationNext]_migrationVars

-----------------------------------------------------------------------------
(* Properties. *)

\* A post with a certificate has one order, however often it is migrated, and any
\* other post has one too, unless its user was queued twice or a job was run again:
\* then the server has signed it anew.
OrderedOnce ==
    \A row, other \in orderRows :
        row.post = other.post /\ row # other =>
            /\ row.post \notin Certified
            /\ reboots > 0 \/ \E o \in crossedOwners : row.post \in EntriesOf[o]

\* A user with an order will not be queued again, so that all posts must be on their
\* way by then: each has an order, or a job, or one that will queue it, or its job
\* has failed. (A job run again after a restart has queued some, and lists none if
\* the list fails this time.)
RecordedIsComplete ==
    \A o \in Owners : Recorded(o) =>
        \A e \in EntriesOf[o] :
            \/ \E row \in orderRows : row.post = e
            \/ \E j \in JobsOf(o) : e \in queued[j].posts \/ queued[j].pc = "posted"
                                     \/ (queued[j].name = "findUnrecordedPosts" /\ queued[j].pc = "waiting")
            \/ e \in lost
            \/ reboots > 0 /\ o \in unlisted

\* The order of a post says that it is published exactly when it is on one of the
\* pages of the site, if they could all be read; and it has its metadata.
OrderMatchesSite ==
    \A row \in orderRows :
        /\ [post |-> row.post, serial |-> row.serial] \in metadataRows
        /\ row.publishState = "finished" => PageOf[row.post] # 0
        /\ row.publishState = "none" =>
              PageOf[row.post] = 0 \/ \E o \in unlisted : row.post \in EntriesOf[o]
=============================================================================
