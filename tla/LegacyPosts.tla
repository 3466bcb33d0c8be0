---------------------------- MODULE LegacyPosts -----------------------------
(***************************************************************************)
(* PostService, in front of the post tasks: a request carries posts and    *)
(* the ids of the sites they are for. The posts' signatures are verified,  *)
(* all at once; then one row is inserted for each post and site; then each *)
(* site's task is started, which links the rows to the working directory   *)
(* they are edited in. The client is given the ids of the rows, to poll.   *)
(* What becomes of a task that has been started is in LegacyTasks.         *)
(***************************************************************************)
EXTENDS Naturals, Sequences, FiniteSets

CONSTANTS
    Submissions,    \* requests to post/storage/publish, update, delete and move
    Batches,        \* the lists of posts they carry
    Targets,        \* the lists of config ids they carry
    ConfigIds,      \* ids of configs,
    OwnConfigs,     \* those of the user,
    OthersConfigs,  \* and of other users; the others do not exist
    KeyOf,          \* processTitleWithHan: the key of each title
    NoTitle,        \* undefined
    MaxDirectories  \* bound: working directories named

Operations ==
    {"publish", "publishAsDraft", "update", "updateDraft", "delete", "deleteDraft", "toDraft", "toPost"}

PostStates ==
    {"pending", "pending_edit", "published", "site_published", "ignored", "deleted", "drafted", "invalid"}

Titles == DOMAIN KeyOf

\* StoragePostDto: a post refers to two metadata in a storage, the digest of its
\* author and the signature of that, or to neither; a good one can be read, parsed
\* and verified. The state is what the client says.
Metadata == {"none", "good", "bad"}

Articles ==
    [title: Titles, titleInStorage: Titles \union {NoTitle}, state: PostStates,
     digest: Metadata, signature: Metadata]

ASSUME PostsAssumption ==
    /\ \A b \in Batches : b \in Seq(Articles) /\ b # <<>>
    /\ \A t \in Targets : t \in Seq(ConfigIds) /\ t # <<>>
    /\ OwnConfigs \union OthersConfigs \subseteq ConfigIds
    /\ OwnConfigs \intersect OthersConfigs = {}
    /\ NoTitle \notin Titles
    /\ MaxDirectories \in Nat

VARIABLES
    call,           \* the requests
    uploaded,       \* external: the server verifications in the storage of metadata
    row,            \* the rows inserted, one after the other
    directory,      \* the key SITE_CONFIG_<id> of each config, 0 if absent
    madeFor         \* the config each directory was named for

postsVars == <<call, uploaded, row, directory, madeFor>>

CallState ==
    [pc: {"idle", "verify", "rows", "directory", "generate", "link", "returned", "failed"},
     op: Operations, batch: Batches \union {<<>>}, targets: Targets \union {<<>>},
     verified: Seq({"no", "digest", "signature", "uploaded", "unsigned", "refused"}),  \* each post
     next: Nat,                     \* the post, then the target, of the loop
     directory: 0..MaxDirectories]

RowState ==
    [call: Submissions, post: Nat, config: OwnConfigs, key: {KeyOf[t] : t \in Titles},
     action: {"CREATE", "UPDATE", "DELETE"}, directory: 0..MaxDirectories]

\* Types of the requests, the rows and the keys.
PostsTypeOK ==
    /\ call \in [Submissions -> CallState]
    /\ uploaded \subseteq Submissions \X Nat
    /\ row \in Seq(RowState)
    /\ directory \in [OwnConfigs -> 0..MaxDirectories]
    /\ madeFor \in Seq(OwnConfigs) /\ Len(madeFor) <= MaxDirectories

NewCall ==
    [pc |-> "idle", op |-> "publish", batch |-> <<>>, targets |-> <<>>, verified |-> <<>>,
     next |-> 1, directory |-> 0]

PostsInit ==
    /\ call = [r \in Submissions |-> NewCall]
    /\ uploaded = {}
    /\ row = <<>>
    /\ directory = [c \in OwnConfigs |-> 0]
    /\ madeFor = <<>>

-----------------------------------------------------------------------------
(* The four endpoints; the query parameter draft doubles them. *)

\* The states publishPostsToStorage, updatePostsInStorage, deletePostsOnStorage
\* and movePostsInStorage ask for.
PublishAllows == {"pending", "pending_edit"}

UpdateAllows(draft) == IF draft THEN {"drafted"} ELSE {"published"}

DeleteAllows == {"published", "drafted"}

MoveAllows(toDraft) == IF toDraft THEN {"published"} ELSE {"drafted"}

Allows(op) ==
    CASE op \in {"publish", "publishAsDraft"} -> PublishAllows
      [] op \in {"update", "updateDraft"}     -> UpdateAllows(op = "updateDraft")
      [] op \in {"delete", "deleteDraft"}     -> DeleteAllows
      [] op \in {"toDraft", "toPost"}         -> MoveAllows(op = "toDraft")

ActionOf(op) ==
    CASE op \in {"publish", "publishAsDraft"} -> "CREATE"
      [] op \in {"delete", "deleteDraft"}     -> "DELETE"
      [] OTHER                                -> "UPDATE"

Elements(s) == {s[i] : i \in 1..Len(s)}

\* validateSiteConfigsUserId: those that exist are the user's, and one does.
MayUse(targets) ==
    /\ Elements(targets) \intersect (OwnConfigs \union OthersConfigs) # {}
    /\ Elements(targets) \intersect OthersConfigs = {}

Step(r, fields) == call' = [call EXCEPT ![r] = fields]

Submit(r) ==
    /\ call[r].pc = "idle"
    /\ \E op \in Operations, batch \in Batches, targets \in Targets :
         /\ MayUse(targets)
         /\ Step(r, [NewCall EXCEPT !.pc = "verify", !.op = op, !.batch = batch, !.targets = targets,
                       !.verified = [i \in 1..Len(batch) |-> "no"]])
    /\ UNCHANGED <<uploaded, row, directory, madeFor>>

\* The request throws, past the verification: at the preprocessor, the database or
\* Redis. What it has written so far stays.
CallFails(r) ==
    /\ call[r].pc \notin {"idle", "verify", "returned", "failed"}
    /\ Step(r, [call[r] EXCEPT !.pc = "failed"])
    /\ UNCHANGED <<uploaded, row, directory, madeFor>>

-----------------------------------------------------------------------------
(* Verification. *)

\* The posts are verified side by side, each one in three calls of the storage. The
\* first to be refused ends the request; the others go on.
Verifying(r, i, stage) ==
    /\ call[r].pc \in {"verify", "failed"} /\ i \in DOMAIN call[r].batch
    /\ call[r].verified[i] = stage

Verified(r, i, stage) == Step(r, [call[r] EXCEPT !.verified[i] = stage])

Refused(r, i) == Step(r, [call[r] EXCEPT !.pc = "failed", !.verified[i] = "refused"])

\* Nothing to verify, half of it, or a digest to read.
ValidateDigest(r, i) ==
    LET a == call[r].batch[i] IN
    /\ Verifying(r, i, "no")
    /\ IF a.digest = "none" /\ a.signature = "none" THEN Verified(r, i, "unsigned")
       ELSE IF a.digest = "good" /\ a.signature # "none" THEN Verified(r, i, "digest")
       ELSE Refused(r, i)
    /\ UNCHANGED <<uploaded, row, directory, madeFor>>

ValidateSignature(r, i) ==
    /\ Verifying(r, i, "digest")
    /\ IF call[r].batch[i].signature = "good" THEN Verified(r, i, "signature") ELSE Refused(r, i)
    /\ UNCHANGED <<uploaded, row, directory, madeFor>>

\* The server's verification of both is generated and uploaded.
UploadVerification(r, i) ==
    /\ Verifying(r, i, "signature")
    /\ uploaded' = uploaded \union {<<r, i>>}
    /\ Verified(r, i, "uploaded")
    /\ UNCHANGED <<row, directory, madeFor>>

\* A storage of metadata does not answer.
VerificationFails(r, i) ==
    /\ \/ call[r].batch[i].digest # "none"
       \/ call[r].batch[i].signature # "none"
    /\ \E stage \in {"no", "digest", "signature"} : Verifying(r, i, stage)
    /\ Refused(r, i)
    /\ UNCHANGED <<uploaded, row, directory, madeFor>>

\* Mutation: the first verification to end is enough.
AllVerified_Any(r) == \E i \in DOMAIN call[r].verified : call[r].verified[i] \in {"uploaded", "unsigned"}

AllVerified(r) == \A i \in DOMAIN call[r].verified : call[r].verified[i] \in {"uploaded", "unsigned"}

\* Check post entities: every title, and every state.
Checked(r) ==
    \A i \in DOMAIN call[r].batch :
        /\ call[r].batch[i].title # ""
        /\ call[r].batch[i].state \in Allows(call[r].op)

CheckArticles(r) ==
    /\ call[r].pc = "verify" /\ AllVerified(r)
    /\ Step(r, [call[r] EXCEPT !.pc = IF Checked(r) THEN "rows" ELSE "failed"])
    /\ UNCHANGED <<uploaded, row, directory, madeFor>>

-----------------------------------------------------------------------------
(* Rows, and tasks. *)

\* generatePostInfoFromStoragePostEntity: a post that is renamed goes by the title
\* it has in the storage.
Renamed(a) == a.titleInStorage # NoTitle /\ a.titleInStorage # a.title

InfoTitle(a) == IF Renamed(a) THEN a.titleInStorage ELSE a.title

RowKey(a) == KeyOf[InfoTitle(a)]

\* Mutation: by the title the post is given.
LinkKey_NewTitle(a) == KeyOf[a.title]

\* The tasks look for the rows by the titles of the same infos.
LinkKey(a) == KeyOf[InfoTitle(a)]

\* createPostSiteConfigRelas of the next post: one save for all sites. It throws if
\* a config does not exist.
InsertRows(r) ==
    LET c == call[r]
        new == [j \in 1..Len(c.targets) |->
                  [call |-> r, post |-> c.next, config |-> c.targets[j], key |-> RowKey(c.batch[c.next]),
                   action |-> ActionOf(c.op), directory |-> 0]] IN
    /\ c.pc = "rows"
    /\ IF Elements(c.targets) \subseteq OwnConfigs
       THEN /\ row' = row \o new
            /\ Step(r, IF c.next < Len(c.batch) THEN [c EXCEPT !.next = @ + 1]
                       ELSE [c EXCEPT !.pc = "directory", !.next = 1])
       ELSE Step(r, [c EXCEPT !.pc = "failed"]) /\ UNCHANGED row
    /\ UNCHANGED <<uploaded, directory, madeFor>>

\* createPost and its siblings, for the next site: read the key,
ReadDirectory(r) ==
    LET c == call[r]
        d == directory[c.targets[c.next]] IN
    /\ c.pc = "directory"
    /\ Step(r, [c EXCEPT !.pc = IF d = 0 THEN "generate" ELSE "link", !.directory = d])
    /\ UNCHANGED <<uploaded, row, directory, madeFor>>

\* or write a new name, whatever it holds by then;
NameDirectory(r) ==
    LET c == call[r]
        d == Len(madeFor) + 1 IN
    /\ c.pc = "generate" /\ d <= MaxDirectories
    /\ madeFor' = Append(madeFor, c.targets[c.next])
    /\ directory' = [directory EXCEPT ![c.targets[c.next]] = d]
    /\ Step(r, [c EXCEPT !.pc = "link", !.directory = d])
    /\ UNCHANGED <<uploaded, row>>

\* the rows of the site with one of the titles are linked to it. The task goes on
\* by itself; after the last site, the ids and the new state are returned.
LinkRows(r) ==
    LET c == call[r]
        keys == {LinkKey(a) : a \in Elements(c.batch)} IN
    /\ c.pc = "link"
    /\ row' = [i \in DOMAIN row |->
                 IF row[i].config = c.targets[c.next] /\ row[i].key \in keys
                 THEN [row[i] EXCEPT !.directory = c.directory] ELSE row[i]]
    /\ Step(r, IF c.next < Len(c.targets) THEN [c EXCEPT !.pc = "directory", !.next = @ + 1]
               ELSE [c EXCEPT !.pc = "returned"])
    /\ UNCHANGED <<uploaded, directory, madeFor>>

\* The key expires, or the last task deletes it.
DropDirectory(c) ==
    /\ directory[c] # 0
    /\ directory' = [directory EXCEPT ![c] = 0]
    /\ UNCHANGED <<call, uploaded, row, madeFor>>

CallStep(r) ==
    \/ Submit(r) \/ CheckArticles(r) \/ InsertRows(r)
    \/ ReadDirectory(r) \/ NameDirectory(r) \/ LinkRows(r) \/ CallFails(r)
    \/ \E i \in 1..Len(call[r].batch) :
          \/ ValidateDigest(r, i) \/ ValidateSignature(r, i) \/ UploadVerification(r, i)
          \/ VerificationFails(r, i)

PostsNext ==
    \/ \E r \in Submissions : CallStep(r)
    \/ \E c \in OwnConfigs : DropDirectory(c)

PostsSpec == PostsInit /\ [][PostsNext]_postsVars

-----------------------------------------------------------------------------
(* Properties. *)

RowsOf(r) == {i \in DOMAIN row : row[i].call = r}

\* The rows whose ids a client is given are one for each post and each site of its
\* request, and every one of them is linked to a directory named for its site, by
\* this request or a later one of the same title: none will stay TODO because no
\* task knows of it.
ReturnedRowsAreLinked ==
    \A r \in Submissions :
        call[r].pc = "returned" =>
            /\ Cardinality(RowsOf(r)) = Len(call[r].batch) * Len(call[r].targets)
            /\ \A i \in 1..Len(call[r].batch), c \in Elements(call[r].targets) :
                  \E k \in RowsOf(r) : row[k].post = i /\ row[k].config = c
            /\ \A k \in RowsOf(r) : row[k].directory # 0 /\ madeFor[row[k].directory] = row[k].config

\* No row is written for a request before all its posts have passed: one with half a
\* signature, a bad one or a wrong state keeps the others out too, in whatever order
\* their verifications end, those included that go on when the request has failed; and
\* each signed one has its server verification by then.
RowsAreOfPassedPosts ==
    \A k \in DOMAIN row : LET r == row[k].call IN
        \A i \in DOMAIN call[r].batch : LET a == call[r].batch[i] IN
            /\ a.state \in Allows(call[r].op)
            /\ a.digest = a.signature /\ a.digest # "bad"
            /\ a.digest = "good" => <<r, i>> \in uploaded
=============================================================================
