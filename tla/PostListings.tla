---------------------------- MODULE PostListings -----------------------------
(***************************************************************************)
(* PostService.getPostsFromStorage: the posts of a site, read from the     *)
(* storage repository (drafted, posted) or from the pages of the site      *)
(* (published). The workers push to the repository while its tree and its  *)
(* blobs are fetched, and the address of the pages is kept for an hour     *)
(* under the id of the publisher, while the publisher can be edited.       *)
(***************************************************************************)
EXTENDS Naturals, FiniteSets

CONSTANTS
    Listings,           \* requests to post/storage/:siteConfigId
    Files,              \* names of files
    Publishers,         \* rows [type, id] of the two publisher tables, each the one of a site
    Accounted,          \* user and repository names a publisher row may have
    NoAddress,          \* undefined
    MaxPushes           \* bound: commits pushed

Folders == {"source/_posts", "source/_drafts", "themes/demo/source/_posts"}

\* path.includes: a file of the same folder somewhere below is found too.
IsIn(folder, findPath) ==
    \/ folder = findPath
    \/ folder = "themes/demo/source/_posts" /\ findPath = "source/_posts"

FindPath == [drafted |-> "source/_drafts", posted |-> "source/_posts"]

ASSUME ListingsAssumption ==
    /\ Publishers \subseteq [type: {"GITHUB", "GITEE"}, id: Nat]
    /\ MaxPushes \in Nat

VARIABLES
    files,              \* external: the repository; version 0 is no file
    pushes,
    named,              \* userName and repoName of each publisher row
    cached,             \* CACHE_KEY_PUB_TARGET_URL_<id>
    listing,
    staleIds            \* history: ids edited since their address was read

listingVars == <<files, pushes, named, cached, listing, staleIds>>

Ids == {p.id : p \in Publishers}

Addresses == [type: {"GITHUB", "GITEE"}, name: Accounted]

Versions == 0..(MaxPushes + 1)

FileRow == [folder: Folders, version: Versions]

NoFile == [folder |-> "source/_posts", version |-> 0]

Snapshots == [Files -> FileRow]

ListingRow ==
    [pc: {"idle", "tree", "blobs", "publisher", "cache", "set", "fetch", "done", "wrong"},
     state: {"drafted", "posted", "published"}, publisher: Publishers,
     seen: SUBSET Snapshots,                    \* history: the repository since the request
     tree: Snapshots \union {<<>>},             \* paths and SHAs; those found have a version
     blobs: [Files -> Versions],
     missing: SUBSET Files,
     address: Addresses \union {NoAddress}]

\* Types of the repository, the rows, the cache and the requests.
ListingsTypeOK ==
    /\ files \in Snapshots /\ pushes \in 0..MaxPushes
    /\ named \in [Publishers -> Accounted]
    /\ cached \in [Ids -> Addresses \union {NoAddress}]
    /\ \A r \in Listings : listing[r] \in ListingRow
    /\ staleIds \subseteq Ids

NewListing(p) ==
    [pc |-> "idle", state |-> "posted", publisher |-> p, seen |-> {}, tree |-> <<>>,
     blobs |-> [f \in Files |-> 0], missing |-> {}, address |-> NoAddress]

ListingsInit ==
    /\ files \in [Files -> {[folder |-> d, version |-> 1] : d \in Folders}]
    /\ pushes = 0
    /\ named \in [Publishers -> Accounted]
    /\ cached = [i \in Ids |-> NoAddress]
    /\ \E p \in Publishers : listing = [r \in Listings |-> NewListing(p)]
    /\ staleIds = {}

SetListing(r, row) == listing' = [listing EXCEPT ![r] = row]

-----------------------------------------------------------------------------
(* The repository. *)

\* A worker pushes a commit: files are written, moved or deleted. Requests that are
\* under way have then seen both.
Push ==
    /\ pushes < MaxPushes
    /\ pushes' = pushes + 1
    /\ \E changed \in SUBSET Files \ {{}} :
          \E now \in [changed -> {NoFile} \union [folder: Folders, version: {pushes + 2}]] :
              files' = [f \in Files |-> IF f \in changed THEN now[f] ELSE files[f]]
    /\ listing' = [r \in Listings |->
                     IF listing[r].pc = "tree" THEN [listing[r] EXCEPT !.seen = {files'}]
                     ELSE IF listing[r].pc = "blobs" THEN [listing[r] EXCEPT !.seen = @ \union {files'}]
                     ELSE listing[r]]
    /\ UNCHANGED <<named, cached, staleIds>>

\* getPostsFromStorage, the config of the site and the git info of its storage.
RequestList(r) ==
    /\ listing[r].pc = "idle"
    /\ \E p \in Publishers, state \in {"drafted", "posted", "published"} :
          SetListing(r, [NewListing(p) EXCEPT
                           !.pc = IF state = "published" THEN "publisher" ELSE "tree",
                           !.state = state,
                           !.seen = IF state = "published" THEN {} ELSE {files}])
    /\ UNCHANGED <<files, pushes, named, cached, staleIds>>

\* Anything throws: wrongData, which is an empty list.
WrongData(r) ==
    /\ listing[r].pc \notin {"idle", "done", "wrong"}
    /\ SetListing(r, [NewListing(listing[r].publisher) EXCEPT !.pc = "wrong", !.state = listing[r].state])
    /\ UNCHANGED <<files, pushes, named, cached, staleIds>>

Found(snapshot, state) ==
    {f \in Files : snapshot[f].version # 0 /\ IsIn(snapshot[f].folder, FindPath[state])}

\* getGitTreeList: the blobs whose path includes the folder.
ReadTree(r) ==
    LET row == listing[r] IN
    /\ row.pc = "tree"
    /\ SetListing(r, [row EXCEPT !.pc = "blobs", !.tree = files, !.missing = Found(files, row.state)])
    /\ UNCHANGED <<files, pushes, named, cached, staleIds>>

\* Mutation: the file is read by its path.
BlobOf_Path(row, f) == files[f].version

\* getGitBlob reads by the SHA of the tree.
BlobOf(row, f) == row.tree[f].version

\* getGitBlobsByTreeList: all at once, in any order.
ReadBlob(r, f) ==
    LET row == listing[r] IN
    /\ row.pc = "blobs" /\ f \in row.missing
    /\ SetListing(r, [row EXCEPT !.missing = @ \ {f}, !.blobs[f] = BlobOf(row, f)])
    /\ UNCHANGED <<files, pushes, named, cached, staleIds>>

\* All have been read, decoded and parsed.
ReturnPosts(r) ==
    /\ listing[r].pc = "blobs" /\ listing[r].missing = {}
    /\ SetListing(r, [listing[r] EXCEPT !.pc = "done"])
    /\ UNCHANGED <<files, pushes, named, cached, staleIds>>

-----------------------------------------------------------------------------
(* The pages. *)

\* The domain is of the type, and names the user; the path names the repository.
Address(p) == [type |-> p.type, name |-> named[p]]

Reading(i) ==
    \E r \in Listings : listing[r].pc \in {"cache", "set"} /\ listing[r].publisher.id = i

\* updatePublisherConfig: nothing is told to the cache.
EditPublisher(p) ==
    /\ \E n \in Accounted \ {named[p]} : named' = [named EXCEPT ![p] = n]
    /\ staleIds' = IF cached[p.id] # NoAddress \/ Reading(p.id) THEN staleIds \union {p.id} ELSE staleIds
    /\ UNCHANGED <<files, pushes, cached, listing>>

\* getPublisherConfig, and the address made of it;
ReadPublisher(r) ==
    LET row == listing[r] IN
    /\ row.pc = "publisher"
    /\ SetListing(r, [row EXCEPT !.pc = "cache", !.address = Address(row.publisher)])
    /\ UNCHANGED <<files, pushes, named, cached, staleIds>>

\* Mutation: one key for all.
CacheKey_One(p) == CHOOSE i \in Ids : TRUE

CacheKey(p) == p.id

\* one that is cached is taken instead; a cache that cannot be read has none.
ReadCache(r) ==
    LET row == listing[r]
        cache == cached[CacheKey(row.publisher)] IN
    /\ row.pc = "cache"
    /\ \/ /\ cache # NoAddress
          /\ SetListing(r, [row EXCEPT !.pc = "fetch", !.address = cache])
       \/ SetListing(r, [row EXCEPT !.pc = "set"])
    /\ UNCHANGED <<files, pushes, named, cached, staleIds>>

\* The address is kept for an hour, if the cache can be written.
WriteCache(r) ==
    LET row == listing[r] IN
    /\ row.pc = "set"
    /\ \E kept \in {cached, [cached EXCEPT ![CacheKey(row.publisher)] = row.address]} : cached' = kept
    /\ SetListing(r, [row EXCEPT !.pc = "fetch"])
    /\ UNCHANGED <<files, pushes, named, staleIds>>

\* GET <address>/api/posts.json.
FetchPage(r) ==
    /\ listing[r].pc = "fetch"
    /\ SetListing(r, [listing[r] EXCEPT !.pc = "done", !.address = NoAddress])
    /\ UNCHANGED <<files, pushes, named, cached, staleIds>>

ExpireAddress(i) ==
    /\ cached[i] # NoAddress
    /\ cached' = [cached EXCEPT ![i] = NoAddress]
    /\ staleIds' = IF Reading(i) THEN staleIds ELSE staleIds \ {i}
    /\ UNCHANGED <<files, pushes, named, listing>>

ListingStep(r) ==
    \/ RequestList(r) \/ WrongData(r)
    \/ ReadTree(r) \/ ReturnPosts(r) \/ \E f \in Files : ReadBlob(r, f)
    \/ ReadPublisher(r) \/ ReadCache(r) \/ WriteCache(r) \/ FetchPage(r)

ListingsNext ==
    \/ Push
    \/ \E r \in Listings : ListingStep(r)
    \/ \E p \in Publishers : EditPublisher(p)
    \/ \E i \in Ids : ExpireAddress(i)

ListingsSpec == ListingsInit /\ [][ListingsNext]_listingVars

-----------------------------------------------------------------------------
(* Properties. *)

\* A list from the repository is one the repository has had since the request: its
\* files and their texts are of one commit, whatever is pushed between the tree and
\* the last of the blobs.
ListIsOfOneCommit ==
    \A r \in Listings : LET row == listing[r] IN
        row.pc = "done" /\ row.state # "published" =>
            \E past \in row.seen :
                \A f \in Files :
                    row.blobs[f] = IF f \in Found(past, row.state) THEN past[f].version ELSE 0

\* The address a list of published posts is about to be read from is that of the
\* publisher of the site, or of the publisher of the other type that has its id, whose
\* table counts from 1 as well; or the publisher has been edited within the hour.
PagesAreOfThePublisher ==
    [][\A r \in Listings : LET row == listing'[r] IN
          listing[r].pc # "fetch" /\ row.pc = "fetch" =>
              \/ \E p \in Publishers : p.id = row.publisher.id /\ row.address = Address(p)
              \/ row.publisher.id \in staleIds]_listingVars
=============================================================================
