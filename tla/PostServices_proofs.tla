------------------------ MODULE PostServices_proofs ------------------------
(***************************************************************************)
(* The services beside the posts: the lists of posts, the migration, the   *)
(* sockets and the synchronization. What each promises holds for any       *)
(* number of requests, files, users, jobs and sockets, and for all that    *)
(* may go wrong.                                                           *)
(***************************************************************************)
EXTENDS PostListings, PostMigration, RealTimeEvents, Synchronizer,
    SequenceTheorems, FiniteSetTheorems, TLAPS

(***************************************************************************)
(* Listings.                                                               *)
(***************************************************************************)

\* What a list of the files that are read already holds.
ReadSoFar(row) ==
    \A f \in Files :
        row.blobs[f] = IF f \in Found(row.tree, row.state) \ row.missing THEN row.tree[f].version ELSE 0

\* A list is of the commit past.
IsOfCommit(row, past) ==
    \A f \in Files : row.blobs[f] = IF f \in Found(past, row.state) THEN past[f].version ELSE 0

\* What is known of a request at the statement it has come to, when the repository
\* holds the files now.
ListingFits(row, now) ==
    /\ row.pc = "tree" =>
         row.state # "published" /\ now \in row.seen /\ \A f \in Files : row.blobs[f] = 0
    /\ row.pc = "blobs" =>
         /\ row.state # "published" /\ row.tree \in row.seen
         /\ row.tree \in Snapshots
         /\ row.missing \subseteq Found(row.tree, row.state)
         /\ ReadSoFar(row)
    /\ row.pc \in {"publisher", "cache", "set", "fetch"} => row.state = "published"
    /\ row.pc = "done" /\ row.state # "published" => \E past \in row.seen : IsOfCommit(row, past)

\* The address a request has read is that of its publisher, or stale.
AddressFits(row, names, stale) ==
    row.pc \in {"cache", "set"} =>
        \/ row.address = [type |-> row.publisher.type, name |-> names[row.publisher]]
        \/ row.publisher.id \in stale

\* A cached address is that of one of the publishers of the id, or stale.
CacheFits ==
    \A i \in Ids :
        cached[i] # NoAddress =>
            \/ \E p \in Publishers : p.id = i /\ cached[i] = Address(p)
            \/ i \in staleIds

\* The inductive invariant of the listings.
ListingsInv ==
    /\ listing \in [Listings -> ListingRow]
    /\ ListingsTypeOK
    /\ \A r \in Listings : ListingFits(listing[r], files)
    /\ CacheFits
    /\ \A r \in Listings : AddressFits(listing[r], named, staleIds)

\* A new request is of the right type.
LEMMA NewListingTyped ==
    ASSUME NEW p \in Publishers
    PROVE  NewListing(p) \in ListingRow
  BY ListingsAssumption DEF NewListing, ListingRow, Versions

\* A step that moves one request only keeps the invariant, if it keeps the part that is
\* about this request.
LEMMA OneListing ==
    ASSUME ListingsInv, NEW r \in Listings, NEW row \in ListingRow, SetListing(r, row),
           UNCHANGED <<files, pushes, named, cached, staleIds>>,
           ListingFits(row, files), AddressFits(row, named, staleIds)
    PROVE  ListingsInv'
<1>1. listing' \in [Listings -> ListingRow] BY DEF ListingsInv, SetListing
<1>2. \A q \in Listings : listing'[q] = IF q = r THEN row ELSE listing[q]
  BY DEF ListingsInv, SetListing
<1>3. ListingsTypeOK' BY <1>1 DEF ListingsInv, ListingsTypeOK
<1>4. CacheFits' BY DEF ListingsInv, CacheFits, Address
<1>5. \A q \in Listings : ListingFits(listing'[q], files') /\ AddressFits(listing'[q], named', staleIds')
  BY <1>2 DEF ListingsInv
<1> QED BY <1>1, <1>3, <1>4, <1>5 DEF ListingsInv

\* The steps of one request that leave the cache alone.
LEMMA RequestKeeps ==
    ASSUME ListingsInv, NEW r \in Listings,
           \/ RequestList(r) \/ WrongData(r)
           \/ ReadTree(r) \/ ReturnPosts(r) \/ \E f \in Files : ReadBlob(r, f)
           \/ ReadPublisher(r) \/ ReadCache(r) \/ FetchPage(r)
    PROVE  ListingsInv'
<1> DEFINE row == listing[r]
<1>1. row \in ListingRow /\ ListingFits(row, files) /\ AddressFits(row, named, staleIds)
  BY DEF ListingsInv
<1>2. /\ files \in Snapshots /\ named \in [Publishers -> Accounted]
      /\ cached \in [Ids -> Addresses \union {NoAddress}]
  BY DEF ListingsInv, ListingsTypeOK
<1>3. row.publisher \in Publishers /\ row.publisher.id \in Ids
  BY <1>1 DEF ListingRow, Ids
<1>4. CASE RequestList(r)
  <2>1. PICK p \in Publishers, state \in {"drafted", "posted", "published"} :
           SetListing(r, [NewListing(p) EXCEPT
                            !.pc = IF state = "published" THEN "publisher" ELSE "tree",
                            !.state = state,
                            !.seen = IF state = "published" THEN {} ELSE {files}])
    BY <1>4 DEF RequestList
  <2> DEFINE new == [NewListing(p) EXCEPT
                       !.pc = IF state = "published" THEN "publisher" ELSE "tree",
                       !.state = state,
                       !.seen = IF state = "published" THEN {} ELSE {files}]
  <2>2. new \in ListingRow
    <3>1. (IF state = "published" THEN {} ELSE {files}) \in SUBSET Snapshots BY <1>2
    <3>2. (IF state = "published" THEN "publisher" ELSE "tree") \in {"publisher", "tree"}
      OBVIOUS
    <3>3. ASSUME NEW now \in ListingRow, NEW seen \in SUBSET Snapshots,
                 NEW pc \in {"publisher", "tree"}
          PROVE  [now EXCEPT !.pc = pc, !.state = state, !.seen = seen] \in ListingRow
      <4>1. state \in {"drafted", "posted", "published"} BY <2>1
      <4> QED BY <4>1 DEF ListingRow
    <3> QED BY <3>1, <3>2, <3>3, NewListingTyped
  <2>3. ListingFits(new, files) /\ AddressFits(new, named, staleIds)
    BY DEF ListingFits, AddressFits, NewListing
  <2> QED BY <2>1, <2>2, <2>3, <1>4, OneListing DEF RequestList
<1>5. CASE WrongData(r)
  <2> DEFINE new == [NewListing(row.publisher) EXCEPT !.pc = "wrong", !.state = row.state]
  <2>1. new \in ListingRow BY <1>1, <1>3, NewListingTyped DEF ListingRow
  <2>2. ListingFits(new, files) /\ AddressFits(new, named, staleIds)
    BY DEF ListingFits, AddressFits, NewListing
  <2> QED BY <2>1, <2>2, <1>5, OneListing DEF WrongData
<1>6. CASE ReadTree(r)
  <2> DEFINE new == [row EXCEPT !.pc = "blobs", !.tree = files, !.missing = Found(files, row.state)]
  <2>1. new \in ListingRow BY <1>1, <1>2 DEF ListingRow, Found
  <2>2. ListingFits(new, files)
    BY <1>1, <1>2, <1>6 DEF ReadTree, ListingFits, ListingRow, ReadSoFar
  <2>3. AddressFits(new, named, staleIds) BY <1>1 DEF AddressFits, ListingRow
  <2> QED BY <2>1, <2>2, <2>3, <1>6, OneListing DEF ReadTree
<1>7. CASE ReturnPosts(r)
  <2> DEFINE new == [row EXCEPT !.pc = "done"]
  <2>1. new \in ListingRow BY <1>1 DEF ListingRow
  <2>2. IsOfCommit(new, row.tree) /\ row.tree \in new.seen
    BY <1>1, <1>7 DEF ReturnPosts, ListingFits, ListingRow, ReadSoFar, IsOfCommit
  <2>3. ListingFits(new, files) BY <1>1, <2>2 DEF ListingFits, ListingRow
  <2>4. AddressFits(new, named, staleIds) BY <1>1 DEF AddressFits, ListingRow
  <2> QED BY <2>1, <2>3, <2>4, <1>7, OneListing DEF ReturnPosts
<1>8. ASSUME NEW f \in Files, ReadBlob(r, f) PROVE ListingsInv'
  <2> DEFINE new == [row EXCEPT !.missing = @ \ {f}, !.blobs[f] = BlobOf(row, f)]
  <2>1. row.pc = "blobs" /\ f \in row.missing BY <1>8 DEF ReadBlob
  <2>2. /\ row.tree \in Snapshots /\ row.missing \subseteq Found(row.tree, row.state)
        /\ ReadSoFar(row) /\ row.tree \in row.seen /\ row.state # "published"
    BY <2>1, <1>1 DEF ListingFits
  <2>3. BlobOf(row, f) = row.tree[f].version /\ BlobOf(row, f) \in Versions
    BY <2>2 DEF BlobOf, Snapshots, FileRow
  <2>4. new \in ListingRow BY <1>1, <2>3 DEF ListingRow
  <2>5. ReadSoFar(new) BY <1>1, <2>1, <2>2, <2>3 DEF ReadSoFar, ListingRow
  <2>6. ListingFits(new, files) BY <1>1, <2>1, <2>2, <2>5 DEF ListingFits, ListingRow
  <2>7. AddressFits(new, named, staleIds) BY <1>1 DEF AddressFits, ListingRow
  <2> QED BY <2>4, <2>6, <2>7, <1>8, OneListing DEF ReadBlob
<1>9. CASE ReadPublisher(r)
  <2> DEFINE new == [row EXCEPT !.pc = "cache", !.address = Address(row.publisher)]
  <2>1. row.publisher.type \in {"GITHUB", "GITEE"} /\ named[row.publisher] \in Accounted
    BY <1>2, <1>3, ListingsAssumption
  <2>2. Address(row.publisher) \in Addresses BY <2>1 DEF Address, Addresses
  <2>3. new \in ListingRow BY <1>1, <2>2 DEF ListingRow
  <2>4. ListingFits(new, files) /\ AddressFits(new, named, staleIds)
    BY <1>1, <1>9 DEF ReadPublisher, ListingFits, AddressFits, ListingRow, Address
  <2> QED BY <2>3, <2>4, <1>9, OneListing DEF ReadPublisher
<1>10. CASE ReadCache(r)
  <2> DEFINE cache == cached[CacheKey(row.publisher)]
             hit == [row EXCEPT !.pc = "fetch", !.address = cache]
             miss == [row EXCEPT !.pc = "set"]
  <2>1. cache \in Addresses \union {NoAddress} BY <1>2, <1>3 DEF CacheKey
  <2>2. hit \in ListingRow /\ miss \in ListingRow BY <1>1, <2>1 DEF ListingRow
  <2>3. /\ ListingFits(hit, files) /\ AddressFits(hit, named, staleIds)
        /\ ListingFits(miss, files) /\ AddressFits(miss, named, staleIds)
    BY <1>1, <1>10 DEF ReadCache, ListingFits, AddressFits, ListingRow
  <2>4. SetListing(r, hit) \/ SetListing(r, miss) BY <1>10 DEF ReadCache
  <2> QED BY <2>2, <2>3, <2>4, <1>10, OneListing DEF ReadCache
<1>11. CASE FetchPage(r)
  <2> DEFINE new == [row EXCEPT !.pc = "done", !.address = NoAddress]
  <2>1. new \in ListingRow BY <1>1 DEF ListingRow
  <2>2. ListingFits(new, files) /\ AddressFits(new, named, staleIds)
    BY <1>1, <1>11 DEF FetchPage, ListingFits, AddressFits, ListingRow
  <2> QED BY <2>1, <2>2, <1>11, OneListing DEF FetchPage
<1> QED BY <1>4, <1>5, <1>6, <1>7, <1>8, <1>9, <1>10, <1>11

\* An address is kept under the id of its publisher.
LEMMA WriteCacheKeeps ==
    ASSUME ListingsInv, NEW r \in Listings, WriteCache(r)
    PROVE  ListingsInv'
<1> DEFINE row == listing[r]
           new == [row EXCEPT !.pc = "fetch"]
<1>1. row \in ListingRow /\ ListingFits(row, files) /\ AddressFits(row, named, staleIds)
  BY DEF ListingsInv
<1>2. row.pc = "set" /\ row.publisher \in Publishers /\ row.publisher.id \in Ids
  BY <1>1 DEF WriteCache, ListingRow, Ids
<1>3. new \in ListingRow BY <1>1 DEF ListingRow
<1>4. ListingFits(new, files) /\ AddressFits(new, named, staleIds)
  BY <1>1, <1>2 DEF ListingFits, AddressFits, ListingRow
<1>5. /\ listing' \in [Listings -> ListingRow]
      /\ \A q \in Listings : listing'[q] = IF q = r THEN new ELSE listing[q]
  BY <1>3 DEF WriteCache, SetListing, ListingsInv
<1>6. \A q \in Listings : ListingFits(listing'[q], files') /\ AddressFits(listing'[q], named', staleIds')
  BY <1>4, <1>5 DEF ListingsInv, WriteCache
<1>7. cached \in [Ids -> Addresses \union {NoAddress}] BY DEF ListingsInv, ListingsTypeOK
<1>8. cached' \in {cached, [cached EXCEPT ![row.publisher.id] = row.address]}
  BY DEF WriteCache, CacheKey
<1>9. /\ cached' \in [Ids -> Addresses \union {NoAddress}]
      /\ \A i \in Ids : cached'[i] = cached[i] \/ (i = row.publisher.id /\ cached'[i] = row.address)
  BY <1>1, <1>7, <1>8 DEF ListingRow
<1>10. row.address = Address(row.publisher) \/ row.publisher.id \in staleIds
  BY <1>1, <1>2 DEF AddressFits, Address
<1>11. CacheFits' BY <1>2, <1>9, <1>10 DEF ListingsInv, CacheFits, WriteCache, Address
<1>12. ListingsTypeOK' BY <1>5, <1>9 DEF ListingsInv, ListingsTypeOK, WriteCache
<1> QED BY <1>5, <1>6, <1>11, <1>12 DEF ListingsInv

\* A commit is seen by every request that is under way.
LEMMA PushKeeps ==
    ASSUME ListingsInv, Push
    PROVE  ListingsInv'
<1>1. PICK changed \in SUBSET Files \ {{}} :
         \E now \in [changed -> {NoFile} \union [folder: Folders, version: {pushes + 2}]] :
             files' = [f \in Files |-> IF f \in changed THEN now[f] ELSE files[f]]
  BY DEF Push
<1>2. PICK now \in [changed -> {NoFile} \union [folder: Folders, version: {pushes + 2}]] :
         files' = [f \in Files |-> IF f \in changed THEN now[f] ELSE files[f]]
  BY <1>1
<1>3. pushes \in Nat /\ MaxPushes \in Nat /\ pushes < MaxPushes /\ pushes' = pushes + 1
  BY ListingsAssumption DEF Push, ListingsInv, ListingsTypeOK
<1>4. NoFile \in FileRow BY <1>3 DEF NoFile, FileRow, Folders, Versions
<1>5. [folder: Folders, version: {pushes + 2}] \subseteq FileRow BY <1>3 DEF FileRow, Versions
<1>6. \A f \in Files : files[f] \in FileRow BY DEF ListingsInv, ListingsTypeOK, Snapshots
<1>7. \A f \in changed : now[f] \in FileRow BY <1>4, <1>5
<1>8. files' \in Snapshots BY <1>2, <1>6, <1>7 DEF Snapshots
<1>9. \A r \in Listings :
        listing'[r] = IF listing[r].pc = "tree" THEN [listing[r] EXCEPT !.seen = {files'}]
                      ELSE IF listing[r].pc = "blobs" THEN [listing[r] EXCEPT !.seen = @ \union {files'}]
                      ELSE listing[r]
  BY DEF Push
<1>10. ASSUME NEW r \in Listings
       PROVE  /\ listing'[r] \in ListingRow /\ ListingFits(listing'[r], files')
              /\ AddressFits(listing'[r], named', staleIds')
  <2>1. /\ listing[r] \in ListingRow /\ ListingFits(listing[r], files)
        /\ AddressFits(listing[r], named, staleIds)
    BY DEF ListingsInv
  <2>2. named' = named /\ staleIds' = staleIds BY DEF Push
  <2>3. CASE listing[r].pc = "tree"
    <3>1. listing'[r] = [listing[r] EXCEPT !.seen = {files'}] BY <1>9, <2>3
    <3>2. listing'[r] \in ListingRow BY <1>8, <2>1, <3>1 DEF ListingRow
    <3>3. ListingFits(listing'[r], files') BY <2>1, <2>3, <3>1 DEF ListingRow, ListingFits
    <3>4. AddressFits(listing'[r], named', staleIds')
      BY <2>1, <2>2, <2>3, <3>1 DEF ListingRow, AddressFits
    <3> QED BY <3>2, <3>3, <3>4
  <2>4. CASE listing[r].pc = "blobs"
    <3>1. listing'[r] = [listing[r] EXCEPT !.seen = @ \union {files'}] BY <1>9, <2>4
    <3>2. listing'[r] \in ListingRow BY <1>8, <2>1, <3>1 DEF ListingRow
    <3>3. ListingFits(listing'[r], files')
      BY <2>1, <2>4, <3>1 DEF ListingRow, ListingFits, ReadSoFar
    <3>4. AddressFits(listing'[r], named', staleIds')
      BY <2>1, <2>2, <2>4, <3>1 DEF ListingRow, AddressFits
    <3> QED BY <3>2, <3>3, <3>4
  <2>5. CASE listing[r].pc \notin {"tree", "blobs"}
    BY <1>9, <2>1, <2>2, <2>5 DEF ListingFits, AddressFits
  <2> QED BY <2>3, <2>4, <2>5
<1>11. listing' = [r \in Listings |-> listing'[r]] BY DEF Push
<1>12. listing' \in [Listings -> ListingRow] BY <1>10, <1>11
<1>13. CacheFits' BY DEF ListingsInv, CacheFits, Address, Push
<1>14. pushes' \in 0..MaxPushes BY <1>3
<1>15. ListingsTypeOK' BY <1>8, <1>10, <1>14 DEF ListingsInv, ListingsTypeOK, Push
<1> QED BY <1>10, <1>12, <1>13, <1>15 DEF ListingsInv

\* An edit makes stale what is cached, or about to be, for the id.
LEMMA PublisherKeeps ==
    ASSUME ListingsInv,
           \/ \E p \in Publishers : EditPublisher(p)
           \/ \E i \in Ids : ExpireAddress(i)
    PROVE  ListingsInv'
<1>1. ASSUME NEW p \in Publishers, EditPublisher(p) PROVE ListingsInv'
  <2>1. PICK n \in Accounted \ {named[p]} : named' = [named EXCEPT ![p] = n]
    BY <1>1 DEF EditPublisher
  <2>2. named \in [Publishers -> Accounted] /\ staleIds \subseteq Ids /\ p.id \in Ids
    BY DEF ListingsInv, ListingsTypeOK, Ids
  <2>3. /\ named' \in [Publishers -> Accounted]
        /\ \A q \in Publishers : q # p => named'[q] = named[q]
    BY <2>1, <2>2
  <2>4. /\ staleIds \subseteq staleIds' /\ staleIds' \subseteq Ids
        /\ cached[p.id] # NoAddress \/ Reading(p.id) => p.id \in staleIds'
    BY <1>1, <2>2 DEF EditPublisher
  <2>5. CacheFits'
    BY <1>1, <2>3, <2>4 DEF ListingsInv, CacheFits, EditPublisher, Address
  <2>6. ASSUME NEW r \in Listings PROVE AddressFits(listing'[r], named', staleIds')
    <3>1. AddressFits(listing[r], named, staleIds) /\ listing'[r] = listing[r]
          /\ listing[r] \in ListingRow
      BY <1>1 DEF ListingsInv, EditPublisher
    <3>2. CASE listing[r].publisher = p
      BY <2>4, <3>1, <3>2 DEF AddressFits, Reading
    <3>3. CASE listing[r].publisher # p
      BY <2>3, <2>4, <3>1, <3>3 DEF AddressFits, ListingRow
    <3> QED BY <3>2, <3>3
  <2> QED BY <1>1, <2>3, <2>4, <2>5, <2>6 DEF ListingsInv, ListingsTypeOK, EditPublisher
<1>2. ASSUME NEW i \in Ids, ExpireAddress(i) PROVE ListingsInv'
  <2>1. /\ cached' \in [Ids -> Addresses \union {NoAddress}]
        /\ cached'[i] = NoAddress
        /\ \A j \in Ids : j # i => cached'[j] = cached[j]
    BY <1>2 DEF ListingsInv, ListingsTypeOK, ExpireAddress
  <2>2. /\ staleIds' \subseteq staleIds /\ \A j \in staleIds : j # i => j \in staleIds'
        /\ Reading(i) => staleIds' = staleIds
    BY <1>2 DEF ExpireAddress
  <2>3. CacheFits' BY <1>2, <2>1, <2>2 DEF ListingsInv, CacheFits, ExpireAddress, Address
  <2>4. ASSUME NEW r \in Listings PROVE AddressFits(listing'[r], named', staleIds')
    <3>1. AddressFits(listing[r], named, staleIds) /\ listing' = listing /\ named' = named
      BY <1>2 DEF ListingsInv, ExpireAddress
    <3> QED BY <2>2, <3>1 DEF AddressFits, Reading
  <2> QED BY <1>2, <2>1, <2>2, <2>3, <2>4 DEF ListingsInv, ListingsTypeOK, ExpireAddress
<1> QED BY <1>1, <1>2

LEMMA ListingsStep == ListingsInv /\ [ListingsNext]_listingVars => ListingsInv'
<1> SUFFICES ASSUME ListingsInv, [ListingsNext]_listingVars PROVE ListingsInv'
  OBVIOUS
<1>1. CASE UNCHANGED listingVars
  BY <1>1 DEF listingVars, ListingsInv, ListingsTypeOK, CacheFits, Address
<1>2. CASE Push BY <1>2, PushKeeps
<1>3. ASSUME NEW r \in Listings, ListingStep(r) PROVE ListingsInv'
  BY <1>3, RequestKeeps, WriteCacheKeeps DEF ListingStep
<1>4. CASE \/ \E p \in Publishers : EditPublisher(p) \/ \E i \in Ids : ExpireAddress(i)
  BY <1>4, PublisherKeeps
<1>5. CASE \E i \in Ids : ExpireAddress(i) BY <1>5, PublisherKeeps
<1> QED BY <1>1, <1>2, <1>3, <1>4, <1>5 DEF ListingsNext

LEMMA ListingsStart == ListingsInit => ListingsInv
<1> SUFFICES ASSUME ListingsInit PROVE ListingsInv
  OBVIOUS
<1>1. PICK p \in Publishers : listing = [r \in Listings |-> NewListing(p)] BY DEF ListingsInit
<1>2. listing \in [Listings -> ListingRow] /\ \A r \in Listings : listing[r] = NewListing(p)
  BY <1>1, NewListingTyped
<1>3. \A r \in Listings : ListingFits(listing[r], files) /\ AddressFits(listing[r], named, staleIds)
  BY <1>2 DEF NewListing, ListingFits, AddressFits
<1>4. files \in Snapshots
  BY ListingsAssumption DEF ListingsInit, Snapshots, FileRow, Versions
<1>5. CacheFits BY DEF ListingsInit, CacheFits
<1>6. ListingsTypeOK BY <1>2, <1>4, ListingsAssumption DEF ListingsInit, ListingsTypeOK
<1> QED BY <1>2, <1>3, <1>5, <1>6 DEF ListingsInv

\* Types of the repository, the publishers, the cache and the lists, of which each has
\* the row of a request.
THEOREM ListingsTypeCorrect == ListingsSpec => []ListingsTypeOK
<1>1. ListingsInv => ListingsTypeOK BY DEF ListingsInv
<1> QED BY <1>1, ListingsStart, ListingsStep, PTL DEF ListingsSpec

\* A list from the repository is of one commit, for any number of files and pushes.
THEOREM OneCommit == ListingsSpec => []ListIsOfOneCommit
<1>1. ListingsInv => ListIsOfOneCommit
  BY DEF ListingsInv, ListingFits, ListIsOfOneCommit, IsOfCommit
<1> QED BY <1>1, ListingsStart, ListingsStep, PTL DEF ListingsSpec

\* The published posts are read from the pages of the publisher, or of one of its id.
THEOREM PagesOfThePublisher == ListingsSpec => PagesAreOfThePublisher
<1> DEFINE Fetched ==
      \A r \in Listings : LET row == listing'[r] IN
          listing[r].pc # "fetch" /\ row.pc = "fetch" =>
              \/ \E p \in Publishers : p.id = row.publisher.id /\ row.address = Address(p)
              \/ row.publisher.id \in staleIds
<1>1. ListingsInv /\ [ListingsNext]_listingVars => [Fetched]_listingVars
  <2> SUFFICES ASSUME ListingsInv, ListingsNext, NEW r \in Listings,
                      listing[r].pc # "fetch", listing'[r].pc = "fetch"
               PROVE  \/ \E p \in Publishers :
                            p.id = listing'[r].publisher.id /\ listing'[r].address = Address(p)
                      \/ listing'[r].publisher.id \in staleIds
    BY DEF listingVars
  <2> DEFINE row == listing[r]
  <2>1. listing \in [Listings -> ListingRow] /\ row \in ListingRow BY DEF ListingsInv
  <2>2. row.publisher \in Publishers /\ row.publisher.id \in Ids BY <2>1 DEF ListingRow, Ids
  <2>3. CASE ReadCache(r)
    <3>1. CASE /\ cached[row.publisher.id] # NoAddress
               /\ SetListing(r, [row EXCEPT !.pc = "fetch", !.address = cached[row.publisher.id]])
      <4>1. /\ listing'[r].address = cached[row.publisher.id]
            /\ listing'[r].publisher = row.publisher
        BY <2>1, <3>1 DEF SetListing, ListingRow
      <4> QED BY <2>2, <3>1, <4>1 DEF ListingsInv, CacheFits
    <3>2. CASE SetListing(r, [row EXCEPT !.pc = "set"])
      BY <2>1, <3>2 DEF SetListing, ListingRow
    <3> QED BY <2>3, <3>1, <3>2 DEF ReadCache, CacheKey
  <2>4. CASE WriteCache(r)
    <3>1. /\ row.pc = "set" /\ listing'[r].publisher = row.publisher
          /\ listing'[r].address = row.address
      BY <2>1, <2>4 DEF WriteCache, SetListing, ListingRow
    <3>2. AddressFits(row, named, staleIds) BY DEF ListingsInv
    <3> QED BY <2>2, <3>1, <3>2 DEF AddressFits, Address
  <2>5. CASE RequestList(r)
    BY <2>1, <2>5 DEF RequestList, SetListing, NewListing
  <2>6. CASE WrongData(r) BY <2>1, <2>6 DEF WrongData, SetListing, NewListing
  <2>7. CASE ReadTree(r) \/ ReturnPosts(r) \/ ReadPublisher(r) \/ FetchPage(r)
    <3>1. CASE ReadTree(r) BY <2>1, <3>1 DEF ReadTree, SetListing, ListingRow
    <3>2. CASE ReturnPosts(r) BY <2>1, <3>2 DEF ReturnPosts, SetListing, ListingRow
    <3>3. CASE ReadPublisher(r) BY <2>1, <3>3 DEF ReadPublisher, SetListing, ListingRow
    <3>4. CASE FetchPage(r) BY <3>4 DEF FetchPage
    <3> QED BY <2>7, <3>1, <3>2, <3>3, <3>4
  <2>8. ASSUME NEW f \in Files, ReadBlob(r, f) PROVE FALSE
    BY <2>1, <2>8 DEF ReadBlob, SetListing, ListingRow
  <2>9. ASSUME NEW q \in Listings, ListingStep(q), q # r PROVE FALSE
    <3>1. \A new : SetListing(q, new) => listing'[r] = listing[r]
      BY <2>1, <2>9 DEF SetListing
    <3> QED
      BY <2>9, <3>1 DEF ListingStep, RequestList, WrongData, ReadTree, ReturnPosts, ReadBlob,
        ReadPublisher, ReadCache, WriteCache, FetchPage
  <2>10. CASE Push BY <2>1, <2>10 DEF Push, ListingRow
  <2>11. CASE \/ \E p \in Publishers : EditPublisher(p)
              \/ \E i \in Ids : ExpireAddress(i)
    BY <2>11 DEF EditPublisher, ExpireAddress
  <2> QED
    BY <2>3, <2>4, <2>5, <2>6, <2>7, <2>8, <2>9, <2>10, <2>11 DEF ListingsNext, ListingStep
<1> QED
  BY <1>1, ListingsStart, ListingsStep, PTL DEF ListingsSpec, PagesAreOfThePublisher

(***************************************************************************)
(* Synchronization.                                                        *)
(***************************************************************************)

TriggerRow == [pc: {"idle", "token", "get", "set", "emit", "refused"}, account: Accounts]

\* No more run, or are about to, than the overlaps allow; and one fewer unless the
\* next request is refused: the key says syncing, or is about to, nobody having said
\* so and been forgotten.
AccountFits(a) ==
    /\ IsFiniteSet(Passed(a))
    /\ Cardinality(Passed(a)) + spiders[a] <= 1 + races[a]
    /\ \/ syncKey[a] = "syncing"
       \/ Cardinality(Passed(a)) + spiders[a] <= races[a]
       \/ Passed(a) # {} /\ \A r \in Passed(a) : trigger[r].pc = "set"

\* The inductive invariant of the synchronization.
SynchronizerInv ==
    /\ SynchronizerTypeOK
    /\ \A a \in Accounts : AccountFits(a)

\* What a change of one request does to those that are past the key.
LEMMA PassedAfter ==
    ASSUME SynchronizerInv, NEW r \in Triggers, NEW row \in TriggerRow,
           trigger' = [trigger EXCEPT ![r] = row], NEW a \in Accounts
    PROVE  /\ trigger' \in [Triggers -> TriggerRow]
           /\ trigger'[r] = row
           /\ \A q \in Triggers : q # r => trigger'[q] = trigger[q]
           /\ Passed(a)' = IF row.pc \in {"set", "emit"} /\ row.account = a
                           THEN Passed(a) \union {r} ELSE Passed(a) \ {r}
<1>1. /\ trigger' \in [Triggers -> TriggerRow]
      /\ \A q \in Triggers : trigger'[q] = IF q = r THEN row ELSE trigger[q]
  BY DEF SynchronizerInv, SynchronizerTypeOK, TriggerRow
<1> QED BY <1>1 DEF Passed

\* Nothing changes for an account of which nothing changes.
LEMMA SameAccount ==
    ASSUME NEW a \in Accounts, AccountFits(a), Passed(a)' = Passed(a),
           \A q \in Passed(a) : trigger'[q] = trigger[q],
           syncKey'[a] = syncKey[a], spiders'[a] = spiders[a], races'[a] = races[a]
    PROVE  AccountFits(a)'
  BY DEF AccountFits

\* A request that has not passed the key changes nothing.
LEMMA NotPassedKeeps ==
    ASSUME SynchronizerInv, NEW r \in Triggers, NEW row \in TriggerRow,
           trigger' = [trigger EXCEPT ![r] = row],
           row.pc \notin {"set", "emit"}, trigger[r].pc \notin {"set", "emit"},
           UNCHANGED <<token, pooled, syncKey, spiders, poll, syncs, bindings, races>>
    PROVE  SynchronizerInv'
<1>1. \A a \in Accounts : Passed(a)' = Passed(a) /\ r \notin Passed(a)
  BY PassedAfter DEF Passed
<1>2. ASSUME NEW a \in Accounts PROVE AccountFits(a)'
  <2>1. \A q \in Passed(a) : trigger'[q] = trigger[q] BY <1>1, PassedAfter DEF Passed
  <2>2. AccountFits(a) BY DEF SynchronizerInv
  <2> QED BY <1>1, <2>1, <2>2, SameAccount
<1>3. SynchronizerTypeOK'
  <2>1. trigger' \in [Triggers -> TriggerRow] BY DEF SynchronizerInv, SynchronizerTypeOK, TriggerRow
  <2> QED BY <2>1 DEF SynchronizerInv, SynchronizerTypeOK, TriggerRow
<1> QED BY <1>2, <1>3 DEF SynchronizerInv

\* A request of an account moves on: those of the others stay as they are.
LEMMA RequestAdvances ==
    ASSUME SynchronizerInv, NEW r \in Triggers,
           NEW pc \in {"idle", "token", "get", "set", "emit", "refused"}, SetTrigger(r, pc)
    PROVE  /\ trigger' \in [Triggers -> TriggerRow] /\ trigger'[r].pc = pc
           /\ \A q \in Triggers : q # r => trigger'[q] = trigger[q]
           /\ \A b \in Accounts :
                /\ Passed(b)' = IF pc \in {"set", "emit"} /\ b = trigger[r].account
                                THEN Passed(b) \union {r} ELSE Passed(b) \ {r}
                /\ b # trigger[r].account =>
                     Passed(b)' = Passed(b) /\ \A q \in Passed(b) : trigger'[q] = trigger[q]
<1>1. trigger[r] \in TriggerRow /\ trigger \in [Triggers -> TriggerRow]
  BY DEF SynchronizerInv, SynchronizerTypeOK, TriggerRow
<1>2. PICK new \in TriggerRow :
        /\ new.pc = pc /\ new.account = trigger[r].account
        /\ trigger' = [trigger EXCEPT ![r] = new]
  <2>1. [trigger[r] EXCEPT !.pc = pc] \in TriggerRow BY <1>1 DEF TriggerRow
  <2>2. /\ [trigger[r] EXCEPT !.pc = pc].pc = pc
        /\ [trigger[r] EXCEPT !.pc = pc].account = trigger[r].account
    BY <1>1 DEF TriggerRow
  <2>3. trigger' = [trigger EXCEPT ![r] = [trigger[r] EXCEPT !.pc = pc]]
    BY <1>1 DEF TriggerRow, SetTrigger
  <2> QED BY <2>1, <2>2, <2>3
<1>3. /\ trigger' \in [Triggers -> TriggerRow] /\ trigger'[r] = new
      /\ \A q \in Triggers : q # r => trigger'[q] = trigger[q]
  BY <1>1, <1>2
<1>4. ASSUME NEW b \in Accounts
      PROVE  Passed(b)' = IF pc \in {"set", "emit"} /\ b = trigger[r].account
                          THEN Passed(b) \union {r} ELSE Passed(b) \ {r}
  <2>1. Passed(b)' = IF new.pc \in {"set", "emit"} /\ new.account = b
                     THEN Passed(b) \union {r} ELSE Passed(b) \ {r}
    BY <1>2, PassedAfter
  <2> QED BY <1>2, <2>1
<1>5. \A b \in Accounts : b # trigger[r].account => r \notin Passed(b) BY DEF Passed
<1>6. ASSUME NEW b \in Accounts, b # trigger[r].account
      PROVE  Passed(b)' = Passed(b) /\ \A q \in Passed(b) : trigger'[q] = trigger[q]
  <2>1. Passed(b)' = Passed(b) BY <1>4, <1>5, <1>6
  <2>2. \A q \in Passed(b) : q \in Triggers /\ q # r BY <1>5, <1>6 DEF Passed
  <2> QED BY <1>3, <2>1, <2>2
<1> QED BY <1>2, <1>3, <1>4, <1>6

LEMMA TriggerKeeps ==
    ASSUME SynchronizerInv, NEW r \in Triggers, TriggerStep(r)
    PROVE  SynchronizerInv'
<1> DEFINE Set(pc) == [trigger[r] EXCEPT !.pc = pc]
<1>a. PICK a \in Accounts : a = trigger[r].account BY DEF SynchronizerInv, SynchronizerTypeOK
<1>1. /\ trigger[r] \in TriggerRow /\ a \in Accounts /\ trigger \in [Triggers -> TriggerRow]
      /\ a = trigger[r].account
  BY <1>a DEF SynchronizerInv, SynchronizerTypeOK, TriggerRow
<1>2. \A pc \in {"idle", "token", "get", "set", "emit", "refused"} :
        /\ Set(pc) \in TriggerRow /\ Set(pc).pc = pc /\ Set(pc).account = a
        /\ SetTrigger(r, pc) => trigger' = [trigger EXCEPT ![r] = Set(pc)]
  BY <1>1 DEF TriggerRow, SetTrigger
<1>0. /\ AccountFits(a) /\ spiders \in [Accounts -> Nat] /\ races \in [Accounts -> Nat]
      /\ IsFiniteSet(Passed(a)) /\ Cardinality(Passed(a)) \in Nat
      /\ \A b \in Accounts : AccountFits(b)
  <2>1. AccountFits(a) BY <1>1 DEF SynchronizerInv
  <2>2. IsFiniteSet(Passed(a)) BY <2>1 DEF AccountFits
  <2> QED BY <2>1, <2>2, FS_CardinalityType DEF SynchronizerInv, SynchronizerTypeOK
<1>3. ASSUME NEW b \in Accounts, TriggerSync(r, b) PROVE SynchronizerInv'
  <2>1. [pc |-> "token", account |-> b] \in TriggerRow BY DEF TriggerRow
  <2> QED BY <1>3, <2>1, NotPassedKeeps DEF TriggerSync
<1>4. ASSUME NEW c \in Connections, CheckToken(r, c) PROVE SynchronizerInv'
  <2>1. PICK pc \in {"get", "refused"} : SetTrigger(r, pc) BY <1>4 DEF CheckToken
  <2>2. trigger' = [trigger EXCEPT ![r] = Set(pc)] /\ Set(pc) \in TriggerRow /\ Set(pc).pc = pc
    BY <1>2, <2>1
  <2> QED BY <1>4, <2>1, <2>2, NotPassedKeeps DEF CheckToken
<1>5. CASE GetState(r)
  <2>1. CASE ~MayTrigger(syncKey[a])
    <3>1. SetTrigger(r, "idle") /\ races' = races BY <1>1, <1>5, <2>1 DEF GetState, Raced
    <3>2. trigger' = [trigger EXCEPT ![r] = Set("idle")] /\ Set("idle") \in TriggerRow /\ Set("idle").pc = "idle"
      BY <1>2, <3>1
    <3> QED BY <1>5, <3>1, <3>2, NotPassedKeeps DEF GetState
  <2>2. CASE MayTrigger(syncKey[a])
    <3>1. SetTrigger(r, "set") /\ trigger[r].pc = "get" BY <1>1, <1>5, <2>2 DEF GetState
    <3>2. /\ trigger' \in [Triggers -> TriggerRow] /\ trigger'[r].pc = "set"
          /\ \A q \in Triggers : q # r => trigger'[q] = trigger[q]
          /\ Passed(a)' = Passed(a) \union {r}
          /\ \A b \in Accounts : b # a =>
               Passed(b)' = Passed(b) /\ \A q \in Passed(b) : trigger'[q] = trigger[q]
      BY <1>1, <3>1, RequestAdvances
    <3>3. r \notin Passed(a) BY <3>1 DEF Passed
    <3>4. /\ spiders' = spiders /\ syncKey' = syncKey /\ syncKey[a] # "syncing"
          /\ races' \in [Accounts -> Nat]
          /\ \A b \in Accounts :
               races'[b] = IF b = a /\ Passed(a) # {} THEN races[b] + 1 ELSE races[b]
      BY <1>0, <1>1, <1>5, <2>2 DEF GetState, Raced, MayTrigger
    <3>5. IsFiniteSet(Passed(a)') /\ Cardinality(Passed(a)') = Cardinality(Passed(a)) + 1
      BY <1>0, <3>2, <3>3, FS_AddElement
    <3>6. AccountFits(a)'
      <4>1. CASE Passed(a) = {}
        <5>1. Cardinality(Passed(a)) = 0 BY <4>1, FS_EmptySet
        <5>2. spiders[a] <= races[a] BY <1>0, <1>1, <3>4, <4>1, <5>1 DEF AccountFits
        <5>3. Cardinality(Passed(a)') + spiders'[a] <= 1 + races'[a]
          BY <1>0, <1>1, <3>4, <3>5, <4>1, <5>1, <5>2
        <5>4. Passed(a)' = {r} BY <3>2, <4>1
        <5>5. Passed(a)' # {} /\ \A q \in Passed(a)' : trigger'[q].pc = "set" BY <3>2, <5>4
        <5> QED BY <3>5, <5>3, <5>5 DEF AccountFits
      <4>2. CASE Passed(a) # {}
        <5>1. races'[a] = races[a] + 1 BY <1>1, <3>4, <4>2
        <5>2. Cardinality(Passed(a)') + spiders'[a] <= 1 + races'[a]
          BY <1>0, <1>1, <3>4, <3>5, <5>1 DEF AccountFits
        <5>3. CASE Cardinality(Passed(a)) + spiders[a] <= races[a]
          <6>1. Cardinality(Passed(a)') + spiders'[a] <= races'[a]
            BY <1>0, <1>1, <3>4, <3>5, <5>1, <5>3
          <6> QED BY <3>5, <5>2, <6>1 DEF AccountFits
        <5>4. CASE \A q \in Passed(a) : trigger[q].pc = "set"
          <6>1. \A q \in Passed(a)' : trigger'[q].pc = "set" BY <3>2, <5>4 DEF Passed
          <6>2. Passed(a)' # {} BY <3>2
          <6> QED BY <3>5, <5>2, <6>1, <6>2 DEF AccountFits
        <5> QED BY <1>0, <3>4, <5>3, <5>4 DEF AccountFits
      <4> QED BY <4>1, <4>2
    <3>7. ASSUME NEW b \in Accounts, b # a PROVE AccountFits(b)'
      <4>1. races'[b] = races[b] BY <3>4, <3>7
      <4> QED BY <1>0, <3>2, <3>4, <3>7, <4>1, SameAccount
    <3>8. SynchronizerTypeOK'
      BY <1>1, <1>5, <3>2, <3>4 DEF SynchronizerInv, SynchronizerTypeOK, GetState, TriggerRow
    <3> QED BY <3>6, <3>7, <3>8 DEF SynchronizerInv
  <2> QED BY <2>1, <2>2
<1>6. CASE SetSyncing(r)
  <2>1. SetTrigger(r, "emit") /\ trigger[r].pc = "set" BY <1>6 DEF SetSyncing
  <2>2. /\ trigger' \in [Triggers -> TriggerRow]
        /\ Passed(a)' = Passed(a) \union {r}
        /\ \A b \in Accounts : b # a =>
             Passed(b)' = Passed(b) /\ \A q \in Passed(b) : trigger'[q] = trigger[q]
    BY <1>1, <2>1, RequestAdvances
  <2>3. Passed(a)' = Passed(a) BY <1>1, <2>1, <2>2 DEF Passed
  <2>4. /\ syncKey' \in [Accounts -> {"absent", "syncing", "count"}]
        /\ \A b \in Accounts : syncKey'[b] = IF b = a THEN "syncing" ELSE syncKey[b]
        /\ spiders' = spiders /\ races' = races
    BY <1>1, <1>6 DEF SetSyncing, SynchronizerInv, SynchronizerTypeOK
  <2>5. AccountFits(a)' BY <1>0, <1>1, <2>3, <2>4 DEF AccountFits
  <2>6. ASSUME NEW b \in Accounts, b # a PROVE AccountFits(b)'
    BY <1>0, <2>2, <2>4, <2>6, SameAccount
  <2>7. SynchronizerTypeOK'
    BY <1>6, <2>2, <2>4 DEF SynchronizerInv, SynchronizerTypeOK, SetSyncing, TriggerRow
  <2> QED BY <2>5, <2>6, <2>7 DEF SynchronizerInv
<1>7. CASE EmitSync(r)
  <2>1. SetTrigger(r, "idle") /\ trigger[r].pc = "emit" BY <1>7 DEF EmitSync
  <2>2. /\ trigger' \in [Triggers -> TriggerRow]
        /\ \A q \in Triggers : q # r => trigger'[q] = trigger[q]
        /\ Passed(a)' = Passed(a) \ {r}
        /\ \A b \in Accounts : b # a =>
             Passed(b)' = Passed(b) /\ \A q \in Passed(b) : trigger'[q] = trigger[q]
    BY <1>1, <2>1, RequestAdvances
  <2>3. r \in Passed(a) BY <1>1, <2>1 DEF Passed
  <2>4. IsFiniteSet(Passed(a)') /\ Cardinality(Passed(a)') = Cardinality(Passed(a)) - 1
    BY <1>0, <2>2, <2>3, FS_RemoveElement
  <2>5. /\ spiders' \in [Accounts -> Nat]
        /\ \A b \in Accounts : spiders'[b] = IF b = a THEN spiders[b] + 1 ELSE spiders[b]
        /\ syncKey' = syncKey /\ races' = races
    BY <1>0, <1>1, <1>7 DEF EmitSync
  <2>6. Cardinality(Passed(a)') + spiders'[a] = Cardinality(Passed(a)) + spiders[a]
    BY <1>0, <1>1, <2>4, <2>5
  <2>7. syncKey[a] = "syncing" \/ Cardinality(Passed(a)) + spiders[a] <= races[a]
    BY <1>0, <2>1, <2>3 DEF AccountFits
  <2>8. AccountFits(a)' BY <1>0, <2>4, <2>5, <2>6, <2>7 DEF AccountFits
  <2>9. ASSUME NEW b \in Accounts, b # a PROVE AccountFits(b)'
    <3>1. spiders'[b] = spiders[b] BY <2>5, <2>9
    <3> QED BY <1>0, <2>2, <2>5, <2>9, <3>1, SameAccount
  <2>10. syncs' \in 0..MaxSyncs
    BY <1>7, SynchronizerAssumption DEF EmitSync, SynchronizerInv, SynchronizerTypeOK
  <2>11. SynchronizerTypeOK'
    BY <1>7, <2>2, <2>5, <2>10 DEF SynchronizerInv, SynchronizerTypeOK, EmitSync, TriggerRow
  <2> QED BY <2>8, <2>9, <2>11 DEF SynchronizerInv
<1> QED BY <1>3, <1>4, <1>5, <1>6, <1>7 DEF TriggerStep

\* The key of an account that did not say syncing changes to something else; or it
\* did, and the account is owed a spider more.
LEMMA KeyChanges ==
    ASSUME SynchronizerInv, NEW a \in Accounts, trigger' = trigger, spiders' = spiders,
           \A b \in Accounts : b # a => syncKey'[b] = syncKey[b] /\ races'[b] = races[b],
           \/ syncKey[a] # "syncing" /\ races'[a] = races[a]
           \/ races'[a] = races[a] + 1
    PROVE  \A b \in Accounts : AccountFits(b)'
<1> SUFFICES ASSUME NEW b \in Accounts PROVE AccountFits(b)'
  OBVIOUS
<1>1. AccountFits(b) /\ Passed(b)' = Passed(b) BY DEF SynchronizerInv, Passed
<1>2. IsFiniteSet(Passed(b)) /\ spiders[b] \in Nat /\ races[b] \in Nat
  BY <1>1 DEF AccountFits, SynchronizerInv, SynchronizerTypeOK
<1>3. Cardinality(Passed(b)) \in Nat BY <1>2, FS_CardinalityType
<1>4. CASE b # a BY <1>1, <1>4, SameAccount
<1>5. CASE b = a /\ syncKey[a] # "syncing" /\ races'[a] = races[a] BY <1>1, <1>5 DEF AccountFits
<1>6. CASE b = a /\ races'[a] = races[a] + 1
  <2>1. Cardinality(Passed(b)) + spiders[b] <= races'[b] BY <1>1, <1>2, <1>3, <1>6 DEF AccountFits
  <2>2. Cardinality(Passed(b)) + spiders[b] <= 1 + races'[b] BY <1>2, <1>3, <1>6, <2>1
  <2> QED BY <1>1, <1>2, <2>1, <2>2 DEF AccountFits
<1> QED BY <1>4, <1>5, <1>6

LEMMA PollKeeps ==
    ASSUME SynchronizerInv, NEW r \in Polls,
           DeleteState(r) \/ \E a \in Accounts : PollState(r, a)
    PROVE  SynchronizerInv'
<1>1. ASSUME NEW a \in Accounts, PollState(r, a) PROVE SynchronizerInv'
  <2>1. UNCHANGED <<token, pooled, syncKey, spiders, trigger, syncs, bindings, races>>
    BY <1>1 DEF PollState
  <2>2. \A b \in Accounts : Passed(b)' = Passed(b) BY <2>1 DEF Passed
  <2>3. \A b \in Accounts : AccountFits(b)' BY <2>1, <2>2, SameAccount DEF SynchronizerInv
  <2>4. SynchronizerTypeOK' BY <1>1, <2>1 DEF PollState, SynchronizerInv, SynchronizerTypeOK
  <2> QED BY <2>3, <2>4 DEF SynchronizerInv
<1>2. CASE DeleteState(r)
  <2> DEFINE a == poll[r].account
  <2>1. a \in Accounts /\ races \in [Accounts -> Nat] BY DEF SynchronizerInv, SynchronizerTypeOK
  <2>2. /\ syncKey' \in [Accounts -> {"absent", "syncing", "count"}]
        /\ \A b \in Accounts : b # a => syncKey'[b] = syncKey[b]
        /\ spiders' = spiders /\ trigger' = trigger
    BY <1>2, <2>1 DEF DeleteState, SynchronizerInv, SynchronizerTypeOK
  <2>3. /\ races' \in [Accounts -> Nat]
        /\ \A b \in Accounts :
             races'[b] = IF b = a /\ syncKey[a] = "syncing" THEN races[b] + 1 ELSE races[b]
    BY <1>2, <2>1 DEF DeleteState, Raced
  <2>4. \A b \in Accounts : AccountFits(b)' BY <2>1, <2>2, <2>3, KeyChanges
  <2>5. SynchronizerTypeOK'
    BY <1>2, <2>1, <2>2, <2>3 DEF DeleteState, SynchronizerInv, SynchronizerTypeOK
  <2> QED BY <2>4, <2>5 DEF SynchronizerInv
<1> QED BY <1>1, <1>2

\* An event or a setting of the tokens.
LEMMA TokensKeep ==
    ASSUME SynchronizerInv, NEW a \in Accounts, NEW c \in Connections,
           \/ BindAccount(a, c) \/ UnbindAccount(a, c)
           \/ \E active \in {"active", "inactive"} : SetTokenActive(a, c, active)
    PROVE  SynchronizerInv'
<1>1. /\ UNCHANGED <<syncKey, spiders, trigger, poll, syncs, races>>
      /\ bindings' \in 0..MaxBindings
  BY SynchronizerAssumption
    DEF BindAccount, UnbindAccount, SetTokenActive, Event, SynchronizerInv, SynchronizerTypeOK
<1>2. token' \in TokenTables
  BY DEF BindAccount, UnbindAccount, SetTokenActive, SynchronizerInv, SynchronizerTypeOK, TokenTables
<1>3. pooled' \in Pooled
  <2>1. [mode |-> "snapshot", table |-> token] \in [mode: {"snapshot"}, table: TokenTables]
    BY DEF SynchronizerInv, SynchronizerTypeOK
  <2> QED
    BY <2>1 DEF BindAccount, UnbindAccount, SetTokenActive, Clean, Pooled, SynchronizerInv,
      SynchronizerTypeOK
<1>4. \A b \in Accounts : Passed(b)' = Passed(b) BY <1>1 DEF Passed
<1>5. \A b \in Accounts : AccountFits(b)' BY <1>1, <1>4, SameAccount DEF SynchronizerInv
<1>6. SynchronizerTypeOK'
  <2>1. SynchronizerTypeOK BY DEF SynchronizerInv
  <2> QED BY <2>1, <1>1, <1>2, <1>3 DEF SynchronizerTypeOK
<1> QED BY <1>5, <1>6 DEF SynchronizerInv

LEMMA AccountKeeps ==
    ASSUME SynchronizerInv, NEW a \in Accounts, EndSpider(a) \/ ExpireSyncing(a)
    PROVE  SynchronizerInv'
<1>1. races \in [Accounts -> Nat] /\ spiders \in [Accounts -> Nat]
  BY DEF SynchronizerInv, SynchronizerTypeOK
<1>2. CASE EndSpider(a)
  <2>1. /\ syncKey' \in [Accounts -> {"absent", "syncing", "count"}]
        /\ spiders' \in [Accounts -> Nat] /\ spiders'[a] = spiders[a] - 1
        /\ \A b \in Accounts : b # a => syncKey'[b] = syncKey[b] /\ spiders'[b] = spiders[b]
        /\ trigger' = trigger /\ races' = races
    BY <1>2 DEF EndSpider, SynchronizerInv, SynchronizerTypeOK
  <2>2. \A b \in Accounts : Passed(b)' = Passed(b) BY <2>1 DEF Passed
  <2>3. ASSUME NEW b \in Accounts PROVE AccountFits(b)'
    <3>1. AccountFits(b) BY DEF SynchronizerInv
    <3>2. CASE b # a BY <2>1, <2>2, <3>1, <3>2, SameAccount
    <3>3. CASE b = a
      <4>1. Cardinality(Passed(a)) \in Nat BY <3>1, <3>3, FS_CardinalityType DEF AccountFits
      <4>2. Cardinality(Passed(a)') + spiders'[a] <= races'[a]
        BY <1>1, <2>1, <2>2, <3>1, <3>3, <4>1 DEF AccountFits
      <4>3. Cardinality(Passed(a)') + spiders'[a] <= 1 + races'[a]
        BY <1>1, <2>1, <2>2, <3>1, <3>3, <4>1 DEF AccountFits
      <4> QED BY <2>2, <3>1, <3>3, <4>2, <4>3 DEF AccountFits
    <3> QED BY <3>2, <3>3
  <2>4. SynchronizerTypeOK' BY <1>2, <2>1 DEF EndSpider, SynchronizerInv, SynchronizerTypeOK
  <2> QED BY <2>3, <2>4 DEF SynchronizerInv
<1>3. CASE ExpireSyncing(a)
  <2>1. /\ syncKey' \in [Accounts -> {"absent", "syncing", "count"}]
        /\ races' \in [Accounts -> Nat] /\ races'[a] = races[a] + 1
        /\ \A b \in Accounts : b # a => syncKey'[b] = syncKey[b] /\ races'[b] = races[b]
        /\ trigger' = trigger /\ spiders' = spiders
    BY <1>1, <1>3 DEF ExpireSyncing, Raced, SynchronizerInv, SynchronizerTypeOK
  <2>2. \A b \in Accounts : AccountFits(b)' BY <2>1, KeyChanges
  <2>3. SynchronizerTypeOK' BY <1>3, <2>1 DEF ExpireSyncing, SynchronizerInv, SynchronizerTypeOK
  <2> QED BY <2>2, <2>3 DEF SynchronizerInv
<1> QED BY <1>2, <1>3

LEMMA SynchronizerStep == SynchronizerInv /\ [SynchronizerNext]_synchronizerVars => SynchronizerInv'
<1> SUFFICES ASSUME SynchronizerInv, [SynchronizerNext]_synchronizerVars PROVE SynchronizerInv'
  OBVIOUS
<1>1. CASE UNCHANGED synchronizerVars
  <2>1. UNCHANGED <<token, pooled, syncKey, spiders, trigger, poll, syncs, bindings, races>>
    BY <1>1 DEF synchronizerVars
  <2>2. \A b \in Accounts : Passed(b)' = Passed(b) BY <2>1 DEF Passed
  <2>3. \A b \in Accounts : AccountFits(b)' BY <2>1, <2>2, SameAccount DEF SynchronizerInv
  <2> QED BY <2>1, <2>3 DEF SynchronizerInv, SynchronizerTypeOK
<1>2. ASSUME NEW r \in Triggers, TriggerStep(r) PROVE SynchronizerInv' BY <1>2, TriggerKeeps
<1>3. ASSUME NEW r \in Polls, DeleteState(r) \/ \E a \in Accounts : PollState(r, a)
      PROVE SynchronizerInv'
  BY <1>3, PollKeeps
<1>4. ASSUME NEW a \in Accounts, AccountStep(a) PROVE SynchronizerInv'
  BY <1>4, TokensKeep, AccountKeeps DEF AccountStep
<1> QED BY <1>1, <1>2, <1>3, <1>4 DEF SynchronizerNext

LEMMA SynchronizerStart == SynchronizerInit => SynchronizerInv
<1> SUFFICES ASSUME SynchronizerInit PROVE SynchronizerInv
  OBVIOUS
<1>1. PICK a \in Accounts :
        /\ trigger = [r \in Triggers |-> [pc |-> "idle", account |-> a]]
        /\ poll = [r \in Polls |-> [pc |-> "idle", account |-> a]]
  BY DEF SynchronizerInit
<1>2. SynchronizerTypeOK
  <2>1. token \in TokenTables BY DEF SynchronizerInit, TokenTables
  <2>2. pooled \in Pooled BY DEF SynchronizerInit, Pooled
  <2>3. /\ syncKey \in [Accounts -> {"absent", "syncing", "count"}]
        /\ spiders \in [Accounts -> Nat] /\ races \in [Accounts -> Nat]
    BY DEF SynchronizerInit
  <2>4. syncs \in 0..MaxSyncs /\ bindings \in 0..MaxBindings
    BY SynchronizerAssumption DEF SynchronizerInit
  <2> QED BY <1>1, <2>1, <2>2, <2>3, <2>4 DEF SynchronizerInit, SynchronizerTypeOK
<1>3. \A b \in Accounts : Passed(b) = {} /\ spiders[b] = 0 /\ races[b] = 0
  BY <1>1 DEF SynchronizerInit, Passed
<1>4. \A b \in Accounts : AccountFits(b) BY <1>3, FS_EmptySet DEF AccountFits
<1> QED BY <1>2, <1>4 DEF SynchronizerInv

\* Types of the tokens, the key, the spiders and the requests: no account has fewer
\* than no spiders.
THEOREM SynchronizerTypeCorrect == SynchronizerSpec => []SynchronizerTypeOK
<1>1. SynchronizerInv => SynchronizerTypeOK BY DEF SynchronizerInv
<1> QED BY <1>1, SynchronizerStart, SynchronizerStep, PTL DEF SynchronizerSpec

\* One spider runs for an account, or is about to, and no more than one more for each
\* overlap of two requests, expiry of the key or poll that deletes it, for any number
\* of requests and accounts, whatever the order of all of these.
THEOREM OneSpiderRuns == SynchronizerSpec => []OneSpider
<1>1. SynchronizerInv => OneSpider
  <2> SUFFICES ASSUME SynchronizerInv, NEW a \in Accounts
               PROVE  spiders[a] + Cardinality(Passed(a)) <= 1 + races[a]
    BY DEF OneSpider
  <2>1. AccountFits(a) /\ spiders[a] \in Nat BY DEF SynchronizerInv, SynchronizerTypeOK
  <2>2. Cardinality(Passed(a)) \in Nat BY <2>1, FS_CardinalityType DEF AccountFits
  <2> QED BY <2>1, <2>2 DEF AccountFits
<1> QED BY <1>1, SynchronizerStart, SynchronizerStep, PTL DEF SynchronizerSpec

(***************************************************************************)
(* The sockets.                                                            *)
(***************************************************************************)

\* No socket is in the list twice.
NoTwice(list) == \A i, j \in DOMAIN list : list[i] = list[j] => i = j

\* splice takes out the one socket, and leaves the others, each once.
LEMMA SplicedProperties ==
    ASSUME NEW list \in Seq(Sockets), NoTwice(list), NEW s \in Range(list)
    PROVE  /\ Spliced(list, s) \in Seq(Sockets)
           /\ NoTwice(Spliced(list, s))
           /\ Range(Spliced(list, s)) = Range(list) \ {s}
<1> DEFINE index == CHOOSE i \in DOMAIN list : list[i] = s
           front == SubSeq(list, 1, index - 1)
           back == SubSeq(list, index + 1, Len(list))
           new == Spliced(list, s)
<1>1. Len(list) \in Nat /\ DOMAIN list = 1..Len(list) BY LenProperties
<1>2. index \in 1..Len(list) /\ list[index] = s BY <1>1 DEF Range
<1>3. \A i \in 1..Len(list) : list[i] \in Sockets BY ElementOfSeq
<1>4. /\ front \in Seq(Sockets) /\ Len(front) = index - 1
      /\ \A i \in 1..(index - 1) : front[i] = list[i]
  <2> HIDE DEF index
  <2>1. \A i \in 1..(index - 1) : list[i] \in Sockets BY <1>1, <1>2, <1>3
  <2>2. 1 \in Int /\ index - 1 \in Int /\ index >= 1 BY <1>1, <1>2
  <2>3. /\ SubSeq(list, 1, index - 1) \in Seq(Sockets)
        /\ Len(SubSeq(list, 1, index - 1)) = IF 1 <= index - 1 THEN index - 1 - 1 + 1 ELSE 0
        /\ \A i \in 1..(index - 1 - 1 + 1) : SubSeq(list, 1, index - 1)[i] = list[1 + i - 1]
    BY <2>1, <2>2, SubSeqProperties
  <2> QED BY <1>1, <1>2, <2>2, <2>3
<1>5. /\ back \in Seq(Sockets) /\ Len(back) = Len(list) - index
      /\ \A i \in 1..(Len(list) - index) : back[i] = list[index + i]
  <2> HIDE DEF index
  <2>1. \A i \in (index + 1)..Len(list) : list[i] \in Sockets BY <1>1, <1>2, <1>3
  <2>2. index + 1 \in Int /\ Len(list) \in Int /\ index <= Len(list) BY <1>1, <1>2
  <2>3. /\ SubSeq(list, index + 1, Len(list)) \in Seq(Sockets)
        /\ Len(SubSeq(list, index + 1, Len(list))) =
             IF index + 1 <= Len(list) THEN Len(list) - (index + 1) + 1 ELSE 0
        /\ \A i \in 1..(Len(list) - (index + 1) + 1) :
              SubSeq(list, index + 1, Len(list))[i] = list[index + 1 + i - 1]
    BY <2>1, <2>2, SubSeqProperties
  <2> QED BY <1>2, <2>2, <2>3
<1>6. new = front \o back BY DEF Spliced
<1> HIDE DEF index, front, back, new
<1>7. /\ new \in Seq(Sockets) /\ Len(new) = Len(list) - 1
      /\ \A i \in 1..(Len(list) - 1) : new[i] = IF i < index THEN list[i] ELSE list[i + 1]
  <2>1. new \in Seq(Sockets) /\ Len(new) = Len(front) + Len(back) BY <1>4, <1>5, <1>6, ConcatProperties
  <2>2. \A i \in 1..Len(front) + Len(back) :
          new[i] = IF i <= Len(front) THEN front[i] ELSE back[i - Len(front)]
    BY <1>4, <1>5, <1>6, ConcatProperties
  <2>3. Len(front) + Len(back) = Len(list) - 1 BY <1>1, <1>2, <1>4, <1>5
  <2>4. ASSUME NEW i \in 1..(Len(list) - 1) PROVE new[i] = IF i < index THEN list[i] ELSE list[i + 1]
    <3>1. CASE i < index BY <1>1, <1>2, <1>4, <2>2, <2>3, <3>1
    <3>2. CASE i >= index
      <4>1. new[i] = back[i - (index - 1)] BY <1>1, <1>2, <1>4, <2>2, <2>3, <3>2
      <4>2. i - (index - 1) \in 1..(Len(list) - index) BY <1>1, <1>2, <3>2
      <4>3. index + (i - (index - 1)) = i + 1 BY <1>1, <1>2
      <4> QED BY <1>1, <1>2, <1>5, <3>2, <4>1, <4>2, <4>3
    <3> QED BY <1>1, <1>2, <3>1, <3>2
  <2> QED BY <2>1, <2>3, <2>4
<1>8. DOMAIN new = 1..(Len(list) - 1) BY <1>7, LenProperties
<1>9. \A i, j \in 1..Len(list) : list[i] = list[j] => i = j BY <1>1 DEF NoTwice
<1>10. NoTwice(new)
  <2> SUFFICES ASSUME NEW i \in 1..(Len(list) - 1), NEW j \in 1..(Len(list) - 1), new[i] = new[j]
               PROVE  i = j
    BY <1>8 DEF NoTwice
  <2> QED BY <1>1, <1>2, <1>7, <1>9
<1>11. Range(new) \subseteq Range(list) \ {s}
  <2> SUFFICES ASSUME NEW i \in 1..(Len(list) - 1) PROVE new[i] \in Range(list) \ {s}
    BY <1>8 DEF Range
  <2>1. PICK k \in 1..Len(list) : new[i] = list[k] /\ k # index BY <1>1, <1>2, <1>7
  <2> QED BY <1>1, <1>2, <1>9, <2>1 DEF Range
<1>12. Range(list) \ {s} \subseteq Range(new)
  <2> SUFFICES ASSUME NEW k \in 1..Len(list), list[k] # s PROVE list[k] \in Range(new)
    BY <1>1 DEF Range
  <2>1. CASE k < index
    <3>1. k \in 1..(Len(list) - 1) /\ new[k] = list[k] BY <1>1, <1>2, <1>7, <2>1
    <3> QED BY <1>8, <3>1 DEF Range
  <2>2. CASE k > index
    <3>1. k - 1 \in 1..(Len(list) - 1) /\ new[k - 1] = list[k] BY <1>1, <1>2, <1>7, <2>2
    <3> QED BY <1>8, <3>1 DEF Range
  <2> QED BY <1>1, <1>2, <2>1, <2>2
<1>13. Range(new) = Range(list) \ {s} BY <1>11, <1>12
<1> QED BY <1>7, <1>10, <1>13 DEF new

\* push adds a socket that is not in the list.
LEMMA AppendedProperties ==
    ASSUME NEW list \in Seq(Sockets), NoTwice(list), NEW s \in Sockets, s \notin Range(list)
    PROVE  /\ Append(list, s) \in Seq(Sockets)
           /\ NoTwice(Append(list, s))
           /\ Range(Append(list, s)) = Range(list) \union {s}
<1> DEFINE new == Append(list, s)
<1>1. Len(list) \in Nat /\ DOMAIN list = 1..Len(list) BY LenProperties
<1>2. /\ new \in Seq(Sockets) /\ Len(new) = Len(list) + 1
      /\ \A i \in 1..Len(list) : new[i] = list[i]
      /\ new[Len(list) + 1] = s
  BY AppendProperties
<1> HIDE DEF new
<1>3. DOMAIN new = 1..(Len(list) + 1) BY <1>2, LenProperties
<1>4. \A i \in 1..(Len(list) + 1) : i \in 1..Len(list) \/ i = Len(list) + 1 BY <1>1
<1>5. Len(list) + 1 \in 1..(Len(list) + 1) /\ \A i \in 1..Len(list) : i \in 1..(Len(list) + 1)
  BY <1>1
<1>6. \A i \in 1..Len(list) : list[i] # s BY <1>1 DEF Range
<1>7. NoTwice(new)
  <2> SUFFICES ASSUME NEW i \in 1..(Len(list) + 1), NEW j \in 1..(Len(list) + 1), new[i] = new[j]
               PROVE  i = j
    BY <1>3 DEF NoTwice
  <2> QED BY <1>1, <1>2, <1>4, <1>6 DEF NoTwice
<1>8. Range(new) = Range(list) \union {s}
  <2>1. Range(new) \subseteq Range(list) \union {s} BY <1>1, <1>2, <1>3, <1>4 DEF Range
  <2>2. s \in Range(new) BY <1>2, <1>3, <1>5 DEF Range
  <2>3. \A i \in 1..Len(list) : list[i] \in Range(new) BY <1>2, <1>3, <1>5 DEF Range
  <2>4. Range(list) \subseteq Range(new) BY <1>1, <2>3 DEF Range
  <2> QED BY <2>1, <2>2, <2>4
<1> QED BY <1>2, <1>7, <1>8 DEF new

\* The socket is in the list of its user.
Held(s) == s \in Range(UserClients(BearerOf[s]))

\* The lists hold sockets of their users only, each once.
ListsFit ==
    \A p \in People :
        /\ UserClients(p) \in Seq(Sockets)
        /\ NoTwice(UserClients(p))
        /\ \A s \in Range(UserClients(p)) : BearerOf[s] = p

\* What is known of a socket: it is verified once, and held from then until it closes.
SocketFits(s) ==
    /\ s \in verifying => s \notin known /\ (socket[s].state = "open" \/ s \in lateSockets)
    /\ socket[s].state = "new" => s \notin verifying /\ s \notin known
    /\ socket[s].state = "open" => s \in verifying \/ Held(s)
    /\ Held(s) => s \in known /\ (socket[s].state = "open" \/ s \in lateSockets)

\* Nobody but a known socket has been shown a count.
ShowsFit(s) == socket[s].shown # NothingShown => s \in known

\* The sockets of a user that are open show nothing, or no count that was over.
ShownFits(p) ==
    \A s \in Sockets :
        BearerOf[s] = p /\ socket[s].state = "open" => socket[s].shown \notin superseded[p]

\* What is known of a handler: it began after all that is superseded, its answer is
\* no older than that; and one that will tell nobody began when nobody was shown
\* anything, so that whatever is shown is of a later one.
HandlerFits(u, p) ==
    /\ update[u].since <= postCount[p]
    /\ update[u].pc = "deliver" => update[u].since <= update[u].value
    /\ \A k \in superseded[p] : k < update[u].since
    /\ update[u].live => p \in DOMAIN clients
    /\ ~update[u].live =>
         /\ \A s \in Sockets :
              BearerOf[s] = p /\ socket[s].state = "open" /\ socket[s].shown # NothingShown =>
                  update[u].since <= socket[s].shown
         /\ \A v \in Handling(p) : update[v].live => update[u].since <= update[v].since

\* What is known of the counts of a user.
CountFits(p) ==
    /\ \A k \in superseded[p] : k < postCount[p]
    /\ ShownFits(p)
    /\ \A u \in Handling(p) : HandlerFits(u, p)

\* The inductive invariant of the sockets.
SocketsInv ==
    /\ RealTimeTypeOK
    /\ ListsFit
    /\ \A s \in Sockets : SocketFits(s) /\ ShowsFit(s)

\* The inductive invariant of the counts.
CountsInv == \A p \in People : CountFits(p)

\* A list is set for one user, and kept for the others.
LEMMA ClientsSet ==
    ASSUME RealTimeTypeOK, NEW p \in People, NEW list \in Seq(Sockets), SetClients(p, list)
    PROVE  /\ DOMAIN clients' = DOMAIN clients \union {p}
           /\ \A q \in People : UserClients(q)' = IF q = p THEN list ELSE UserClients(q)
           /\ \A q \in DOMAIN clients' : clients'[q] \in Seq(Sockets)
  BY DEF RealTimeTypeOK, SetClients, UserClients

\* No version is the one that stands for nothing shown.
LEMMA NothingIsOver ==
    ASSUME RealTimeTypeOK, NEW p \in People
    PROVE  NothingShown \notin superseded[p]
  BY RealTimeAssumption DEF RealTimeTypeOK, NothingShown

\* A step of the sockets leaves the counts as they are.
LEMMA SocketsCounts ==
    ASSUME SocketsInv, CountsInv, UNCHANGED <<postCount, update, superseded>>,
           DOMAIN clients \subseteq DOMAIN clients',
           \A s \in Sockets : socket'[s].state = "open" =>
               /\ socket'[s].shown = socket[s].shown
               /\ socket[s].state = "open" \/ socket[s].shown = NothingShown
    PROVE  CountsInv'
<1>1. ASSUME NEW p \in People PROVE CountFits(p)'
  <2>1. CountFits(p) /\ NothingShown \notin superseded[p]
    BY NothingIsOver DEF CountsInv, SocketsInv
  <2>2. Handling(p)' = Handling(p) /\ NothingShown' = NothingShown BY DEF Handling, NothingShown
  <2>3. \A s \in Sockets : BearerOf[s] = p /\ socket'[s].state = "open" =>
            \/ socket'[s].shown = NothingShown
            \/ socket[s].state = "open" /\ socket'[s].shown = socket[s].shown
    OBVIOUS
  <2>4. ShownFits(p)' BY <2>1, <2>3 DEF CountFits, ShownFits
  <2>5. ASSUME NEW u \in Handling(p) PROVE HandlerFits(u, p)'
    <3>1. HandlerFits(u, p) BY <2>1 DEF CountFits
    <3> QED BY <2>2, <2>3, <3>1 DEF HandlerFits
  <2> QED BY <2>1, <2>2, <2>4, <2>5 DEF CountFits
<1> QED BY <1>1 DEF CountsInv

LEMMA OpenKeeps ==
    ASSUME SocketsInv, CountsInv, NEW s \in Sockets, OpenSocket(s)
    PROVE  SocketsInv' /\ CountsInv'
<1>1. /\ socket' \in [Sockets -> [state: {"new", "open", "closed"}, shown: 0..NothingShown]]
      /\ socket'[s].state = "open" /\ socket'[s].shown = socket[s].shown
      /\ \A q \in Sockets : q # s => socket'[q] = socket[q]
  BY DEF OpenSocket, SocketsInv, RealTimeTypeOK
<1>2. RealTimeTypeOK' BY <1>1 DEF OpenSocket, SocketsInv, RealTimeTypeOK, NothingShown
<1>3. \A p \in People : UserClients(p)' = UserClients(p) BY DEF OpenSocket, UserClients
<1>4. ListsFit' BY <1>3 DEF SocketsInv, ListsFit
<1>5. \A q \in Sockets : Held(q)' <=> Held(q) BY DEF OpenSocket, UserClients, Held
<1>6. ASSUME NEW q \in Sockets PROVE SocketFits(q)' /\ ShowsFit(q)'
  <2>1. SocketFits(q) /\ ShowsFit(q) BY DEF SocketsInv
  <2>2. socket[s].state = "new" /\ verifying' = verifying \union {s} /\ UNCHANGED <<known, lateSockets>>
    BY DEF OpenSocket
  <2> QED BY <1>1, <1>5, <2>1, <2>2 DEF SocketFits, ShowsFit, NothingShown
<1>7. socket[s].shown = NothingShown
  BY DEF OpenSocket, SocketsInv, SocketFits, ShowsFit
<1>8. CountsInv'
  <2>1. UNCHANGED <<clients, postCount, update, superseded>> BY DEF OpenSocket
  <2> QED BY <1>1, <1>7, <2>1, SocketsCounts
<1> QED BY <1>2, <1>4, <1>6, <1>8 DEF SocketsInv

LEMMA RegisterKeeps ==
    ASSUME SocketsInv, CountsInv, NEW s \in Sockets, RegisterSocket(s)
    PROVE  SocketsInv' /\ CountsInv'
<1> DEFINE p == BearerOf[s]
           list == UserClients(p)
<1>1. p \in People BY RealTimeAssumption
<1>2. s \in verifying /\ SocketFits(s) BY DEF RegisterSocket, SocketsInv
<1>3. list \in Seq(Sockets) /\ NoTwice(list) /\ \A q \in Range(list) : BearerOf[q] = p
  BY <1>1 DEF SocketsInv, ListsFit
<1>4. s \notin Range(list) BY <1>2 DEF SocketFits, Held
<1>5. /\ Append(list, s) \in Seq(Sockets) /\ NoTwice(Append(list, s))
      /\ Range(Append(list, s)) = Range(list) \union {s}
  BY <1>3, <1>4, AppendedProperties
<1>6. RealTimeTypeOK /\ SetClients(p, Append(list, s)) BY DEF SocketsInv, RegisterSocket
<1>7. /\ DOMAIN clients' = DOMAIN clients \union {p}
      /\ \A q \in People : UserClients(q)' = IF q = p THEN Append(list, s) ELSE UserClients(q)
      /\ \A q \in DOMAIN clients' : clients'[q] \in Seq(Sockets)
  BY <1>1, <1>5, <1>6, ClientsSet
<1>8. UNCHANGED <<socket, postCount, update, lateSockets, superseded>> BY DEF RegisterSocket
<1>9. known' = known \union {s} /\ verifying' = verifying \ {s} BY DEF RegisterSocket
<1>10. RealTimeTypeOK' BY <1>1, <1>6, <1>7, <1>8, <1>9 DEF RealTimeTypeOK, NothingShown
<1>11. ListsFit' BY <1>3, <1>5, <1>7 DEF SocketsInv, ListsFit
<1>12. \A q \in Sockets : Held(q)' <=> Held(q) \/ q = s
  BY <1>5, <1>7, RealTimeAssumption DEF Held
<1>13. ASSUME NEW q \in Sockets PROVE SocketFits(q)' /\ ShowsFit(q)'
  <2>1. SocketFits(q) /\ ShowsFit(q) BY DEF SocketsInv
  <2> QED BY <1>2, <1>8, <1>9, <1>12, <2>1 DEF SocketFits, ShowsFit, NothingShown
<1>14. \A q \in Sockets : socket'[q].state = "open" => socket[q].state = "open" BY <1>8
<1>15. CountsInv' BY <1>7, <1>8, <1>14, SocketsCounts
<1> QED BY <1>10, <1>11, <1>13, <1>15 DEF SocketsInv

LEMMA RefuseKeeps ==
    ASSUME SocketsInv, CountsInv, NEW s \in Sockets, RefuseSocket(s)
    PROVE  SocketsInv' /\ CountsInv'
<1>1. /\ socket' \in [Sockets -> [state: {"new", "open", "closed"}, shown: 0..NothingShown]]
      /\ socket'[s].state = "closed" /\ socket'[s].shown = socket[s].shown
      /\ \A q \in Sockets : q # s => socket'[q] = socket[q]
  BY DEF RefuseSocket, SocketsInv, RealTimeTypeOK
<1>2. /\ s \in verifying /\ verifying' = verifying \ {s}
      /\ UNCHANGED <<known, clients, postCount, update, lateSockets, superseded>>
  BY DEF RefuseSocket
<1>3. RealTimeTypeOK' BY <1>1, <1>2 DEF SocketsInv, RealTimeTypeOK, NothingShown
<1>4. \A p \in People : UserClients(p)' = UserClients(p) BY <1>2 DEF UserClients
<1>5. ListsFit' BY <1>4 DEF SocketsInv, ListsFit
<1>6. \A q \in Sockets : Held(q)' <=> Held(q) BY <1>2 DEF UserClients, Held
<1>7. ASSUME NEW q \in Sockets PROVE SocketFits(q)' /\ ShowsFit(q)'
  <2>1. SocketFits(q) /\ ShowsFit(q) BY DEF SocketsInv
  <2> QED BY <1>1, <1>2, <1>6, <2>1 DEF SocketFits, ShowsFit, NothingShown
<1>8. CountsInv' BY <1>1, <1>2, SocketsCounts
<1> QED BY <1>3, <1>5, <1>7, <1>8 DEF SocketsInv

LEMMA CloseKeeps ==
    ASSUME SocketsInv, CountsInv, NEW s \in Sockets, CloseSocket(s)
    PROVE  SocketsInv' /\ CountsInv'
<1> DEFINE p == BearerOf[s]
           list == UserClients(p)
<1>1. /\ socket' \in [Sockets -> [state: {"new", "open", "closed"}, shown: 0..NothingShown]]
      /\ socket'[s].state = "closed" /\ socket'[s].shown = socket[s].shown
      /\ \A q \in Sockets : q # s => socket'[q] = socket[q]
  BY DEF CloseSocket, SocketsInv, RealTimeTypeOK
<1>2. /\ socket[s].state = "open"
      /\ UNCHANGED <<verifying, known, postCount, update, superseded>>
  BY DEF CloseSocket
<1>3. SocketFits(s) BY DEF SocketsInv
<1>4. CountsInv'
  <2>1. DOMAIN clients \subseteq DOMAIN clients' BY DEF CloseSocket, SetClients
  <2> QED BY <1>1, <1>2, <2>1, SocketsCounts
<1>5. CASE s \notin known
  <2>1. lateSockets' = lateSockets \union {s} /\ clients' = clients BY <1>5 DEF CloseSocket
  <2>2. RealTimeTypeOK' BY <1>1, <1>2, <2>1 DEF SocketsInv, RealTimeTypeOK, NothingShown
  <2>3. \A q \in People : UserClients(q)' = UserClients(q) BY <2>1 DEF UserClients
  <2>4. ListsFit' BY <2>3 DEF SocketsInv, ListsFit
  <2>5. \A q \in Sockets : Held(q)' <=> Held(q) BY <2>1 DEF UserClients, Held
  <2>6. ASSUME NEW q \in Sockets PROVE SocketFits(q)' /\ ShowsFit(q)'
    <3>1. SocketFits(q) /\ ShowsFit(q) BY DEF SocketsInv
    <3> QED BY <1>1, <1>2, <1>3, <1>5, <2>1, <2>5, <3>1 DEF SocketFits, ShowsFit, NothingShown
  <2> QED BY <1>4, <2>2, <2>4, <2>6 DEF SocketsInv
<1>6. CASE s \in known
  <2>1. p \in People BY RealTimeAssumption
  <2>2. s \in Range(list) BY <1>2, <1>3, <1>6 DEF SocketFits, Held
  <2>3. list \in Seq(Sockets) /\ NoTwice(list) /\ \A q \in Range(list) : BearerOf[q] = p
    BY <2>1 DEF SocketsInv, ListsFit
  <2>4. /\ Spliced(list, s) \in Seq(Sockets) /\ NoTwice(Spliced(list, s))
        /\ Range(Spliced(list, s)) = Range(list) \ {s}
    BY <2>2, <2>3, SplicedProperties
  <2>5. RealTimeTypeOK /\ SetClients(p, Spliced(list, s)) /\ lateSockets' = lateSockets
    BY <1>6 DEF SocketsInv, CloseSocket
  <2>6. /\ DOMAIN clients' = DOMAIN clients \union {p}
        /\ \A q \in People : UserClients(q)' = IF q = p THEN Spliced(list, s) ELSE UserClients(q)
        /\ \A q \in DOMAIN clients' : clients'[q] \in Seq(Sockets)
    BY <2>1, <2>4, <2>5, ClientsSet
  <2>7. RealTimeTypeOK' BY <1>1, <1>2, <2>1, <2>5, <2>6 DEF RealTimeTypeOK, NothingShown
  <2>8. ListsFit' BY <2>3, <2>4, <2>6 DEF SocketsInv, ListsFit
  <2>9. \A q \in Sockets : Held(q)' <=> Held(q) /\ q # s
    BY <2>2, <2>4, <2>6, RealTimeAssumption DEF Held
  <2>10. ASSUME NEW q \in Sockets PROVE SocketFits(q)' /\ ShowsFit(q)'
    <3>1. SocketFits(q) /\ ShowsFit(q) BY DEF SocketsInv
    <3> QED BY <1>1, <1>2, <1>3, <1>6, <2>5, <2>9, <3>1 DEF SocketFits, ShowsFit, NothingShown
  <2> QED BY <1>4, <2>7, <2>8, <2>10 DEF SocketsInv
<1> QED BY <1>5, <1>6

\* A step that changes no socket and no list keeps what is known of them.
LEMMA ListsStay ==
    ASSUME SocketsInv, RealTimeTypeOK',
           UNCHANGED <<socket, verifying, known, clients, lateSockets>>
    PROVE  SocketsInv'
<1>1. \A p \in People : UserClients(p)' = UserClients(p) BY DEF UserClients
<1>2. ListsFit' BY <1>1 DEF SocketsInv, ListsFit
<1>3. \A q \in Sockets : Held(q)' <=> Held(q) BY DEF UserClients, Held
<1>4. \A q \in Sockets : SocketFits(q)' /\ ShowsFit(q)'
  BY <1>3 DEF SocketsInv, SocketFits, ShowsFit, NothingShown
<1> QED BY <1>2, <1>4 DEF SocketsInv

\* A step that sends no answer keeps what is known of the counts of a user, if his
\* handlers are those of before, no older than his posts.
LEMMA CountsStay ==
    ASSUME NEW p \in People, CountFits(p), RealTimeTypeOK,
           UNCHANGED <<socket, clients, superseded>>,
           postCount'[p] \in Nat, postCount[p] <= postCount'[p],
           \A u \in Handling(p)' : u \in Handling(p) /\ update'[u] = update[u]
    PROVE  CountFits(p)'
<1>1. /\ superseded[p] \subseteq Nat /\ postCount[p] \in Nat
      /\ \A u \in Updates : update[u].since \in Nat
  BY RealTimeAssumption DEF RealTimeTypeOK, UpdateRow
<1>2. \A k \in superseded'[p] : k < postCount'[p] BY <1>1 DEF CountFits
<1>3. ShownFits(p)' BY DEF CountFits, ShownFits
<1>4. ASSUME NEW u \in Handling(p)' PROVE HandlerFits(u, p)'
  <2>1. u \in Handling(p) /\ u \in Updates /\ update'[u] = update[u] BY DEF Handling
  <2>2. HandlerFits(u, p) BY <2>1 DEF CountFits
  <2>3. update'[u].since <= postCount'[p] BY <1>1, <2>1, <2>2 DEF HandlerFits
  <2>4. NothingShown' = NothingShown BY DEF NothingShown
  <2> QED BY <2>1, <2>2, <2>3, <2>4 DEF HandlerFits
<1> QED BY <1>2, <1>3, <1>4 DEF CountFits

\* An update is of the user it has been made for.
LEMMA ChangeKeeps ==
    ASSUME SocketsInv, CountsInv, NEW u \in Updates, NEW p \in People, ChangePosts(u, p)
    PROVE  SocketsInv' /\ CountsInv'
<1> DEFINE new == [NoUpdate(p) EXCEPT !.pc = "saved"]
<1>1. new \in UpdateRow /\ new.pc = "saved" /\ MaxCount \in Nat
  <2>1. 0 \in 0..MaxCount /\ MaxCount \in Nat BY RealTimeAssumption
  <2>2. NoUpdate(p) \in UpdateRow BY <2>1 DEF NoUpdate, UpdateRow
  <2> QED BY <2>1, <2>2 DEF UpdateRow
<1>2. /\ update' \in [Updates -> UpdateRow]
      /\ update'[u].pc = "saved"
      /\ \A v \in Updates : v # u => update'[v] = update[v]
  BY <1>1 DEF ChangePosts, SocketsInv, RealTimeTypeOK
<1>3. /\ postCount' \in [People -> 0..MaxCount]
      /\ \A q \in People : postCount'[q] \in Nat /\ postCount[q] <= postCount'[q]
  BY <1>1 DEF ChangePosts, SocketsInv, RealTimeTypeOK
<1>4. UNCHANGED <<socket, verifying, known, clients, lateSockets, superseded>> BY DEF ChangePosts
<1>5. RealTimeTypeOK /\ RealTimeTypeOK'
  BY <1>2, <1>3, <1>4 DEF SocketsInv, RealTimeTypeOK, NothingShown
<1>6. SocketsInv' BY <1>4, <1>5, ListsStay
<1>7. ASSUME NEW q \in People PROVE CountFits(q)'
  <2>1. \A v \in Handling(q)' : v \in Handling(q) /\ update'[v] = update[v]
    BY <1>2 DEF Handling
  <2>2. CountFits(q) BY DEF CountsInv
  <2> QED BY <1>3, <1>4, <1>5, <2>1, <2>2, CountsStay
<1> QED BY <1>6, <1>7 DEF CountsInv

LEMMA UnannouncedKeeps ==
    ASSUME SocketsInv, CountsInv, NEW p \in People, ChangeUnannounced(p)
    PROVE  SocketsInv' /\ CountsInv'
<1>1. /\ postCount' \in [People -> 0..MaxCount]
      /\ \A q \in People : postCount'[q] \in Nat /\ postCount[q] <= postCount'[q]
  BY RealTimeAssumption DEF ChangeUnannounced, SocketsInv, RealTimeTypeOK
<1>2. UNCHANGED <<socket, verifying, known, clients, update, lateSockets, superseded>>
  BY DEF ChangeUnannounced
<1>3. RealTimeTypeOK /\ RealTimeTypeOK' BY <1>1, <1>2 DEF SocketsInv, RealTimeTypeOK, NothingShown
<1>4. SocketsInv' BY <1>2, <1>3, ListsStay
<1>5. ASSUME NEW q \in People PROVE CountFits(q)'
  <2>1. \A v \in Handling(q)' : v \in Handling(q) /\ update'[v] = update[v] BY <1>2 DEF Handling
  <2>2. CountFits(q) BY DEF CountsInv
  <2> QED BY <1>1, <1>2, <1>3, <2>1, <2>2, CountsStay
<1> QED BY <1>4, <1>5 DEF CountsInv

\* The steps of a handler that change nothing but its row, which keeps its user; what
\* is known of the handlers holds for it in its new state.
LEMMA RowKeeps ==
    ASSUME SocketsInv, CountsInv, NEW u \in Updates, NEW p \in People, update[u].user = p,
           NEW row \in UpdateRow, row.user = p, update' = [update EXCEPT ![u] = row],
           UNCHANGED <<socket, verifying, known, clients, postCount, lateSockets, superseded>>,
           row.pc \in {"count", "deliver"} =>
             /\ HandlerFits(u, p)'
             /\ \A v \in Handling(p) : ~update[v].live /\ row.live => update[v].since <= row.since
    PROVE  SocketsInv' /\ CountsInv'
<1>1. /\ update' \in [Updates -> UpdateRow] /\ update'[u] = row
      /\ \A v \in Updates : v # u => update'[v] = update[v]
      /\ RealTimeTypeOK /\ MaxCount \in Nat
  BY RealTimeAssumption DEF SocketsInv, RealTimeTypeOK
<1>2. RealTimeTypeOK' BY <1>1 DEF RealTimeTypeOK, NothingShown
<1>3. SocketsInv' BY <1>2, ListsStay
<1>4. \A q \in People : CountFits(q) /\ postCount[q] \in Nat
  BY <1>1 DEF CountsInv, RealTimeTypeOK
<1>5. ASSUME NEW q \in People, q # p PROVE CountFits(q)'
  <2>1. \A v \in Handling(q)' : v \in Handling(q) /\ update'[v] = update[v]
    BY <1>1, <1>5 DEF Handling
  <2>2. postCount'[q] \in Nat /\ postCount[q] <= postCount'[q] BY <1>4
  <2> QED BY <1>1, <1>4, <2>1, <2>2, CountsStay
<1>6. CountFits(p)'
  <2>1. CASE row.pc \notin {"count", "deliver"}
    <3>1. \A v \in Handling(p)' : v \in Handling(p) /\ update'[v] = update[v]
      BY <1>1, <2>1 DEF Handling
    <3>2. postCount'[p] \in Nat /\ postCount[p] <= postCount'[p] BY <1>4
    <3> QED BY <1>1, <1>4, <3>1, <3>2, CountsStay
  <2>2. CASE row.pc \in {"count", "deliver"}
    <3>1. ASSUME NEW v \in Handling(p)' PROVE HandlerFits(v, p)'
      <4>1. CASE v = u BY <2>2, <4>1
      <4>2. CASE v # u
        <5>1. v \in Handling(p) /\ update'[v] = update[v] BY <1>1, <3>1, <4>2 DEF Handling
        <5>2. HandlerFits(v, p) BY <1>4, <5>1 DEF CountFits
        <5>3. NothingShown' = NothingShown BY DEF NothingShown
        <5>4. ASSUME ~update[v].live, NEW w \in Handling(p)', update'[w].live
              PROVE  update[v].since <= update'[w].since
          <6>1. CASE w = u BY <1>1, <2>2, <5>1, <5>4, <6>1
          <6>2. CASE w # u
            <7>1. w \in Handling(p) /\ update'[w] = update[w] BY <1>1, <5>4, <6>2 DEF Handling
            <7> QED BY <5>2, <5>4, <7>1 DEF HandlerFits
          <6> QED BY <6>1, <6>2
        <5> QED BY <5>1, <5>2, <5>3, <5>4 DEF HandlerFits
      <4> QED BY <4>1, <4>2
    <3>2. ShownFits(p)' /\ \A k \in superseded'[p] : k < postCount'[p]
      BY <1>4 DEF CountFits, ShownFits
    <3> QED BY <3>1, <3>2 DEF CountFits
  <2> QED BY <2>1, <2>2
<1> QED BY <1>3, <1>5, <1>6 DEF CountsInv

\* The change is announced, or not.
LEMMA AnnounceKeeps ==
    ASSUME SocketsInv, CountsInv, NEW u \in Updates, OnPostStateUpdate(u) \/ AnnounceFails(u)
    PROVE  SocketsInv' /\ CountsInv'
<1>0. PICK p \in People : p = update[u].user BY DEF SocketsInv, RealTimeTypeOK, UpdateRow
<1>1. /\ update[u] \in UpdateRow /\ update[u].user = p /\ postCount[p] \in 0..MaxCount
      /\ MaxCount \in Nat /\ CountFits(p) /\ update[u].pc = "saved"
      /\ UNCHANGED <<socket, verifying, known, clients, postCount, lateSockets, superseded>>
  BY <1>0, RealTimeAssumption
    DEF SocketsInv, RealTimeTypeOK, CountsInv, OnPostStateUpdate, AnnounceFails
<1>2. CASE AnnounceFails(u)
  <2>1. PICK row \in UpdateRow :
          row.user = p /\ row.pc = "idle" /\ update' = [update EXCEPT ![u] = row]
    <3>1. [update[u] EXCEPT !.pc = "idle"] \in UpdateRow BY <1>1 DEF UpdateRow
    <3>2. /\ [update[u] EXCEPT !.pc = "idle"].user = p
          /\ [update[u] EXCEPT !.pc = "idle"].pc = "idle"
      BY <1>1 DEF UpdateRow
    <3>3. update' = [update EXCEPT ![u] = [update[u] EXCEPT !.pc = "idle"]]
      BY <1>2 DEF AnnounceFails, SocketsInv, RealTimeTypeOK, UpdateRow
    <3> QED BY <3>1, <3>2, <3>3
  <2> QED BY <1>1, <2>1, RowKeeps
<1>3. CASE OnPostStateUpdate(u)
  <2>1. PICK row \in UpdateRow :
          /\ row.user = p /\ row.pc = "count" /\ row.since = postCount[p]
          /\ row.live <=> p \in DOMAIN clients
          /\ update' = [update EXCEPT ![u] = row]
    <3> DEFINE new == [update[u] EXCEPT !.pc = "count", !.live = p \in DOMAIN clients,
                                        !.since = postCount[p]]
    <3>1. (p \in DOMAIN clients) \in BOOLEAN OBVIOUS
    <3>2. new \in UpdateRow BY <1>1, <3>1 DEF UpdateRow
    <3>3. new.user = p /\ new.pc = "count" /\ new.since = postCount[p] /\ (new.live <=> p \in DOMAIN clients)
      BY <1>1, <3>1 DEF UpdateRow
    <3>4. update' = [update EXCEPT ![u] = new] BY <1>0, <1>3 DEF OnPostStateUpdate
    <3> QED BY <3>2, <3>3, <3>4
  <2>2. update'[u] = row /\ NothingShown' = NothingShown
    BY <2>1 DEF SocketsInv, RealTimeTypeOK, NothingShown
  <2>3. ASSUME p \notin DOMAIN clients, NEW s \in Sockets, BearerOf[s] = p, socket[s].state = "open"
        PROVE  socket[s].shown = NothingShown
    <3>1. ~Held(s) BY <1>1, <2>3 DEF Held, UserClients, Range
    <3>2. s \notin known BY <2>3, <3>1 DEF SocketsInv, SocketFits
    <3> QED BY <3>2 DEF SocketsInv, ShowsFit
  <2>4. \A v \in Handling(p) :
          update[v].since <= postCount[p] /\ (update[v].live => p \in DOMAIN clients)
    BY <1>1 DEF CountFits, HandlerFits
  <2>5. \A v \in Updates : v # u => update'[v] = update[v]
    BY <2>1 DEF SocketsInv, RealTimeTypeOK
  <2>6. HandlerFits(u, p)'
    <3>1. row.since <= postCount[p] /\ \A k \in superseded[p] : k < row.since
      BY <1>1, <2>1 DEF CountFits
    <3>2. ASSUME ~row.live, NEW v \in Handling(p)', update'[v].live PROVE FALSE
      <4>1. v # u BY <2>2, <3>2
      <4>2. v \in Handling(p) /\ update'[v] = update[v] BY <2>5, <3>2, <4>1 DEF Handling
      <4> QED BY <2>1, <2>4, <3>2, <4>2
    <3> QED BY <1>1, <2>1, <2>2, <2>3, <3>1, <3>2 DEF HandlerFits
  <2> QED BY <1>1, <2>1, <2>4, <2>6, RowKeeps
<1> QED BY <1>2, <1>3

\* The count is read, or not.
LEMMA CountKeeps ==
    ASSUME SocketsInv, CountsInv, NEW u \in Updates, CountUserPostOrders(u) \/ CountFails(u)
    PROVE  SocketsInv' /\ CountsInv'
<1>0. PICK p \in People : p = update[u].user BY DEF SocketsInv, RealTimeTypeOK, UpdateRow
<1>1. /\ update[u] \in UpdateRow /\ update[u].user = p /\ postCount[p] \in 0..MaxCount
      /\ MaxCount \in Nat /\ CountFits(p) /\ update[u].pc = "count" /\ u \in Handling(p)
      /\ UNCHANGED <<socket, verifying, known, clients, postCount, lateSockets, superseded>>
  BY <1>0, RealTimeAssumption
    DEF SocketsInv, RealTimeTypeOK, CountsInv, CountUserPostOrders, CountFails, Handling
<1>2. CASE CountFails(u)
  <2>1. PICK row \in UpdateRow :
          row.user = p /\ row.pc = "idle" /\ update' = [update EXCEPT ![u] = row]
    <3>1. [update[u] EXCEPT !.pc = "idle"] \in UpdateRow BY <1>1 DEF UpdateRow
    <3>2. /\ [update[u] EXCEPT !.pc = "idle"].user = p
          /\ [update[u] EXCEPT !.pc = "idle"].pc = "idle"
      BY <1>1 DEF UpdateRow
    <3>3. update' = [update EXCEPT ![u] = [update[u] EXCEPT !.pc = "idle"]]
      BY <1>2 DEF CountFails, SocketsInv, RealTimeTypeOK, UpdateRow
    <3> QED BY <3>1, <3>2, <3>3
  <2> QED BY <1>1, <2>1, RowKeeps
<1>3. CASE CountUserPostOrders(u)
  <2>1. PICK row \in UpdateRow :
          /\ row.user = p /\ row.pc = "deliver" /\ row.value = postCount[p]
          /\ row.since = update[u].since /\ row.live = update[u].live
          /\ update' = [update EXCEPT ![u] = row]
    <3> DEFINE new == [update[u] EXCEPT !.pc = "deliver", !.value = postCount[p]]
    <3>1. new \in UpdateRow BY <1>1 DEF UpdateRow
    <3>2. /\ new.user = p /\ new.pc = "deliver" /\ new.value = postCount[p]
          /\ new.since = update[u].since /\ new.live = update[u].live
      BY <1>1 DEF UpdateRow
    <3>3. update' = [update EXCEPT ![u] = new]
      BY <1>0, <1>3 DEF CountUserPostOrders, SocketsInv, RealTimeTypeOK, UpdateRow
    <3> QED BY <3>1, <3>2, <3>3
  <2>2. /\ update'[u] = row /\ NothingShown' = NothingShown
        /\ \A v \in Updates : v # u => update'[v] = update[v]
    BY <2>1 DEF SocketsInv, RealTimeTypeOK, NothingShown
  <2>3. HandlerFits(u, p) BY <1>1 DEF CountFits
  <2>4. \A v \in Handling(p) : ~update[v].live /\ row.live => update[v].since <= row.since
    <3>1. \A v \in Handling(p) : HandlerFits(v, p) BY <1>1 DEF CountFits
    <3> QED BY <1>1, <2>1, <3>1 DEF HandlerFits
  <2>5. HandlerFits(u, p)'
    <3>1. \A v \in Handling(p)' :
            /\ v \in Handling(p)
            /\ update'[v].live = update[v].live /\ update'[v].since = update[v].since
      <4> SUFFICES ASSUME NEW v \in Handling(p)'
                   PROVE  /\ v \in Handling(p)
                          /\ update'[v].live = update[v].live /\ update'[v].since = update[v].since
        OBVIOUS
      <4>1. CASE v = u BY <1>1, <2>1, <2>2, <4>1
      <4>2. CASE v # u BY <2>2, <4>2 DEF Handling
      <4> QED BY <4>1, <4>2
    <3>2. update'[u].since <= postCount'[p] /\ update'[u].since <= update'[u].value
      BY <1>1, <2>1, <2>2, <2>3 DEF HandlerFits
    <3> QED BY <1>1, <2>1, <2>2, <2>3, <3>1, <3>2 DEF HandlerFits
  <2> QED BY <1>1, <2>1, <2>4, <2>5, RowKeeps
<1> QED BY <1>2, <1>3

\* The answer is sent.
LEMMA EmitKeeps ==
    ASSUME SocketsInv, CountsInv, NEW u \in Updates, EmitCount(u)
    PROVE  SocketsInv' /\ CountsInv'
<1>0. PICK p \in People : p = update[u].user BY DEF SocketsInv, RealTimeTypeOK, UpdateRow
<1>1. PICK value : value = update[u].value OBVIOUS
<1>2. PICK since : since = update[u].since OBVIOUS
<1>3. /\ p = update[u].user /\ update[u].pc = "deliver" /\ u \in Handling(p)
      /\ update \in [Updates -> UpdateRow] /\ update[u] \in UpdateRow
      /\ value = update[u].value /\ value \in 0..MaxCount
      /\ since = update[u].since /\ since \in 0..MaxCount
      /\ RealTimeTypeOK /\ MaxCount \in Nat
      /\ UNCHANGED <<verifying, known, clients, postCount, lateSockets>>
  BY <1>0, <1>1, <1>2, RealTimeAssumption
    DEF SocketsInv, RealTimeTypeOK, UpdateRow, EmitCount, Handling
<1>4. /\ update' \in [Updates -> UpdateRow]
      /\ update'[u].pc = "idle"
      /\ \A v \in Updates : v # u => update'[v] = update[v]
  <2>1. NoUpdate(p) \in UpdateRow /\ NoUpdate(p).pc = "idle" BY <1>3 DEF NoUpdate, UpdateRow
  <2> QED BY <1>3, <2>1 DEF EmitCount
<1>5. /\ superseded' \in [People -> SUBSET (0..MaxCount)]
      /\ superseded'[p] = superseded[p] \union OverBefore(p)
      /\ \A q \in People : q # p => superseded'[q] = superseded[q]
  <2>1. OverBefore(p) \subseteq 0..MaxCount BY DEF OverBefore
  <2> QED BY <1>3, <2>1 DEF EmitCount, RealTimeTypeOK
<1>6. /\ socket' \in [Sockets -> [state: {"new", "open", "closed"}, shown: 0..NothingShown]]
      /\ \A s \in Sockets : socket'[s].state = socket[s].state
      /\ \A s \in Sockets : s \in Receivers(u) => socket'[s].shown = value
      /\ \A s \in Sockets : s \notin Receivers(u) => socket'[s] = socket[s]
  <2>1. \A s \in Sockets :
          socket'[s] = IF s \in Receivers(u) THEN [socket[s] EXCEPT !.shown = value] ELSE socket[s]
    BY <1>3 DEF EmitCount
  <2>2. \A s \in Sockets : socket[s] \in [state: {"new", "open", "closed"}, shown: 0..NothingShown]
    BY <1>3 DEF RealTimeTypeOK
  <2>3. value \in 0..NothingShown BY <1>3 DEF NothingShown
  <2>4. socket' = [s \in Sockets |-> socket'[s]] BY DEF EmitCount
  <2>5. ASSUME NEW s \in Sockets
        PROVE  /\ socket'[s] \in [state: {"new", "open", "closed"}, shown: 0..NothingShown]
               /\ socket'[s].state = socket[s].state
               /\ s \in Receivers(u) => socket'[s].shown = value
               /\ s \notin Receivers(u) => socket'[s] = socket[s]
    BY <2>1, <2>2, <2>3
  <2> QED BY <2>4, <2>5
<1>7. RealTimeTypeOK' BY <1>3, <1>4, <1>5, <1>6 DEF RealTimeTypeOK, NothingShown
<1>8. \A s \in Receivers(u) : BearerOf[s] = p /\ Held(s)
  BY <1>3 DEF Receivers, SocketsInv, ListsFit, Range, Held
<1>9. SocketsInv'
  <2>1. \A q \in People : UserClients(q)' = UserClients(q) BY <1>3 DEF UserClients
  <2>2. ListsFit' BY <2>1 DEF SocketsInv, ListsFit
  <2>3. \A q \in Sockets : Held(q)' <=> Held(q) BY <1>3 DEF UserClients, Held
  <2>4. ASSUME NEW q \in Sockets PROVE SocketFits(q)' /\ ShowsFit(q)'
    <3>1. SocketFits(q) /\ ShowsFit(q) BY DEF SocketsInv
    <3> QED BY <1>3, <1>6, <1>8, <2>3, <3>1 DEF SocketFits, ShowsFit, NothingShown
  <2> QED BY <1>7, <2>2, <2>4 DEF SocketsInv
<1>10. /\ \A q \in People : CountFits(q)
       /\ \A v \in Handling(p) : HandlerFits(v, p)
       /\ NothingShown' = NothingShown /\ NothingShown \notin superseded'[p]
  BY <1>7, NothingIsOver, <1>3 DEF CountsInv, CountFits, RealTimeTypeOK, NothingShown
<1>11. \A v \in Handling(p)' : v \in Handling(p) /\ v # u /\ update'[v] = update[v]
  BY <1>4 DEF Handling
<1>12. \A k \in superseded'[p] : \A v \in Handling(p) : k < update[v].since
  BY <1>5, <1>10 DEF OverBefore, HandlerFits
<1>13. ASSUME NEW k \in superseded'[p] PROVE k < since /\ k < value /\ k < postCount'[p] /\ k \in Nat
  <2>1. k < since /\ k \in 0..MaxCount BY <1>3, <1>5, <1>7, <1>12 DEF RealTimeTypeOK
  <2>2. since <= value /\ since <= postCount[p] BY <1>3, <1>10 DEF HandlerFits
  <2>3. postCount[p] \in Nat BY <1>3 DEF RealTimeTypeOK
  <2> QED BY <1>3, <2>1, <2>2, <2>3
<1>14. ASSUME NEW s \in Sockets, BearerOf[s] = p, socket[s].state = "open"
       PROVE  /\ socket'[s].shown = NothingShown \/ socket'[s].shown >= since
              /\ \/ socket'[s].shown = value /\ update[u].live
                 \/ socket'[s].shown = socket[s].shown
  <2>1. CASE s \in Receivers(u)
    <3>1. update[u].live BY <2>1 DEF Receivers
    <3>2. since <= value BY <1>3, <1>10 DEF HandlerFits
    <3> QED BY <1>3, <1>6, <2>1, <3>1, <3>2
  <2>2. CASE s \notin Receivers(u) /\ update[u].live
    <3>1. ~Held(s) BY <1>3, <1>14, <2>2 DEF Receivers, Held, Range
    <3>2. s \notin known BY <1>14, <3>1 DEF SocketsInv, SocketFits
    <3>3. socket[s].shown = NothingShown BY <3>2 DEF SocketsInv, ShowsFit
    <3> QED BY <1>6, <2>2, <3>3
  <2>3. CASE s \notin Receivers(u) /\ ~update[u].live
    <3>1. HandlerFits(u, p) BY <1>3, <1>10
    <3>2. socket[s].shown # NothingShown => since <= socket[s].shown
      BY <1>3, <1>14, <2>3, <3>1 DEF HandlerFits
    <3>3. socket[s].shown \in Nat BY <1>3 DEF RealTimeTypeOK, NothingShown
    <3> QED BY <1>3, <1>6, <2>3, <3>2, <3>3
  <2> QED BY <2>1, <2>2, <2>3
<1>15. ShownFits(p)'
  <2>1. ASSUME NEW s \in Sockets, BearerOf[s] = p, socket'[s].state = "open",
               socket'[s].shown \in superseded'[p]
        PROVE  FALSE
    <3>1. socket[s].state = "open" BY <1>6, <2>1
    <3>2. socket'[s].shown >= since BY <1>10, <1>14, <2>1, <3>1
    <3>3. socket'[s].shown < since /\ socket'[s].shown \in Nat BY <1>13, <2>1
    <3> QED BY <1>3, <3>2, <3>3
  <2> QED BY <2>1 DEF ShownFits
<1>16. ASSUME NEW v \in Handling(p)' PROVE HandlerFits(v, p)'
  <2>1. v \in Handling(p) /\ v # u /\ update'[v] = update[v] /\ HandlerFits(v, p)
    BY <1>10, <1>11
  <2>2. v \in Updates /\ update[v].since \in Nat
    BY <1>3, <2>1 DEF Handling, UpdateRow
  <2>3. \A k \in superseded'[p] : k < update'[v].since BY <1>12, <2>1
  <2>4. ASSUME ~update[v].live, NEW s \in Sockets, BearerOf[s] = p, socket'[s].state = "open",
               socket'[s].shown # NothingShown
        PROVE  update[v].since <= socket'[s].shown
    <3>1. socket[s].state = "open" BY <1>6, <2>4
    <3>2. CASE socket'[s].shown = value /\ update[u].live
      <4>1. update[v].since <= since BY <1>3, <2>1, <2>4, <3>2 DEF HandlerFits
      <4>2. since <= value BY <1>3, <1>10 DEF HandlerFits
      <4> QED BY <1>3, <2>2, <3>2, <4>1, <4>2
    <3>3. CASE socket'[s].shown = socket[s].shown BY <2>1, <2>4, <3>1, <3>3 DEF HandlerFits
    <3> QED BY <1>14, <2>4, <3>1, <3>2, <3>3
  <2>5. ASSUME ~update[v].live, NEW w \in Handling(p)', update'[w].live
        PROVE  update[v].since <= update'[w].since
    <3>1. w \in Handling(p) /\ update'[w] = update[w] BY <1>11
    <3> QED BY <2>1, <2>5, <3>1 DEF HandlerFits
  <2> QED BY <1>3, <1>10, <2>1, <2>3, <2>4, <2>5 DEF HandlerFits
<1>17. CountFits(p)' BY <1>13, <1>15, <1>16 DEF CountFits
<1>18. ASSUME NEW q \in People, q # p PROVE CountFits(q)'
  <2>1. \A v \in Handling(q)' : v \in Handling(q) /\ update'[v] = update[v]
    BY <1>3, <1>4, <1>18 DEF Handling
  <2>2. \A s \in Sockets : BearerOf[s] = q => socket'[s] = socket[s] BY <1>6, <1>8, <1>18
  <2>3. CountFits(q) /\ superseded'[q] = superseded[q] BY <1>5, <1>10, <1>18
  <2>4. ShownFits(q)' BY <2>2, <2>3 DEF CountFits, ShownFits
  <2>5. ASSUME NEW v \in Handling(q)' PROVE HandlerFits(v, q)'
    <3>1. HandlerFits(v, q) /\ update'[v] = update[v] BY <2>1, <2>3 DEF CountFits
    <3> QED BY <1>3, <1>10, <2>1, <2>2, <2>3, <3>1 DEF HandlerFits
  <2> QED BY <1>3, <2>3, <2>4, <2>5 DEF CountFits
<1> QED BY <1>9, <1>17, <1>18 DEF CountsInv

LEMMA RealTimeStep == SocketsInv /\ CountsInv /\ [RealTimeNext]_realTimeVars => SocketsInv' /\ CountsInv'
<1> SUFFICES ASSUME SocketsInv, CountsInv, [RealTimeNext]_realTimeVars PROVE SocketsInv' /\ CountsInv'
  OBVIOUS
<1>1. CASE UNCHANGED realTimeVars
  <2>1. UNCHANGED <<socket, verifying, known, clients, postCount, update, lateSockets, superseded>>
    BY <1>1 DEF realTimeVars
  <2>2. RealTimeTypeOK' BY <2>1 DEF SocketsInv, RealTimeTypeOK, NothingShown
  <2> QED BY <2>1, <2>2, ListsStay, SocketsCounts
<1>2. ASSUME NEW s \in Sockets, SocketStep(s) PROVE SocketsInv' /\ CountsInv'
  BY <1>2, OpenKeeps, RegisterKeeps, RefuseKeeps, CloseKeeps DEF SocketStep
<1>3. ASSUME NEW u \in Updates, UpdateStep(u) PROVE SocketsInv' /\ CountsInv'
  BY <1>3, AnnounceKeeps, CountKeeps, EmitKeeps, ChangeKeeps DEF UpdateStep
<1>4. ASSUME NEW p \in People, ChangeUnannounced(p) PROVE SocketsInv' /\ CountsInv'
  BY <1>4, UnannouncedKeeps
<1> QED BY <1>1, <1>2, <1>3, <1>4 DEF RealTimeNext

LEMMA RealTimeStart == RealTimeInit => SocketsInv /\ CountsInv
<1> SUFFICES ASSUME RealTimeInit PROVE SocketsInv /\ CountsInv
  OBVIOUS
<1>1. PICK p \in People : update = [u \in Updates |-> NoUpdate(p)] BY DEF RealTimeInit
<1>2. MaxCount \in Nat BY RealTimeAssumption
<1>3. NoUpdate(p) \in UpdateRow /\ NoUpdate(p).pc = "idle" BY <1>2 DEF NoUpdate, UpdateRow
<1>4. DOMAIN clients = {} BY DEF RealTimeInit
<1>5. RealTimeTypeOK
  <2>1. NothingShown \in 0..NothingShown BY <1>2 DEF NothingShown
  <2>2. socket \in [Sockets -> [state: {"new", "open", "closed"}, shown: 0..NothingShown]]
    BY <2>1 DEF RealTimeInit
  <2>3. postCount \in [People -> 0..MaxCount] /\ superseded \in [People -> SUBSET (0..MaxCount)]
    BY <1>2 DEF RealTimeInit
  <2> QED BY <1>1, <1>3, <1>4, <2>2, <2>3 DEF RealTimeInit, RealTimeTypeOK
<1>6. \A q \in People : UserClients(q) = <<>> BY <1>4 DEF UserClients
<1>7. <<>> \in Seq(Sockets) /\ NoTwice(<<>>) /\ Range(<<>>) = {} BY DEF NoTwice, Range
<1>8. ListsFit BY <1>6, <1>7 DEF ListsFit
<1>9. \A s \in Sockets : ~Held(s) BY <1>6, <1>7, RealTimeAssumption DEF Held
<1>10. \A s \in Sockets : socket[s].state = "new" /\ socket[s].shown = NothingShown
  BY DEF RealTimeInit
<1>11. \A s \in Sockets : SocketFits(s) /\ ShowsFit(s)
  BY <1>9, <1>10 DEF RealTimeInit, SocketFits, ShowsFit
<1>12. \A q \in People : Handling(q) = {} /\ superseded[q] = {}
  BY <1>1, <1>3 DEF Handling, RealTimeInit
<1>13. CountsInv BY <1>12 DEF CountsInv, CountFits, ShownFits
<1> QED BY <1>5, <1>8, <1>11, <1>13 DEF SocketsInv

\* Types of the sockets, the lists and the counts.
THEOREM RealTimeTypeCorrect == RealTimeSpec => []RealTimeTypeOK
<1>1. SocketsInv => RealTimeTypeOK BY DEF SocketsInv
<1> QED BY <1>1, RealTimeStart, RealTimeStep, PTL DEF RealTimeSpec

\* The lists hold every open socket once, and none that is closed, for any number of
\* sockets and users.
THEOREM OpenIsRegistered == RealTimeSpec => []RegisteredIsOpen
<1>1. SocketsInv => RegisteredIsOpen
  <2> SUFFICES ASSUME SocketsInv, NEW s \in Sockets
               PROVE  /\ socket[s].state = "open" /\ s \notin verifying => Cardinality(Registered(s)) = 1
                      /\ Registered(s) # {} => socket[s].state = "open" \/ s \in lateSockets
    BY DEF RegisteredIsOpen
  <2> DEFINE list == UserClients(BearerOf[s])
  <2>1. SocketFits(s) /\ NoTwice(list) BY RealTimeAssumption DEF SocketsInv, ListsFit
  <2>2. Registered(s) # {} => Held(s) BY DEF Registered, Held, Range
  <2>3. ASSUME Held(s) PROVE Cardinality(Registered(s)) = 1
    <3>1. PICK i \in DOMAIN list : list[i] = s BY <2>3 DEF Held, Range
    <3>2. Registered(s) = {i} BY <2>1, <3>1 DEF Registered, NoTwice
    <3> QED BY <3>2, FS_Singleton
  <2> QED BY <2>1, <2>2, <2>3 DEF SocketFits
<1> QED BY <1>1, RealTimeStart, RealTimeStep, PTL DEF RealTimeSpec

\* No open socket shows a count that was over before the oldest handler then under
\* way began, once an answer has been sent, for any number of sockets, users, changes
\* and handlers, in whatever order these come and are answered.
THEOREM SupersededIsGone == RealTimeSpec => []SupersededIsNotShown
<1>1. SocketsInv /\ CountsInv => SupersededIsNotShown
  BY RealTimeAssumption DEF CountsInv, CountFits, ShownFits, SupersededIsNotShown
<1> QED BY <1>1, RealTimeStart, RealTimeStep, PTL DEF RealTimeSpec

(***************************************************************************)
(* The migration.                                                          *)
(***************************************************************************)

\* The pages say of post e of owner o what is noted of it.
PageFits(e, onSite, o, failed) ==
    /\ onSite => PageOf[e] # 0
    /\ ~onSite => PageOf[e] = 0 \/ o \in failed

\* What is known of a job: it has posts of its user only; one that migrates has one
\* post, and its metadata before its order.
JobFits(row, failed, saved) ==
    /\ row.posts \subseteq EntriesOf[row.owner]
    /\ row.name = "findUnrecordedPosts" =>
         /\ row.pc \in {"waiting", "posted", "published", "add"}
         /\ row.pc \in {"waiting", "posted"} => row.posts = {}
         /\ row.pc = "add" => \A e \in row.posts : PageFits(e, e \in row.published, row.owner, failed)
    /\ row.name = "migrateUnrecordedPost" =>
         /\ row.pc \in {"waiting", "convert", "metadata", "order"}
         /\ \E e \in Entries :
              /\ row.posts = {e} /\ row.published \subseteq {e}
              /\ PageFits(e, row.published # {}, row.owner, failed)
              /\ row.pc \in {"metadata", "order"} /\ e \in Certified => row.serial = 0
              /\ row.pc = "order" => [post |-> e, serial |-> row.serial] \in saved

\* What is known of an order.
OrderFits(row, failed, saved) ==
    /\ [post |-> row.post, serial |-> row.serial] \in saved
    /\ row.post \in Certified => row.serial = 0
    /\ row.publishState = "finished" => PageOf[row.post] # 0
    /\ row.publishState = "none" => PageOf[row.post] = 0 \/ \E o \in failed : row.post \in EntriesOf[o]

\* The inductive invariant of the jobs and the orders.
MigrationInv ==
    /\ MigrationTypeOK
    /\ \A j \in DOMAIN queued : JobFits(queued[j], unlisted, metadataRows)
    /\ \A row \in orderRows : OrderFits(row, unlisted, metadataRows)
    /\ \A row, other \in orderRows : row.post = other.post /\ row.serial = other.serial => row = other

\* A job will list the posts of owner o again.
Lists(row, o) ==
    row.owner = o /\ row.name = "findUnrecordedPosts" /\ row.pc \in {"waiting", "posted"}

\* The jobs that may make an order of post e of owner o.
Claims(e, o) == {j \in DOMAIN queued : e \in queued[j].posts \/ Lists(queued[j], o)}

\* Without a restart, the post of a user who has not been queued twice is on its way
\* once, or has one order.
OnceInv ==
    reboots = 0 =>
        \A o \in Owners \ crossedOwners : \A e \in EntriesOf[o] :
            /\ \A j, k \in Claims(e, o) : j = k
            /\ (\E row \in orderRows : row.post = e) => Claims(e, o) = {}
            /\ \A row, other \in orderRows : row.post = e /\ other.post = e => row = other

\* A user's posts have begun to be migrated.
Begun(o) == Recorded(o) \/ \E j \in JobsOf(o) : queued[j].posts # {}

\* A post is on its way, or there, or has failed.
OnItsWay(e) ==
    \/ \E row \in orderRows : row.post = e
    \/ \E j \in DOMAIN queued : e \in queued[j].posts
    \/ e \in lost

\* Without a restart, all posts of a user are on their way once one is; after one they
\* may have to be listed again, and that may fail.
CompleteInv ==
    \A o \in Owners : Begun(o) =>
        \A e \in EntriesOf[o] :
            \/ OnItsWay(e)
            \/ reboots > 0 /\ (o \in unlisted \/ \E j \in DOMAIN queued : Lists(queued[j], o))
AllInv == MigrationInv /\ OnceInv /\ CompleteInv

\* A post is of one user.
LEMMA OneOwner ==
    /\ \A o \in Owners : EntriesOf[o] \subseteq Entries
    /\ \A o, p \in Owners : \A e : e \in EntriesOf[o] /\ e \in EntriesOf[p] => o = p
  BY MigrationAssumption

\* What has failed or been saved takes nothing back.
LEMMA JobsGrow ==
    ASSUME unlisted \subseteq unlisted', metadataRows \subseteq metadataRows', NEW row, JobFits(row, unlisted, metadataRows)
    PROVE  JobFits(row, unlisted', metadataRows')
  BY DEF JobFits, PageFits

LEMMA OrdersGrow ==
    ASSUME unlisted \subseteq unlisted', metadataRows \subseteq metadataRows', NEW row, OrderFits(row, unlisted, metadataRows)
    PROVE  OrderFits(row, unlisted', metadataRows')
  BY DEF OrderFits

\* A job is put, or over, and the others are as they were.
LEMMA PutJobProperties ==
    ASSUME NEW j, NEW row, queued' = PutJob(j, row)
    PROVE  /\ DOMAIN queued' = DOMAIN queued \union {j}
           /\ queued'[j] = row
           /\ \A k \in DOMAIN queued : k # j => queued'[k] = queued[k]
  BY DEF PutJob

LEMMA OverProperties ==
    ASSUME NEW j, queued' = Over(j)
    PROVE  /\ DOMAIN queued' = DOMAIN queued \ {j}
           /\ \A k \in DOMAIN queued' : queued'[k] = queued[k]
  BY DEF Over

\* A new job is of the right type.
LEMMA NewJobTyped ==
    ASSUME NEW name \in {"findUnrecordedPosts", "migrateUnrecordedPost"}, NEW o \in Owners,
           NEW posts \in SUBSET Entries, NEW published \in SUBSET Entries
    PROVE  /\ NewJob(name, o, posts, published) \in JobRow
           /\ [NewJob(name, o, posts, published) EXCEPT !.stalled = TRUE] \in JobRow
  BY DEF NewJob, JobRow

\* A step of a job that stays where it is in the queue, and keeps its posts.
LEMMA JobAdvances ==
    ASSUME AllInv, NEW j \in DOMAIN queued, NEW new \in JobRow, queued' = PutJob(j, new),
           new.owner = queued[j].owner, new.posts = queued[j].posts,
           \A o \in Owners : Lists(new, o) <=> Lists(queued[j], o),
           JobFits(new, unlisted', metadataRows'),
           unlisted \subseteq unlisted', unlisted' \subseteq Owners,
           metadataRows \subseteq metadataRows', metadataRows' \subseteq OrderIds,
           signed' \in [Entries -> Nat],
           UNCHANGED <<migration, orderRows, reboots, lost, crossedOwners>>
    PROVE  AllInv'
<1>0. /\ DOMAIN queued' = DOMAIN queued \union {j}
      /\ queued'[j] = new
      /\ \A k \in DOMAIN queued : k # j => queued'[k] = queued[k]
  BY PutJobProperties
<1>1. /\ DOMAIN queued' = DOMAIN queued
      /\ queued'[j] = new
      /\ \A k \in DOMAIN queued : k # j => queued'[k] = queued[k]
  BY <1>0
<1>2. MigrationTypeOK' BY <1>1 DEF AllInv, MigrationInv, MigrationTypeOK
<1>3. ASSUME NEW k \in DOMAIN queued PROVE JobFits(queued'[k], unlisted', metadataRows')
  <2>1. CASE k = j BY <1>1, <2>1
  <2>2. CASE k # j
    BY <1>1, <2>2, JobsGrow DEF AllInv, MigrationInv
  <2> QED BY <2>1, <2>2
<1>4. \A row \in orderRows' : OrderFits(row, unlisted', metadataRows') BY OrdersGrow DEF AllInv, MigrationInv
<1>5. MigrationInv' BY <1>1, <1>2, <1>3, <1>4 DEF AllInv, MigrationInv
<1>6. \A e : \A o \in Owners : Claims(e, o)' = Claims(e, o) BY <1>1 DEF Claims, Lists
<1>7. OnceInv' BY <1>6 DEF AllInv, OnceInv
<1>8. \A o \in Owners : Begun(o)' => Begun(o) BY <1>1 DEF Begun, Recorded, JobsOf
<1>9. \A e : OnItsWay(e) => OnItsWay(e)' BY <1>1 DEF OnItsWay
<1>10. \A o \in Owners : \A k \in DOMAIN queued : Lists(queued[k], o) => Lists(queued'[k], o)
  BY <1>1
<1>11. CompleteInv' BY <1>1, <1>8, <1>9, <1>10 DEF AllInv, CompleteInv, Lists
<1> QED BY <1>5, <1>7, <1>11 DEF AllInv

\* A job that is over has no more posts to list, and has lost those it still had.
LEMMA JobEnds ==
    ASSUME AllInv, NEW j \in DOMAIN queued, queued' = Over(j),
           \A o \in Owners : ~Lists(queued[j], o),
           lost' = lost \union queued[j].posts,
           UNCHANGED <<migration, signed, metadataRows, orderRows, reboots, unlisted, crossedOwners>>
    PROVE  AllInv'
<1>1. /\ DOMAIN queued' = DOMAIN queued \ {j}
      /\ \A k \in DOMAIN queued' : queued'[k] = queued[k]
  BY OverProperties
<1>2. MigrationTypeOK' BY <1>1 DEF AllInv, MigrationInv, MigrationTypeOK, JobRow
<1>3. ASSUME NEW k \in DOMAIN queued' PROVE JobFits(queued'[k], unlisted', metadataRows')
  BY <1>1, JobsGrow DEF AllInv, MigrationInv
<1>4. \A row \in orderRows' : OrderFits(row, unlisted', metadataRows') BY OrdersGrow DEF AllInv, MigrationInv
<1>5. MigrationInv' BY <1>1, <1>2, <1>3, <1>4 DEF AllInv, MigrationInv
<1>6. \A e : \A o \in Owners : Claims(e, o)' \subseteq Claims(e, o) BY <1>1 DEF Claims, Lists
<1>7. OnceInv' BY <1>6 DEF AllInv, OnceInv
<1>8. \A o \in Owners : Begun(o)' => Begun(o) BY <1>1 DEF Begun, Recorded, JobsOf
<1>9. \A e : OnItsWay(e) => OnItsWay(e)' BY <1>1 DEF OnItsWay
<1>10. ASSUME NEW o \in Owners, NEW k \in DOMAIN queued, Lists(queued[k], o)
       PROVE  k \in DOMAIN queued' /\ Lists(queued'[k], o)
  BY <1>1, <1>10
<1>11. CompleteInv' BY <1>8, <1>9, <1>10 DEF AllInv, CompleteInv, Lists
<1> QED BY <1>5, <1>7, <1>11 DEF AllInv

\* The request of an administrator.
LEMMA RequestMigrates ==
    ASSUME AllInv, NEW m \in Administrators, FindUnrecordedUsers(m)
    PROVE  AllInv'
<1>1. UNCHANGED <<queued, signed, metadataRows, orderRows, reboots, lost, unlisted, crossedOwners>>
  BY DEF FindUnrecordedUsers
<1>2. MigrationTypeOK' BY <1>1 DEF AllInv, MigrationInv, MigrationTypeOK, FindUnrecordedUsers
<1>3. MigrationInv'
  <2>1. \A j \in DOMAIN queued : JobFits(queued'[j], unlisted', metadataRows')
    BY <1>1 DEF AllInv, MigrationInv
  <2>2. \A row \in orderRows' : OrderFits(row, unlisted', metadataRows')
    BY <1>1 DEF AllInv, MigrationInv
  <2> QED BY <1>1, <1>2, <2>1, <2>2 DEF AllInv, MigrationInv
<1>4. OnceInv' BY <1>1 DEF AllInv, OnceInv, Claims, Lists
<1>5. CompleteInv' BY <1>1 DEF AllInv, CompleteInv, Begun, Recorded, JobsOf, OnItsWay, Lists
<1> QED BY <1>3, <1>4, <1>5 DEF AllInv

LEMMA QueueUserKeeps ==
    ASSUME AllInv, NEW m \in Administrators, NEW u \in Owners, QueueUser(m, u)
    PROVE  AllInv'
<1> DEFINE new == NewJob("findUnrecordedPosts", u, {}, {})
<1>1. PICK j \in 1..MaxJobs : FreeJob(j) /\ queued' = PutJob(j, new) BY DEF QueueUser
<1>2. /\ DOMAIN queued' = DOMAIN queued \union {j} /\ j \notin DOMAIN queued
      /\ queued'[j] = new
      /\ \A k \in DOMAIN queued : queued'[k] = queued[k]
  <2>1. j \notin DOMAIN queued BY <1>1 DEF FreeJob
  <2> QED BY <1>1, <2>1, PutJobProperties
<1>3. UNCHANGED <<signed, metadataRows, orderRows, reboots, lost, unlisted>> BY DEF QueueUser
<1>4. /\ new \in JobRow /\ new.posts = {} /\ new.owner = u /\ new.pc = "waiting"
      /\ new.name = "findUnrecordedPosts"
  BY NewJobTyped DEF NewJob
<1>5. /\ crossedOwners' \subseteq Owners /\ crossedOwners \subseteq crossedOwners'
      /\ u \notin crossedOwners' => ~Recorded(u) /\ JobsOf(u) = {}
  BY DEF QueueUser, AllInv, MigrationInv, MigrationTypeOK
<1> HIDE DEF new
<1>6. MigrationTypeOK'
  <2>1. migration' \in [Administrators -> [pc: {"idle", "queue", "done"}, left: SUBSET Owners]]
    BY DEF QueueUser, AllInv, MigrationInv, MigrationTypeOK
  <2> QED BY <1>2, <1>3, <1>4, <1>5, <2>1 DEF AllInv, MigrationInv, MigrationTypeOK
<1>7. ASSUME NEW k \in DOMAIN queued' PROVE JobFits(queued'[k], unlisted', metadataRows')
  <2>1. CASE k = j
    <3>1. JobFits(new, unlisted', metadataRows') BY <1>4 DEF JobFits
    <3> QED BY <1>2, <2>1, <3>1
  <2>2. CASE k # j
    BY <1>2, <1>3, <2>2, JobsGrow DEF AllInv, MigrationInv
  <2> QED BY <2>1, <2>2
<1>8. \A row \in orderRows' : OrderFits(row, unlisted', metadataRows') BY <1>3, OrdersGrow DEF AllInv, MigrationInv
<1>9. MigrationInv' BY <1>3, <1>6, <1>7, <1>8 DEF AllInv, MigrationInv
<1>10. ASSUME reboots = 0, NEW o \in Owners \ crossedOwners', NEW e \in EntriesOf[o]
       PROVE  /\ \A k, l \in Claims(e, o)' : k = l
              /\ (\E row \in orderRows : row.post = e) => Claims(e, o)' = {}
              /\ \A row, other \in orderRows : row.post = e /\ other.post = e => row = other
  <2>1. /\ \A k, l \in Claims(e, o) : k = l
        /\ (\E row \in orderRows : row.post = e) => Claims(e, o) = {}
        /\ \A row, other \in orderRows : row.post = e /\ other.post = e => row = other
    BY <1>5, <1>10 DEF AllInv, OnceInv
  <2>2. CASE o # u
    <3>1. Claims(e, o)' = Claims(e, o) BY <1>2, <1>4, <2>2 DEF Claims, Lists
    <3> QED BY <2>1, <3>1
  <2>3. CASE o = u
    <3>1. ~Recorded(u) /\ JobsOf(u) = {} BY <1>5, <2>3
    <3>2. \A k \in DOMAIN queued : queued[k].owner # u BY <3>1 DEF JobsOf
    <3>3. \A k \in DOMAIN queued : queued[k].posts \subseteq EntriesOf[queued[k].owner] /\ queued[k].owner \in Owners
      BY DEF AllInv, MigrationInv, MigrationTypeOK, JobFits, JobRow
    <3>4. \A k \in DOMAIN queued : e \notin queued[k].posts BY <2>3, <3>2, <3>3, OneOwner
    <3>5. Claims(e, o)' \subseteq {j} BY <1>2, <2>3, <3>2, <3>4 DEF Claims, Lists
    <3>6. \A row \in orderRows : row.post # e BY <2>3, <3>1 DEF Recorded
    <3> QED BY <3>5, <3>6
  <2> QED BY <2>2, <2>3
<1>11. OnceInv' BY <1>3, <1>10 DEF OnceInv
<1>12. \A o \in Owners : Begun(o)' => Begun(o) BY <1>2, <1>3, <1>4 DEF Begun, Recorded, JobsOf
<1>13. \A e : OnItsWay(e) => OnItsWay(e)' BY <1>2, <1>3 DEF OnItsWay
<1>14. \A o \in Owners : \A k \in DOMAIN queued :
          Lists(queued[k], o) => k \in DOMAIN queued' /\ Lists(queued'[k], o)
  BY <1>2
<1>15. CompleteInv' BY <1>3, <1>12, <1>13, <1>14 DEF AllInv, CompleteInv, Lists
<1> QED BY <1>9, <1>11, <1>15 DEF AllInv

\* A job in the queue.
LEMMA QueuedFits ==
    ASSUME AllInv, NEW j \in DOMAIN queued
    PROVE  /\ j \in 1..MaxJobs
           /\ queued[j] \in JobRow /\ JobFits(queued[j], unlisted, metadataRows)
           /\ queued[j].owner \in Owners
           /\ queued[j].posts \subseteq EntriesOf[queued[j].owner]
           /\ queued[j].posts \subseteq Entries
  BY OneOwner DEF AllInv, MigrationInv, MigrationTypeOK, JobRow, JobFits

\* A job past its start that is not one to list migrates one post.
LEMMA OnePost ==
    ASSUME AllInv, NEW j \in DOMAIN queued, queued[j].pc \in {"convert", "metadata", "order"}
    PROVE  /\ queued[j].name = "migrateUnrecordedPost"
           /\ ThePost(j) \in Entries /\ queued[j].posts = {ThePost(j)}
           /\ queued[j].published \subseteq {ThePost(j)}
           /\ PageFits(ThePost(j), queued[j].published # {}, queued[j].owner, unlisted)
           /\ queued[j].pc \in {"metadata", "order"} /\ ThePost(j) \in Certified => queued[j].serial = 0
           /\ queued[j].pc = "order" =>
                [post |-> ThePost(j), serial |-> queued[j].serial] \in metadataRows
<1>1. queued[j] \in JobRow /\ JobFits(queued[j], unlisted, metadataRows) BY QueuedFits
<1>2. queued[j].name = "migrateUnrecordedPost" BY <1>1 DEF JobFits, JobRow
<1>3. PICK e \in Entries :
        /\ queued[j].posts = {e} /\ queued[j].published \subseteq {e}
        /\ PageFits(e, queued[j].published # {}, queued[j].owner, unlisted)
        /\ queued[j].pc \in {"metadata", "order"} /\ e \in Certified => queued[j].serial = 0
        /\ queued[j].pc = "order" => [post |-> e, serial |-> queued[j].serial] \in metadataRows
  BY <1>1, <1>2 DEF JobFits
<1>4. ThePost(j) = e BY <1>3 DEF ThePost
<1> QED BY <1>2, <1>3, <1>4

LEMMA StartKeeps ==
    ASSUME AllInv, NEW j \in DOMAIN queued, StartQueued(j)
    PROVE  AllInv'
<1> DEFINE row == queued[j]
           first == IF row.name = "findUnrecordedPosts" THEN "posted" ELSE "convert"
           new == [row EXCEPT !.pc = first]
<1>1. row \in JobRow /\ JobFits(row, unlisted, metadataRows) BY QueuedFits
<1>2. row.pc = "waiting" /\ queued' = PutJob(j, new) BY DEF StartQueued
<1>3. first \in {"posted", "convert"} /\ (first = "posted" <=> row.name = "findUnrecordedPosts")
  OBVIOUS
<1>4. UNCHANGED <<migration, signed, metadataRows, orderRows, reboots, lost, unlisted, crossedOwners>>
  BY DEF StartQueued
<1> HIDE DEF first
<1>5. /\ new \in JobRow /\ new.pc = first /\ new.name = row.name /\ new.owner = row.owner
      /\ new.posts = row.posts /\ new.published = row.published
  BY <1>1, <1>3 DEF JobRow
<1>6. JobFits(new, unlisted, metadataRows)
  <2> HIDE DEF new
  <2>1. CASE row.name = "findUnrecordedPosts" BY <1>1, <1>2, <1>3, <1>5, <2>1 DEF JobFits
  <2>2. CASE row.name = "migrateUnrecordedPost" BY <1>1, <1>2, <1>3, <1>5, <2>2 DEF JobFits
  <2> QED BY <1>1, <2>1, <2>2 DEF JobRow
<1>7. \A o \in Owners : Lists(new, o) <=> Lists(row, o)
  BY <1>1, <1>2, <1>3, <1>5 DEF Lists
<1>8. /\ signed \in [Entries -> Nat] /\ unlisted \subseteq Owners /\ metadataRows \subseteq OrderIds
  BY DEF AllInv, MigrationInv, MigrationTypeOK
<1> HIDE DEF new
<1> QED BY <1>2, <1>4, <1>5, <1>6, <1>7, <1>8, JobAdvances

LEMMA ListPublishedKeeps ==
    ASSUME AllInv, NEW j \in DOMAIN queued, ListPublished(j)
    PROVE  AllInv'
<1> DEFINE row == queued[j]
<1>1. row \in JobRow /\ JobFits(row, unlisted, metadataRows) /\ row.owner \in Owners
      /\ row.posts \subseteq Entries
  BY QueuedFits
<1>2. PICK failed \in SUBSET Pages :
        /\ queued' = PutJob(j, [row EXCEPT !.pc = "add", !.published = PublishedOn(failed) \intersect row.posts])
        /\ unlisted' = IF failed # {} THEN unlisted \union {row.owner} ELSE unlisted
  BY DEF ListPublished
<1> DEFINE new == [row EXCEPT !.pc = "add", !.published = PublishedOn(failed) \intersect row.posts]
<1>3. /\ row.pc = "published"
      /\ UNCHANGED <<migration, signed, metadataRows, orderRows, reboots, lost, crossedOwners>>
  BY DEF ListPublished
<1>4. row.name = "findUnrecordedPosts" BY <1>1, <1>3 DEF JobFits, JobRow
<1>5. PublishedOn(failed) \subseteq Entries BY DEF PublishedOn
<1>6. /\ new \in JobRow /\ new.pc = "add" /\ new.name = row.name /\ new.owner = row.owner
      /\ new.posts = row.posts /\ new.published = PublishedOn(failed) \intersect row.posts
  BY <1>1, <1>5 DEF JobRow
<1>7. \A e \in row.posts : PageFits(e, e \in new.published, row.owner, unlisted')
  <2> SUFFICES ASSUME NEW e \in row.posts
               PROVE  PageFits(e, e \in new.published, row.owner, unlisted')
    OBVIOUS
  <2>1. e \in Entries BY <1>1
  <2>2. e \in new.published <=> e \in PublishedOn(failed) BY <1>6
  <2>3. e \in PublishedOn(failed) => PageOf[e] # 0 BY DEF PublishedOn, Pages
  <2>4. CASE failed = {}
    <3>1. ASSUME PageOf[e] # 0 PROVE e \in PublishedOn(failed)
      <4>1. PageOf[e] \in Nat BY <2>1, MigrationAssumption
      <4>2. PageOf[e] \in 1..PageOf[e] BY <3>1, <4>1
      <4>3. PageOf[e] \in Pages BY <2>1, <4>2 DEF Pages
      <4> QED BY <2>1, <2>4, <4>3 DEF PublishedOn
    <3> QED BY <2>2, <2>3, <3>1 DEF PageFits
  <2>5. CASE failed # {}
    <3>1. row.owner \in unlisted' BY <1>2, <2>5
    <3> QED BY <2>2, <2>3, <3>1 DEF PageFits
  <2> QED BY <2>4, <2>5
<1>8. JobFits(new, unlisted', metadataRows')
  <2> HIDE DEF new
  <2> QED BY <1>1, <1>4, <1>6, <1>7 DEF JobFits
<1>9. \A o \in Owners : Lists(new, o) <=> Lists(row, o)
  BY <1>3, <1>6 DEF Lists
<1>10. /\ signed \in [Entries -> Nat] /\ metadataRows \subseteq OrderIds
       /\ unlisted \subseteq unlisted' /\ unlisted' \subseteq Owners
  BY <1>1, <1>2 DEF AllInv, MigrationInv, MigrationTypeOK
<1>11. queued' = PutJob(j, new) BY <1>2
<1> HIDE DEF new
<1> QED BY <1>3, <1>6, <1>8, <1>9, <1>10, <1>11, JobAdvances

LEMMA ConvertKeeps ==
    ASSUME AllInv, NEW j \in DOMAIN queued, ConvertPost(j)
    PROVE  AllInv'
<1> DEFINE row == queued[j]
           e == ThePost(j)
           new == [row EXCEPT !.pc = "metadata", !.serial = Signature(e)]
<1>1. row \in JobRow /\ JobFits(row, unlisted, metadataRows) BY QueuedFits
<1>2. /\ row.pc = "convert" /\ queued' = PutJob(j, new)
      /\ signed' = IF Signature(e) = 0 THEN signed ELSE [signed EXCEPT ![e] = Signature(e)]
      /\ UNCHANGED <<migration, metadataRows, orderRows, reboots, lost, unlisted, crossedOwners>>
  BY DEF ConvertPost
<1>3. /\ row.name = "migrateUnrecordedPost" /\ e \in Entries /\ row.posts = {e}
      /\ row.published \subseteq {e}
      /\ PageFits(e, row.published # {}, row.owner, unlisted)
  BY <1>2, OnePost
<1>4. /\ signed \in [Entries -> Nat] /\ unlisted \subseteq Owners /\ metadataRows \subseteq OrderIds
  BY DEF AllInv, MigrationInv, MigrationTypeOK
<1>5. Signature(e) \in Nat /\ (e \in Certified => Signature(e) = 0) BY <1>3, <1>4 DEF Signature
<1>6. signed' \in [Entries -> Nat] BY <1>2, <1>3, <1>4, <1>5
<1> HIDE DEF e
<1>7. /\ new \in JobRow /\ new.pc = "metadata" /\ new.name = row.name /\ new.owner = row.owner
      /\ new.posts = row.posts /\ new.published = row.published /\ new.serial = Signature(e)
  BY <1>1, <1>5 DEF JobRow
<1> HIDE DEF new
<1>8. JobFits(new, unlisted, metadataRows) BY <1>1, <1>3, <1>5, <1>7 DEF JobFits
<1>9. \A o \in Owners : Lists(new, o) <=> Lists(row, o) BY <1>2, <1>7 DEF Lists
<1> QED BY <1>2, <1>4, <1>6, <1>7, <1>8, <1>9, JobAdvances

LEMMA SaveMetadataKeeps ==
    ASSUME AllInv, NEW j \in DOMAIN queued, SaveMetadata(j)
    PROVE  AllInv'
<1> DEFINE row == queued[j]
           e == ThePost(j)
           id == [post |-> e, serial |-> row.serial]
           new == [row EXCEPT !.pc = "order"]
<1>1. row \in JobRow /\ JobFits(row, unlisted, metadataRows) BY QueuedFits
<1>2. /\ row.pc = "metadata" /\ queued' = PutJob(j, new)
      /\ metadataRows' = metadataRows \union {id}
      /\ UNCHANGED <<migration, signed, orderRows, reboots, lost, unlisted, crossedOwners>>
  BY DEF SaveMetadata
<1>3. /\ row.name = "migrateUnrecordedPost" /\ e \in Entries /\ row.posts = {e}
      /\ row.published \subseteq {e}
      /\ PageFits(e, row.published # {}, row.owner, unlisted)
      /\ e \in Certified => row.serial = 0
  BY <1>2, OnePost
<1>4. /\ signed \in [Entries -> Nat] /\ unlisted \subseteq Owners /\ metadataRows \subseteq OrderIds
  BY DEF AllInv, MigrationInv, MigrationTypeOK
<1>5. metadataRows' \subseteq OrderIds /\ metadataRows \subseteq metadataRows' /\ id \in metadataRows'
  BY <1>1, <1>2, <1>3, <1>4 DEF OrderIds, JobRow
<1> HIDE DEF e
<1>6. /\ new \in JobRow /\ new.pc = "order" /\ new.name = row.name /\ new.owner = row.owner
      /\ new.posts = row.posts /\ new.published = row.published /\ new.serial = row.serial
  BY <1>1 DEF JobRow
<1> HIDE DEF new
<1>7. JobFits(new, unlisted', metadataRows') BY <1>1, <1>2, <1>3, <1>5, <1>6 DEF JobFits
<1>8. \A o \in Owners : Lists(new, o) <=> Lists(row, o) BY <1>2, <1>6 DEF Lists
<1> QED BY <1>2, <1>4, <1>5, <1>6, <1>7, <1>8, JobAdvances

LEMMA FailKeeps ==
    ASSUME AllInv, NEW j \in DOMAIN queued, FailPost(j)
    PROVE  AllInv'
<1>1. /\ queued[j].pc \in {"convert", "metadata", "order"}
      /\ queued' = Over(j) /\ lost' = lost \union queued[j].posts
      /\ UNCHANGED <<migration, signed, metadataRows, orderRows, reboots, unlisted, crossedOwners>>
  BY DEF FailPost
<1>2. \A o \in Owners : ~Lists(queued[j], o) BY <1>1 DEF Lists
<1> QED BY <1>1, <1>2, JobEnds

\* All posts are listed, or none; then the list has failed, unless there are none.
LEMMA ListPostedKeeps ==
    ASSUME AllInv, NEW j \in DOMAIN queued, ListPosted(j)
    PROVE  AllInv'
<1> DEFINE row == queued[j]
<1>1. /\ row \in JobRow /\ JobFits(row, unlisted, metadataRows) /\ row.owner \in Owners
      /\ j \in 1..MaxJobs
  BY QueuedFits
<1>2. PICK found \in {EntriesOf[row.owner], {}} :
        /\ queued' = PutJob(j, [row EXCEPT !.pc = "published", !.posts = found])
        /\ unlisted' = IF found = {} THEN unlisted \union {row.owner} ELSE unlisted
  BY DEF ListPosted
<1> DEFINE new == [row EXCEPT !.pc = "published", !.posts = found]
<1>3. /\ row.pc = "posted"
      /\ UNCHANGED <<migration, signed, metadataRows, orderRows, reboots, lost, crossedOwners>>
  BY DEF ListPosted
<1>4. row.name = "findUnrecordedPosts" /\ row.posts = {} BY <1>1, <1>3 DEF JobFits, JobRow
<1>5. found \subseteq Entries /\ found \subseteq EntriesOf[row.owner] BY <1>1, <1>2, OneOwner
<1>6. /\ new \in JobRow /\ new.pc = "published" /\ new.name = row.name /\ new.owner = row.owner
      /\ new.posts = found
  BY <1>1, <1>5 DEF JobRow
<1>7. queued' = PutJob(j, new) BY <1>2
<1> HIDE DEF new
<1>8. JobFits(new, unlisted', metadataRows') BY <1>4, <1>5, <1>6 DEF JobFits
<1>9. /\ DOMAIN queued' = DOMAIN queued \union {j}
      /\ queued'[j] = new
      /\ \A k \in DOMAIN queued : k # j => queued'[k] = queued[k]
  BY <1>7, PutJobProperties
<1>10. DOMAIN queued' = DOMAIN queued BY <1>9
<1>11. /\ unlisted \subseteq unlisted' /\ unlisted' \subseteq Owners
  BY <1>1, <1>2 DEF AllInv, MigrationInv, MigrationTypeOK
<1>12. MigrationTypeOK'
  BY <1>3, <1>6, <1>9, <1>10, <1>11 DEF AllInv, MigrationInv, MigrationTypeOK
<1>13. ASSUME NEW k \in DOMAIN queued PROVE JobFits(queued'[k], unlisted', metadataRows')
  <2>1. CASE k = j BY <1>8, <1>9, <2>1
  <2>2. CASE k # j BY <1>3, <1>9, <1>11, <2>2, JobsGrow DEF AllInv, MigrationInv
  <2> QED BY <2>1, <2>2
<1>14. \A r \in orderRows' : OrderFits(r, unlisted', metadataRows')
  BY <1>3, <1>11, OrdersGrow DEF AllInv, MigrationInv
<1>15. MigrationInv' BY <1>3, <1>10, <1>12, <1>13, <1>14 DEF AllInv, MigrationInv
<1>16. Lists(row, row.owner) BY <1>3, <1>4 DEF Lists
<1>17. \A o \in Owners : ~Lists(new, o) BY <1>6 DEF Lists
<1>18. ASSUME NEW o \in Owners, NEW e \in EntriesOf[o] PROVE Claims(e, o)' \subseteq Claims(e, o)
  <2>1. e \in found => o = row.owner BY <1>1, <1>5, OneOwner
  <2>2. e \in found => j \in Claims(e, o) BY <1>16, <2>1 DEF Claims
  <2>3. ASSUME NEW k \in Claims(e, o)' PROVE k \in Claims(e, o)
    <3>1. k \in DOMAIN queued /\ (e \in queued'[k].posts \/ Lists(queued'[k], o))
      BY <1>10 DEF Claims, Lists
    <3>2. CASE k = j BY <1>6, <1>9, <1>17, <2>2, <3>1, <3>2
    <3>3. CASE k # j BY <1>9, <3>1, <3>3 DEF Claims
    <3> QED BY <3>2, <3>3
  <2> QED BY <2>3
<1>19. OnceInv' BY <1>3, <1>18 DEF AllInv, OnceInv
<1>20. \A e : OnItsWay(e) => OnItsWay(e)' BY <1>3, <1>4, <1>9, <1>10 DEF OnItsWay
<1>21. ASSUME NEW o \in Owners, Begun(o)', NEW e \in EntriesOf[o]
       PROVE  \/ OnItsWay(e)'
              \/ reboots > 0 /\ (o \in unlisted' \/ \E k \in DOMAIN queued : Lists(queued'[k], o))
  <2>1. CASE o = row.owner /\ found # {}
    <3>1. e \in queued'[j].posts BY <1>2, <1>6, <1>9, <2>1
    <3> QED BY <1>10, <3>1 DEF OnItsWay
  <2>2. CASE o # row.owner \/ found = {}
    <3>1. Begun(o)
      <4>1. CASE Recorded(o) BY <4>1 DEF Begun
      <4>2. CASE ~Recorded(o)
        <5>1. PICK k \in DOMAIN queued : queued'[k].owner = o /\ queued'[k].posts # {}
          BY <1>3, <1>10, <1>21, <4>2 DEF Begun, Recorded, JobsOf
        <5>2. k # j BY <1>6, <1>9, <2>2, <5>1
        <5> QED BY <1>9, <5>1, <5>2 DEF Begun, JobsOf
      <4> QED BY <4>1, <4>2
    <3>2. \/ OnItsWay(e)
          \/ reboots > 0 /\ (o \in unlisted \/ \E k \in DOMAIN queued : Lists(queued[k], o))
      BY <3>1 DEF AllInv, CompleteInv
    <3>3. CASE OnItsWay(e) BY <1>20, <3>3
    <3>4. CASE reboots > 0 /\ o \in unlisted BY <1>11, <3>4
    <3>5. ASSUME reboots > 0, NEW k \in DOMAIN queued, Lists(queued[k], o)
          PROVE  o \in unlisted' \/ Lists(queued'[k], o)
      <4>1. CASE k # j BY <1>9, <3>5, <4>1
      <4>2. CASE k = j
        <5>1. o = row.owner BY <3>5, <4>2 DEF Lists
        <5> QED BY <1>2, <2>2, <5>1
      <4> QED BY <4>1, <4>2
    <3> QED BY <3>2, <3>3, <3>4, <3>5
  <2> QED BY <2>1, <2>2
<1>22. CompleteInv' BY <1>3, <1>10, <1>21 DEF CompleteInv, Lists
<1> QED BY <1>15, <1>19, <1>22 DEF AllInv

\* A post goes from the list to a job of its own.
LEMMA QueuePostKeeps ==
    ASSUME AllInv, NEW j \in DOMAIN queued, QueuePost(j)
    PROVE  AllInv'
<1> DEFINE row == queued[j]
<1>1. /\ row \in JobRow /\ JobFits(row, unlisted, metadataRows) /\ row.owner \in Owners
      /\ row.posts \subseteq EntriesOf[row.owner] /\ row.posts \subseteq Entries /\ j \in 1..MaxJobs
  BY QueuedFits
<1>2. /\ row.pc = "add"
      /\ UNCHANGED <<migration, signed, metadataRows, orderRows, reboots, lost, unlisted, crossedOwners>>
  BY DEF QueuePost
<1>3. \A o \in Owners : ~Lists(row, o) BY <1>2 DEF Lists
<1>4. CASE AllQueued(row)
  <2>1. queued' = Over(j) /\ lost' = lost \union row.posts BY <1>2, <1>4 DEF QueuePost, AllQueued
  <2> QED BY <1>2, <1>3, <2>1, JobEnds
<1>5. CASE ~AllQueued(row)
  <2>1. PICK e \in row.posts, k \in 1..MaxJobs :
          /\ FreeJob(k)
          /\ queued' = [PutJob(k, NewJob("migrateUnrecordedPost", row.owner, {e}, row.published \intersect {e}))
                          EXCEPT ![j].posts = @ \ {e}]
    BY <1>5 DEF QueuePost
  <2> DEFINE new == NewJob("migrateUnrecordedPost", row.owner, {e}, row.published \intersect {e})
             rest == [row EXCEPT !.posts = @ \ {e}]
  <2>2. k \notin DOMAIN queued /\ k # j BY <2>1 DEF FreeJob
  <2>3. /\ DOMAIN queued' = DOMAIN queued \union {k}
        /\ queued'[k] = new /\ queued'[j] = rest
        /\ \A l \in DOMAIN queued : l # j => queued'[l] = queued[l]
    <3> DEFINE put == PutJob(k, new)
    <3>1. /\ DOMAIN put = DOMAIN queued \union {k}
          /\ put[k] = new /\ \A l \in DOMAIN queued : put[l] = queued[l]
      BY <2>2 DEF PutJob
    <3>2. queued' = [put EXCEPT ![j].posts = @ \ {e}] BY <2>1
    <3> HIDE DEF put, new
    <3> QED BY <2>2, <3>1, <3>2
  <2>4. /\ new \in JobRow /\ new.pc = "waiting" /\ new.owner = row.owner /\ new.posts = {e}
        /\ new.name = "migrateUnrecordedPost" /\ new.published = row.published \intersect {e}
    BY <1>1, NewJobTyped DEF NewJob, JobRow
  <2>5. /\ rest \in JobRow /\ rest.pc = "add" /\ rest.owner = row.owner /\ rest.posts = row.posts \ {e}
        /\ rest.name = row.name /\ rest.published = row.published
    BY <1>1, <1>2 DEF JobRow
  <2> HIDE DEF new, rest
  <2>6. row.name = "findUnrecordedPosts" BY <1>1, <1>2 DEF JobFits, JobRow
  <2>7. \A f \in row.posts : PageFits(f, f \in row.published, row.owner, unlisted)
    BY <1>1, <1>2, <2>6 DEF JobFits
  <2>8. JobFits(rest, unlisted, metadataRows) BY <1>1, <2>5, <2>6, <2>7 DEF JobFits
  <2>9. JobFits(new, unlisted, metadataRows)
    <3>1. PageFits(e, new.published # {}, row.owner, unlisted) BY <2>4, <2>7 DEF PageFits
    <3> QED BY <1>1, <2>4, <3>1 DEF JobFits
  <2>10. MigrationTypeOK'
    BY <1>2, <2>1, <2>3, <2>4, <2>5 DEF AllInv, MigrationInv, MigrationTypeOK
  <2>11. \A l \in DOMAIN queued' : JobFits(queued'[l], unlisted, metadataRows)
    BY <2>3, <2>8, <2>9 DEF AllInv, MigrationInv
  <2>12. MigrationInv' BY <1>2, <2>10, <2>11 DEF AllInv, MigrationInv
  <2>13. \A o \in Owners : ~Lists(new, o) /\ ~Lists(rest, o) BY <2>4, <2>5 DEF Lists
  <2>14. ASSUME NEW o \in Owners, NEW f, f # e PROVE Claims(f, o)' = Claims(f, o)
    <3>1. \A l \in DOMAIN queued' :
            f \in queued'[l].posts \/ Lists(queued'[l], o) <=>
               l \in DOMAIN queued /\ (f \in queued[l].posts \/ Lists(queued[l], o))
      BY <1>3, <2>2, <2>3, <2>4, <2>5, <2>13, <2>14
    <3>2. Claims(f, o)' = {l \in DOMAIN queued' : f \in queued'[l].posts \/ Lists(queued'[l], o)}
      BY DEF Claims, Lists
    <3> QED BY <2>3, <3>1, <3>2 DEF Claims
  <2>15. ASSUME reboots = 0, NEW o \in Owners \ crossedOwners, NEW f \in EntriesOf[o]
         PROVE  /\ \A l, n \in Claims(f, o)' : l = n
                /\ (\E r \in orderRows : r.post = f) => Claims(f, o)' = {}
                /\ \A r, other \in orderRows : r.post = f /\ other.post = f => r = other
    <3>1. /\ \A l, n \in Claims(f, o) : l = n
          /\ (\E r \in orderRows : r.post = f) => Claims(f, o) = {}
          /\ \A r, other \in orderRows : r.post = f /\ other.post = f => r = other
      BY <2>15 DEF AllInv, OnceInv
    <3>2. CASE f # e BY <2>14, <3>1, <3>2
    <3>3. CASE f = e
      <4>1. j \in Claims(e, o) BY DEF Claims
      <4>2. ASSUME NEW l \in Claims(e, o)' PROVE l = k
        <5>1. l \in DOMAIN queued' /\ (e \in queued'[l].posts \/ Lists(queued'[l], o))
          BY DEF Claims, Lists
        <5>2. CASE l = j BY <2>3, <2>5, <2>13, <5>1, <5>2
        <5>3. CASE l # j /\ l # k
          <6>1. l \in Claims(e, o) BY <2>3, <5>1, <5>3 DEF Claims
          <6> QED BY <3>1, <3>3, <4>1, <5>3, <6>1
        <5> QED BY <5>2, <5>3
      <4> QED BY <3>1, <3>3, <4>1, <4>2
    <3> QED BY <3>2, <3>3
  <2>16. OnceInv' BY <1>2, <2>15 DEF OnceInv
  <2>17. ASSUME NEW f, OnItsWay(f) PROVE OnItsWay(f)'
    <3>1. CASE \E l \in DOMAIN queued : f \in queued[l].posts
      <4>1. PICK l \in DOMAIN queued : f \in queued[l].posts BY <3>1
      <4>2. CASE l # j BY <2>3, <4>1, <4>2 DEF OnItsWay
      <4>3. CASE l = j /\ f = e
        <5>1. k \in DOMAIN queued' /\ f \in queued'[k].posts BY <2>3, <2>4, <4>3
        <5> QED BY <5>1 DEF OnItsWay
      <4>4. CASE l = j /\ f # e
        <5>1. j \in DOMAIN queued' /\ f \in queued'[j].posts BY <2>3, <2>5, <4>1, <4>4
        <5> QED BY <5>1 DEF OnItsWay
      <4> QED BY <4>2, <4>3, <4>4
    <3>2. CASE ~\E l \in DOMAIN queued : f \in queued[l].posts BY <1>2, <2>17, <3>2 DEF OnItsWay
    <3> QED BY <3>1, <3>2
  <2>18. ASSUME NEW o \in Owners, Begun(o)' PROVE Begun(o)
    <3>1. CASE Recorded(o) BY <3>1 DEF Begun
    <3>2. CASE ~Recorded(o)
      <4>1. PICK l \in DOMAIN queued' : queued'[l].owner = o /\ queued'[l].posts # {}
        BY <1>2, <2>18, <3>2 DEF Begun, Recorded, JobsOf
      <4>2. CASE l = k \/ l = j
        <5>1. row.owner = o BY <2>3, <2>4, <2>5, <4>1, <4>2
        <5> QED BY <5>1 DEF Begun, JobsOf
      <4>3. CASE l # k /\ l # j BY <2>3, <4>1, <4>3 DEF Begun, JobsOf
      <4> QED BY <4>2, <4>3
    <3> QED BY <3>1, <3>2
  <2>19. \A o \in Owners : \A l \in DOMAIN queued :
           Lists(queued[l], o) => l \in DOMAIN queued' /\ Lists(queued'[l], o)
    BY <1>3, <2>3
  <2>20. CompleteInv' BY <1>2, <2>17, <2>18, <2>19 DEF AllInv, CompleteInv, Lists
  <2> QED BY <2>12, <2>16, <2>20 DEF AllInv
<1> QED BY <1>4, <1>5

\* The order of a post is saved, over one of the same signature, and its job is over.
LEMMA SaveOrderKeeps ==
    ASSUME AllInv, NEW j \in DOMAIN queued, SaveOrder(j)
    PROVE  AllInv'
<1> DEFINE row == queued[j]
           e == ThePost(j)
           state == IF row.published = {} THEN "none" ELSE "finished"
           order == [post |-> e, serial |-> row.serial, publishState |-> state]
           kept == {r \in orderRows : r.post # e \/ r.serial # row.serial}
<1>1. row \in JobRow /\ row.owner \in Owners /\ row.posts \subseteq EntriesOf[row.owner] BY QueuedFits
<1>2. /\ row.pc = "order" /\ orderRows' = kept \union {order} /\ queued' = Over(j)
      /\ UNCHANGED <<migration, signed, metadataRows, reboots, lost, unlisted, crossedOwners>>
  BY DEF SaveOrder
<1>3. /\ row.name = "migrateUnrecordedPost" /\ e \in Entries /\ row.posts = {e}
      /\ PageFits(e, row.published # {}, row.owner, unlisted)
      /\ e \in Certified => row.serial = 0
      /\ [post |-> e, serial |-> row.serial] \in metadataRows
  BY <1>2, OnePost
<1>4. e \in EntriesOf[row.owner] BY <1>1, <1>3
<1>5. /\ DOMAIN queued' = DOMAIN queued \ {j}
      /\ \A k \in DOMAIN queued' : queued'[k] = queued[k]
  BY <1>2, OverProperties
<1>6. row.serial \in Nat BY <1>1 DEF JobRow
<1> HIDE DEF e
<1>7. /\ order.post = e /\ order.serial = row.serial /\ order.publishState = state
      /\ order \in [post: Entries, serial: Nat, publishState: {"finished", "none"}]
      /\ state \in {"finished", "none"} /\ (state = "none" <=> row.published = {})
  BY <1>3, <1>6
<1> HIDE DEF order, state
<1>8. OrderFits(order, unlisted, metadataRows)
  BY <1>1, <1>3, <1>4, <1>7 DEF OrderFits, PageFits
<1>9. MigrationTypeOK' BY <1>2, <1>5, <1>7 DEF AllInv, MigrationInv, MigrationTypeOK
<1>10. \A k \in DOMAIN queued' : JobFits(queued'[k], unlisted, metadataRows)
  BY <1>5 DEF AllInv, MigrationInv
<1>11. \A r \in orderRows' : OrderFits(r, unlisted, metadataRows)
  BY <1>2, <1>8 DEF AllInv, MigrationInv
<1>12. \A r, other \in orderRows' : r.post = other.post /\ r.serial = other.serial => r = other
  BY <1>2, <1>7 DEF AllInv, MigrationInv
<1>13. MigrationInv' BY <1>2, <1>9, <1>10, <1>11, <1>12 DEF MigrationInv
<1>14. \A f : \A o \in Owners : Claims(f, o)' \subseteq Claims(f, o) /\ j \notin Claims(f, o)'
  BY <1>5 DEF Claims, Lists
<1>15. ASSUME reboots = 0, NEW o \in Owners \ crossedOwners, NEW f \in EntriesOf[o]
       PROVE  /\ \A k, l \in Claims(f, o)' : k = l
              /\ (\E r \in orderRows' : r.post = f) => Claims(f, o)' = {}
              /\ \A r, other \in orderRows' : r.post = f /\ other.post = f => r = other
  <2>1. /\ \A k, l \in Claims(f, o) : k = l
        /\ (\E r \in orderRows : r.post = f) => Claims(f, o) = {}
        /\ \A r, other \in orderRows : r.post = f /\ other.post = f => r = other
    BY <1>15 DEF AllInv, OnceInv
  <2>2. CASE f # e
    <3>1. \A r \in orderRows' : r.post = f => r \in orderRows BY <1>2, <1>7, <2>2
    <3> QED BY <1>14, <2>1, <3>1
  <2>3. CASE f = e
    <3>1. j \in Claims(f, o) BY <1>3, <2>3 DEF Claims
    <3>2. Claims(f, o)' = {} BY <1>14, <2>1, <3>1
    <3>3. \A r \in orderRows : r.post # e BY <2>1, <2>3, <3>1
    <3>4. \A r \in orderRows' : r.post = e => r = order BY <1>2, <3>3
    <3> QED BY <2>3, <3>2, <3>4
  <2> QED BY <2>2, <2>3
<1>16. OnceInv' BY <1>2, <1>15 DEF OnceInv
<1>17. ASSUME NEW f, OnItsWay(f) PROVE OnItsWay(f)'
  <2>1. CASE f = e BY <1>2, <1>7, <2>1 DEF OnItsWay
  <2>2. CASE f # e
    <3>1. CASE \E r \in orderRows : r.post = f BY <1>2, <2>2, <3>1 DEF OnItsWay
    <3>2. ASSUME NEW k \in DOMAIN queued, f \in queued[k].posts PROVE OnItsWay(f)'
      <4>1. k # j BY <1>3, <2>2, <3>2
      <4> QED BY <1>5, <3>2, <4>1 DEF OnItsWay
    <3>3. CASE f \in lost BY <1>2, <3>3 DEF OnItsWay
    <3> QED BY <1>17, <3>1, <3>2, <3>3 DEF OnItsWay
  <2> QED BY <2>1, <2>2
<1>18. ASSUME NEW o \in Owners, Begun(o)' PROVE Begun(o)
  <2>1. CASE \E k \in DOMAIN queued' : queued'[k].owner = o /\ queued'[k].posts # {}
    BY <1>5, <2>1 DEF Begun, JobsOf
  <2>2. CASE \E r \in orderRows' : r.post \in EntriesOf[o]
    <3>1. PICK r \in orderRows' : r.post \in EntriesOf[o] BY <2>2
    <3>2. CASE r \in orderRows BY <3>1, <3>2 DEF Begun, Recorded
    <3>3. CASE r = order
      <4>1. o = row.owner BY <1>1, <1>4, <1>7, <3>1, <3>3, OneOwner
      <4> QED BY <1>3, <4>1 DEF Begun, JobsOf
    <3> QED BY <1>2, <3>1, <3>2, <3>3
  <2> QED BY <1>18, <2>1, <2>2 DEF Begun, Recorded, JobsOf
<1>19. ASSUME NEW o \in Owners, NEW k \in DOMAIN queued, Lists(queued[k], o)
       PROVE  k \in DOMAIN queued' /\ Lists(queued'[k], o)
  <2>1. k # j BY <1>2, <1>19 DEF Lists
  <2> QED BY <1>5, <1>19, <2>1
<1>20. CompleteInv' BY <1>2, <1>17, <1>18, <1>19 DEF AllInv, CompleteInv, Lists
<1> QED BY <1>13, <1>16, <1>20 DEF AllInv

\* After a restart a job starts again, with the post it has been queued for; or it has
\* failed, with all it was to migrate.
LEMMA RestartKeeps ==
    ASSUME AllInv, MigrationRestart
    PROVE  AllInv'
<1> DEFINE fails == {j \in DOMAIN queued : Interrupted(queued[j]) /\ queued[j].stalled}
           Posts(row) == IF row.name = "migrateUnrecordedPost" THEN row.posts ELSE {}
           Published(row) == IF row.name = "migrateUnrecordedPost" THEN row.published ELSE {}
           Again(row) == [NewJob(row.name, row.owner, Posts(row), Published(row)) EXCEPT !.stalled = TRUE]
           Lost(row) == IF row.name = "migrateUnrecordedPost" THEN row.posts ELSE EntriesOf[row.owner]
<1>1. /\ reboots' = reboots + 1
      /\ UNCHANGED <<signed, metadataRows, orderRows, unlisted, crossedOwners>>
      /\ lost' = lost \union UNION {Lost(queued[j]) : j \in fails}
      /\ migration' = [m \in Administrators |->
                         IF migration[m].pc = "queue" THEN [pc |-> "done", left |-> {}] ELSE migration[m]]
      /\ queued' = [j \in DOMAIN queued \ fails |->
                      IF ~Interrupted(queued[j]) THEN queued[j] ELSE Again(queued[j])]
  BY DEF MigrationRestart
<1>2. /\ DOMAIN queued' = DOMAIN queued \ fails
      /\ \A j \in DOMAIN queued \ fails :
            queued'[j] = IF ~Interrupted(queued[j]) THEN queued[j] ELSE Again(queued[j])
  BY <1>1
<1>3. \A j \in DOMAIN queued :
        /\ queued[j] \in JobRow /\ JobFits(queued[j], unlisted, metadataRows)
        /\ queued[j].owner \in Owners /\ queued[j].posts \subseteq EntriesOf[queued[j].owner]
        /\ EntriesOf[queued[j].owner] \subseteq Entries
  BY QueuedFits, OneOwner
<1>4. ASSUME NEW row \in JobRow, JobFits(row, unlisted, metadataRows)
      PROVE  /\ Again(row) \in JobRow /\ JobFits(Again(row), unlisted, metadataRows)
             /\ Again(row).owner = row.owner /\ Again(row).posts = Posts(row)
             /\ Again(row).name = row.name /\ Again(row).pc = "waiting"
  <2>1. row.name \in {"findUnrecordedPosts", "migrateUnrecordedPost"} /\ row.owner \in Owners
        /\ Posts(row) \in SUBSET Entries /\ Published(row) \in SUBSET Entries
    BY <1>4 DEF JobRow
  <2> DEFINE posts == Posts(row)
             published == Published(row)
  <2> HIDE DEF posts, published
  <2>2. posts \in SUBSET Entries /\ published \in SUBSET Entries BY <2>1 DEF posts, published
  <2> DEFINE again == [NewJob(row.name, row.owner, posts, published) EXCEPT !.stalled = TRUE]
  <2>3. again \in JobRow BY <2>1, <2>2, NewJobTyped
  <2>4. /\ again.owner = row.owner /\ again.posts = posts /\ again.published = published
        /\ again.name = row.name /\ again.pc = "waiting"
    BY DEF NewJob
  <2> HIDE DEF again
  <2>5. JobFits(again, unlisted, metadataRows)
    <3>1. CASE row.name = "findUnrecordedPosts"
      <4>1. posts = {} BY <3>1 DEF posts
      <4> QED BY <2>4, <3>1, <4>1 DEF JobFits
    <3>2. CASE row.name = "migrateUnrecordedPost"
      <4>1. posts = row.posts /\ published = row.published BY <3>2 DEF posts, published
      <4> QED BY <1>4, <2>4, <3>2, <4>1 DEF JobFits
    <3> QED BY <2>1, <3>1, <3>2
  <2> QED BY <2>3, <2>4, <2>5 DEF again, posts, published
<1> HIDE DEF Again
<1>5. ASSUME NEW j \in DOMAIN queued'
      PROVE  /\ j \in DOMAIN queued
             /\ queued'[j] \in JobRow /\ JobFits(queued'[j], unlisted, metadataRows)
             /\ queued'[j].owner = queued[j].owner /\ queued'[j].posts \subseteq queued[j].posts
  <2>1. j \in DOMAIN queued /\ (queued'[j] = queued[j] \/ queued'[j] = Again(queued[j]))
    BY <1>2
  <2>2. queued[j] \in JobRow /\ JobFits(queued[j], unlisted, metadataRows) BY <1>3, <2>1
  <2>3. CASE queued'[j] = queued[j] BY <2>1, <2>2, <2>3
  <2>4. CASE queued'[j] = Again(queued[j])
    <3>1. Again(queued[j]).posts \subseteq queued[j].posts BY <1>4, <2>2
    <3> QED BY <1>4, <2>1, <2>2, <2>4, <3>1
  <2> QED BY <2>1, <2>3, <2>4
<1>6. MigrationTypeOK'
  <2>1. migration' \in [Administrators -> [pc: {"idle", "queue", "done"}, left: SUBSET Owners]]
    BY <1>1 DEF AllInv, MigrationInv, MigrationTypeOK
  <2>2. \A j \in fails : Lost(queued[j]) \subseteq Entries BY <1>3
  <2>3. lost' \subseteq Entries BY <1>1, <2>2 DEF AllInv, MigrationInv, MigrationTypeOK
  <2>4. reboots' \in Nat BY <1>1 DEF AllInv, MigrationInv, MigrationTypeOK
  <2> QED BY <1>1, <1>5, <2>1, <2>3, <2>4 DEF AllInv, MigrationInv, MigrationTypeOK
<1>7. MigrationInv' BY <1>1, <1>5, <1>6 DEF AllInv, MigrationInv
<1>8. reboots \in Nat /\ reboots' > 0 /\ reboots' # 0
  BY <1>1 DEF AllInv, MigrationInv, MigrationTypeOK
<1>9. OnceInv' BY <1>8 DEF OnceInv
<1>10. \A o \in Owners : Begun(o)' => Begun(o) BY <1>1, <1>5 DEF Begun, Recorded, JobsOf
<1>11. ASSUME NEW o \in Owners, NEW e \in EntriesOf[o],
              NEW j \in DOMAIN queued, e \in queued[j].posts \/ Lists(queued[j], o)
       PROVE  OnItsWay(e)' \/ \E k \in DOMAIN queued' : Lists(queued'[k], o)
  <2>1. queued[j].owner = o BY <1>3, <1>11, OneOwner DEF Lists
  <2>2. queued[j].name \in {"findUnrecordedPosts", "migrateUnrecordedPost"} BY <1>3 DEF JobRow
  <2>3. Lists(queued[j], o) => queued[j].name = "findUnrecordedPosts" BY DEF Lists
  <2>4. CASE j \in fails
    <3>1. e \in Lost(queued[j]) BY <1>3, <1>11, <2>1, <2>2, <2>3
    <3>2. e \in lost' BY <1>1, <2>4, <3>1
    <3> QED BY <3>2 DEF OnItsWay
  <2>5. CASE j \notin fails
    <3>1. j \in DOMAIN queued' BY <1>2, <2>5
    <3>2. CASE ~Interrupted(queued[j])
      <4>1. queued'[j] = queued[j] BY <1>2, <2>5, <3>2
      <4> QED BY <1>11, <3>1, <4>1 DEF OnItsWay
    <3>3. CASE Interrupted(queued[j])
      <4>1. queued'[j] = Again(queued[j]) BY <1>2, <2>5, <3>3
      <4>2. /\ queued'[j].owner = o /\ queued'[j].posts = Posts(queued[j])
            /\ queued'[j].name = queued[j].name /\ queued'[j].pc = "waiting"
        BY <1>3, <1>4, <2>1, <4>1
      <4>3. CASE queued[j].name = "findUnrecordedPosts"
        <5>1. Lists(queued'[j], o) BY <4>2, <4>3 DEF Lists
        <5> QED BY <3>1, <5>1
      <4>4. CASE queued[j].name = "migrateUnrecordedPost"
        <5>1. e \in queued'[j].posts BY <1>11, <2>3, <4>2, <4>4
        <5> QED BY <3>1, <5>1 DEF OnItsWay
      <4> QED BY <2>2, <4>3, <4>4
    <3> QED BY <3>2, <3>3
  <2> QED BY <2>4, <2>5
<1>12. ASSUME NEW o \in Owners, Begun(o)', NEW e \in EntriesOf[o]
       PROVE  \/ OnItsWay(e)'
              \/ o \in unlisted \/ \E k \in DOMAIN queued' : Lists(queued'[k], o)
  <2>1. \/ OnItsWay(e)
        \/ o \in unlisted \/ \E k \in DOMAIN queued : Lists(queued[k], o)
    BY <1>10, <1>12 DEF AllInv, CompleteInv
  <2>2. CASE \E r \in orderRows : r.post = e BY <1>1, <2>2 DEF OnItsWay
  <2>3. CASE e \in lost BY <1>1, <2>3 DEF OnItsWay
  <2>4. CASE \E k \in DOMAIN queued : e \in queued[k].posts \/ Lists(queued[k], o)
    BY <1>11, <2>4
  <2> QED BY <2>1, <2>2, <2>3, <2>4 DEF OnItsWay
<1>13. CompleteInv' BY <1>1, <1>8, <1>12 DEF CompleteInv, Lists
<1> QED BY <1>7, <1>9, <1>13 DEF AllInv

LEMMA MigrationStep == AllInv /\ [MigrationNext]_migrationVars => AllInv'
<1> SUFFICES ASSUME AllInv, [MigrationNext]_migrationVars PROVE AllInv'
  OBVIOUS
<1>1. CASE UNCHANGED migrationVars
  <2>1. UNCHANGED <<migration, queued, signed, metadataRows, orderRows, reboots, lost, unlisted, crossedOwners>>
    BY <1>1 DEF migrationVars
  <2>2. MigrationInv' BY <2>1 DEF AllInv, MigrationInv, MigrationTypeOK
  <2>3. OnceInv' BY <2>1 DEF AllInv, OnceInv, Claims, Lists
  <2>4. CompleteInv' BY <2>1 DEF AllInv, CompleteInv, Begun, Recorded, JobsOf, OnItsWay, Lists
  <2> QED BY <2>2, <2>3, <2>4 DEF AllInv
<1>2. ASSUME NEW m \in Administrators, FindUnrecordedUsers(m) \/ \E o \in Owners : QueueUser(m, o)
      PROVE  AllInv'
  BY <1>2, RequestMigrates, QueueUserKeeps
<1>3. ASSUME NEW j \in DOMAIN queued, QueuedStep(j) PROVE AllInv'
  BY <1>3, StartKeeps, ListPostedKeeps, ListPublishedKeeps, QueuePostKeeps, ConvertKeeps, FailKeeps,
    SaveMetadataKeeps, SaveOrderKeeps DEF QueuedStep
<1>4. CASE MigrationRestart BY <1>4, RestartKeeps
<1> QED BY <1>1, <1>2, <1>3, <1>4 DEF MigrationNext

LEMMA MigrationStart == MigrationInit => AllInv
<1> SUFFICES ASSUME MigrationInit PROVE AllInv
  OBVIOUS
<1>1. DOMAIN queued = {} /\ orderRows = {} BY DEF MigrationInit
<1>2. MigrationTypeOK BY <1>1 DEF MigrationInit, MigrationTypeOK
<1>3. MigrationInv BY <1>1, <1>2 DEF MigrationInv
<1>4. OnceInv BY <1>1 DEF OnceInv, Claims
<1>5. CompleteInv BY <1>1 DEF CompleteInv, Begun, Recorded, JobsOf
<1> QED BY <1>3, <1>4, <1>5 DEF AllInv

\* Types of the requests, the jobs and the rows.
THEOREM MigrationTypeCorrect == MigrationSpec => []MigrationTypeOK
<1>1. AllInv => MigrationTypeOK BY DEF AllInv, MigrationInv
<1> QED BY <1>1, MigrationStart, MigrationStep, PTL DEF MigrationSpec

\* The order of a post says of the site what its pages say, for any number of users,
\* posts, pages, requests and restarts.
THEOREM MatchesSite == MigrationSpec => []OrderMatchesSite
<1>1. AllInv => OrderMatchesSite BY DEF AllInv, MigrationInv, OrderFits, OrderMatchesSite
<1> QED BY <1>1, MigrationStart, MigrationStep, PTL DEF MigrationSpec

\* A post has one order, unless it is signed anew.
THEOREM OneOrder == MigrationSpec => []OrderedOnce
<1>1. AllInv => OrderedOnce
  <2> SUFFICES ASSUME AllInv, NEW row \in orderRows, NEW other \in orderRows,
                      row.post = other.post, row # other
               PROVE  /\ row.post \notin Certified
                      /\ reboots > 0 \/ \E o \in crossedOwners : row.post \in EntriesOf[o]
    BY DEF OrderedOnce
  <2>1. row.post \notin Certified
    BY DEF AllInv, MigrationInv, OrderFits
  <2>2. ASSUME ~(reboots > 0) PROVE \E o \in crossedOwners : row.post \in EntriesOf[o]
    <3>1. reboots = 0 BY <2>2 DEF AllInv, MigrationInv, MigrationTypeOK
    <3>2. row.post \in Entries BY DEF AllInv, MigrationInv, MigrationTypeOK
    <3>3. PICK o \in Owners : row.post \in EntriesOf[o] BY <3>2 DEF Entries
    <3> QED BY <3>1, <3>3 DEF AllInv, OnceInv
  <2> QED BY <2>1, <2>2
<1> QED BY <1>1, MigrationStart, MigrationStep, PTL DEF MigrationSpec

\* No post of a user who will not be queued again is forgotten.
THEOREM NoneForgotten == MigrationSpec => []RecordedIsComplete
<1>1. AllInv => RecordedIsComplete
  <2> SUFFICES ASSUME AllInv, NEW o \in Owners, Recorded(o), NEW e \in EntriesOf[o]
               PROVE  \/ \E row \in orderRows : row.post = e
                      \/ \E j \in JobsOf(o) : e \in queued[j].posts \/ queued[j].pc = "posted"
                            \/ (queued[j].name = "findUnrecordedPosts" /\ queued[j].pc = "waiting")
                      \/ e \in lost
                      \/ reboots > 0 /\ o \in unlisted
    BY DEF RecordedIsComplete
  <2>1. \/ OnItsWay(e)
        \/ reboots > 0 /\ (o \in unlisted \/ \E j \in DOMAIN queued : Lists(queued[j], o))
    BY DEF AllInv, CompleteInv, Begun
  <2>2. ASSUME NEW j \in DOMAIN queued, e \in queued[j].posts PROVE j \in JobsOf(o)
    BY <2>2, QueuedFits, OneOwner DEF JobsOf
  <2>3. ASSUME NEW j \in DOMAIN queued, Lists(queued[j], o)
        PROVE  /\ j \in JobsOf(o)
               /\ queued[j].pc = "posted" \/ (queued[j].name = "findUnrecordedPosts" /\ queued[j].pc = "waiting")
    BY <2>3 DEF Lists, JobsOf
  <2> QED BY <2>1, <2>2, <2>3 DEF OnItsWay
<1> QED BY <1>1, MigrationStart, MigrationStep, PTL DEF MigrationSpec
=============================================================================
