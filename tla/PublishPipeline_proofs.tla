----------------------- MODULE PublishPipeline_proofs -----------------------
(***************************************************************************)
(* Type correctness of the pipeline, for every value of the constants.     *)
(***************************************************************************)
EXTENDS PublishPipeline, WellFoundedInduction, TLAPS

\* A non-empty set of naturals has a least element, so that the queries' oldest
\* and newest rows exist.
LEMMA NatSetHasLeast ==
    ASSUME NEW T \in SUBSET Nat, T # {}
    PROVE  \E n \in T : \A m \in T : n <= m
<1>1. PICK n \in T : \A m \in T : <<m, n>> \notin OpToRel(<, Nat)
  BY WFMin, NatLessThanWellFounded
<1>2. \A m \in T : ~(m < n)
  BY <1>1 DEF OpToRel
<1>3. QED
  BY <1>2

\* The oldest row of a non-empty query is one of its rows, and
LEMMA OldestIsRow ==
    ASSUME NEW S, S # {}, NEW createdAt, \A x \in S : createdAt[x] \in Nat
    PROVE  Oldest(S, createdAt) \in S
<1> DEFINE T == {createdAt[x] : x \in S}
<1>a. T \in SUBSET Nat /\ T # {}
  OBVIOUS
<1>1. PICK n \in T : \A m \in T : n <= m
  BY <1>a, NatSetHasLeast
<1>2. \E x \in S : \A y \in S : createdAt[x] <= createdAt[y]
  BY <1>1
<1>3. QED
  BY <1>2 DEF Oldest

\* so is the newest.
LEMMA NewestIsRow ==
    ASSUME NEW N \in Nat, NEW S \in SUBSET (1..N), S # {}
    PROVE  Newest(S) \in S
<1> DEFINE T == {N - x : x \in S}
<1>1. \A x \in S : x \in Int /\ N - x \in Nat
  OBVIOUS
<1>2. T \in SUBSET Nat
  BY <1>1
<1>3. T # {}
  OBVIOUS
<1> HIDE DEF T
<1>4. PICK n \in T : \A m \in T : n <= m
  BY <1>2, <1>3, NatSetHasLeast
<1>5. PICK x \in S : n = N - x
  BY DEF T
<1>6. \A y \in S : N - y \in T
  BY DEF T
<1>7. \A y \in S : y <= x
  BY <1>1, <1>4, <1>5, <1>6
<1>8. QED
  BY <1>7 DEF Newest

\* The tuples of the UNCHANGED clauses.
USE DEF linkRest, ordersRest, jobsRest, dispRest, certRest, postRows, certRows, postTaskRows, orderRows, git, counters

-----------------------------------------------------------------------------
(* What the handlers in flight remember. *)

\* What a handler starts with is such a record.
LEMMA Runs ==
    /\ Idle \in DispatcherRun /\ NoLink \in LinkRun /\ LinkStart \in LinkRun
    /\ NoGen \in GenRun /\ GenStart \in GenRun /\ NoRetry \in RetryRun /\ NoCert \in CertRun
BY DEF Idle, NoCert, CertRun, CertPc, CertificateState, CertificateIds, NoLink, NoGen, NoRetry, LinkStart, GenStart, NoId, NoRow,
       DispatcherRun, LinkRun, GenRun, RetryRun, PostRow, RowState,
       DispatcherPc, LinkPc, GenPc, RetryPc

\* A dispatcher's record is one again when some of its fields change,
LEMMA DispatcherRuns ==
    ASSUME NEW run \in DispatcherRun, NEW step \in DispatcherPc
    PROVE  /\ [run EXCEPT !.pc = step] \in DispatcherRun
           /\ \A o \in OrderIds \union {NoId} : [run EXCEPT !.pc = step, !.order = o] \in DispatcherRun
           /\ \A t \in PublishTaskIds : [run EXCEPT !.pc = step, !.publishTask = t] \in DispatcherRun
BY DEF DispatcherRun

\* and so is a link handler's.
LEMMA LinkRuns ==
    ASSUME NEW run \in LinkRun, NEW step \in LinkPc
    PROVE  /\ [run EXCEPT !.pc = step] \in LinkRun
           /\ \A t \in PublishTaskIds : [run EXCEPT !.pc = step, !.task = t] \in LinkRun
BY DEF LinkRun

\* A dispatcher goes on to another statement, ...
LEMMA DispatcherStep ==
    ASSUME TypeOK, NEW d \in Dispatchers, NEW step \in DispatcherPc
    PROVE  /\ [disp EXCEPT ![d] = Idle] \in [Dispatchers -> DispatcherRun]
           /\ [disp EXCEPT ![d].pc = step] \in [Dispatchers -> DispatcherRun]
<1>1. \A run \in DispatcherRun : [run EXCEPT !.pc = step] \in DispatcherRun
  BY DEF DispatcherRun
<1>2. QED
  BY <1>1, Runs DEF TypeOK

\* ... and remembers an order,
LEMMA DispatcherOrder ==
    ASSUME TypeOK, NEW d \in Dispatchers, NEW step \in DispatcherPc, NEW o \in OrderIds \union {NoId}
    PROVE  /\ [disp EXCEPT ![d] = [Idle EXCEPT !.pc = step, !.order = o]] \in [Dispatchers -> DispatcherRun]
           /\ [disp EXCEPT ![d].pc = step, ![d].order = o] \in [Dispatchers -> DispatcherRun]
<1>1. \A run \in DispatcherRun : [run EXCEPT !.pc = step, !.order = o] \in DispatcherRun
  BY DEF DispatcherRun
<1>2. QED
  BY <1>1, Runs DEF TypeOK

\* a post task
LEMMA DispatcherPostTask ==
    ASSUME TypeOK, NEW d \in Dispatchers, NEW step \in DispatcherPc, NEW t \in PostTaskIds
    PROVE  [disp EXCEPT ![d].pc = step, ![d].postTask = t] \in [Dispatchers -> DispatcherRun]
<1>1. \A run \in DispatcherRun : [run EXCEPT !.pc = step, !.postTask = t] \in DispatcherRun
  BY DEF DispatcherRun
<1>2. QED
  BY <1>1 DEF TypeOK

\* or a publish task.
LEMMA DispatcherPublishTask ==
    ASSUME TypeOK, NEW d \in Dispatchers, NEW step \in DispatcherPc, NEW t \in PublishTaskIds
    PROVE  [disp EXCEPT ![d].pc = step, ![d].publishTask = t] \in [Dispatchers -> DispatcherRun]
<1>1. \A run \in DispatcherRun : [run EXCEPT !.pc = step, !.publishTask = t] \in DispatcherRun
  BY DEF DispatcherRun
<1>2. QED
  BY <1>1 DEF TypeOK

\* A link handler goes on to another statement, and remembers a task
LEMMA LinkAdvance ==
    ASSUME TypeOK, NEW l \in Linkers, NEW step \in LinkPc
    PROVE  [link EXCEPT ![l].pc = step] \in [Linkers -> LinkRun]
<1>1. \A run \in LinkRun : [run EXCEPT !.pc = step] \in LinkRun
  BY DEF LinkRun
<1>2. QED
  BY <1>1 DEF TypeOK

\* a task,
LEMMA LinkTask ==
    ASSUME TypeOK, NEW l \in Linkers, NEW step \in LinkPc, NEW t \in PublishTaskIds
    PROVE  [link EXCEPT ![l].pc = step, ![l].task = t] \in [Linkers -> LinkRun]
<1>1. \A run \in LinkRun : [run EXCEPT !.pc = step, !.task = t] \in LinkRun
  BY DEF LinkRun
<1>2. QED
  BY <1>1 DEF TypeOK

\* or the orders of its task.
LEMMA LinkIdsOf ==
    ASSUME TypeOK, NEW l \in Linkers, NEW step \in LinkPc, NEW orders \in SUBSET OrderIds
    PROVE  [link EXCEPT ![l].pc = step, ![l].orders = orders] \in [Linkers -> LinkRun]
<1>1. \A run \in LinkRun : [run EXCEPT !.pc = step, !.orders = orders] \in LinkRun
  BY DEF LinkRun
<1>2. QED
  BY <1>1 DEF TypeOK

\* A generate handler goes on to another statement, or returns its order.
LEMMA GenAdvance ==
    ASSUME TypeOK, NEW c \in Callers, NEW step \in GenPc
    PROVE  [gen EXCEPT ![c].pc = step] \in [Callers -> GenRun]
<1>1. \A run \in GenRun : [run EXCEPT !.pc = step] \in GenRun
  BY DEF GenRun
<1>2. QED
  BY <1>1 DEF TypeOK

\* The record a generate handler returns with.
LEMMA GenReturns ==
    ASSUME TypeOK, NEW c \in Callers, NEW o \in OrderIds
    PROVE  [gen EXCEPT ![c] = GenReturn(c, o)] \in [Callers -> GenRun]
<1>1. \A run \in GenRun, step \in GenPc : [run EXCEPT !.pc = step, !.order = o] \in GenRun
  BY DEF GenRun
<1>2. GenReturn(c, o) \in GenRun
  BY <1>1, Runs DEF TypeOK, GenReturn, GenPc
<1>3. QED
  BY <1>2 DEF TypeOK

\* The upload of a certificate starts.
LEMMA CertStarts ==
    ASSUME NEW type \in CertificateTypes \union {NoCertificate}
    PROVE  CertStart(type) \in CertRun
BY Runs DEF CertStart, CertRun, CertPc

\* A retry of a post that has failed: the row to be saved, the upload, and the event.
LEMMA ReadFailedTypes ==
    ASSUME TypeOK, NEW r \in Retriers, ReadFailed(r)
    PROVE  /\ retry' \in [Retriers -> RetryRun] /\ gen' \in [Callers -> GenRun]
           /\ cert' \in [Certifiers -> CertRun]
<1>1. Row(r[1]) \in PostRow
  BY DEF TypeOK, Row, PostRow, Retriers
<1>2. \A row \in PostRow : Recertified(row) \in PostRow /\ Resubmitted(row) \in PostRow /\ Republished(row) \in PostRow
  BY DEF Recertified, Resubmitted, Republished, PostRow, RowState, CertificateState
<1>3. \A row \in PostRow : [pc |-> "save", row |-> row] \in RetryRun
  BY DEF RetryRun, RetryPc
<1>4. retry' \in [Retriers -> RetryRun]
  BY <1>1, <1>2, <1>3 DEF TypeOK, ReadFailed
<1>5. [GenStart EXCEPT !.task = Row(r[1]).task] \in GenRun
  BY <1>1, Runs DEF GenRun, PostRow
<1>6. gen' \in [Callers -> GenRun]
  BY <1>5 DEF TypeOK, ReadFailed
<1>7. CertStart(Row(r[1]).certType) \in CertRun
  BY <1>1, CertStarts DEF PostRow
<1>8. cert' \in [Certifiers -> CertRun]
  BY <1>7 DEF TypeOK, ReadFailed
<1>9. QED
  BY <1>4, <1>6, <1>8

-----------------------------------------------------------------------------
(* What the queries select. *)

\* Each query returns rows of its own table.
LEMMA Selected ==
    ASSUME TypeOK
    PROVE  /\ DispatchableOrders # {} => Oldest(DispatchableOrders, orderCreatedAt) \in OrderIds
           /\ PendingOrders # {} => Newest(PendingOrders) \in OrderIds
           /\ PendingPublishTasks # {} => Newest(PendingPublishTasks) \in PublishTaskIds
<1>1. DispatchableOrders \subseteq OrderIds /\ \A o \in OrderIds : orderCreatedAt[o] \in Nat
  BY DEF DispatchableOrders, TypeOK
<1>2. PendingOrders \in SUBSET (1..MaxOrders)
  BY DEF PendingOrders, OrderIds
<1>3. PendingPublishTasks \in SUBSET (1..MaxPublishTasks)
  BY DEF PendingPublishTasks, PublishTaskIds
<1>4. QED
  BY <1>1, <1>2, <1>3, BoundsAssumption, OldestIsRow, NewestIsRow DEF OrderIds, PublishTaskIds

\* A step of the user, of a sweep or of a retry.
LEMMA PostOrdersType ==
    ASSUME TypeOK,
           \/ \E p \in Posts : SavePost(p) \/ RetryRequest(p) \/ SweepRead(p)
           \/ SweepFailed
           \/ \E r \in Retriers : RetrySave(r)
    PROVE  TypeOK'
<1>1. ASSUME NEW p \in Posts, SavePost(p)
      PROVE  TypeOK'
  <2>1. sweeps' \in Nat
    BY <1>1 DEF SavePost, TypeOK
  <2>2. submitState' \in [Posts -> RowState] /\ publishState' \in [Posts -> RowState]
    BY <1>1 DEF SavePost, TypeOK, RowState
  <2>3. cert' \in [Certifiers -> CertRun]
    BY <1>1, CertStarts DEF SavePost, TypeOK
  <2>. QED
    BY <1>1, <2>1, <2>2, <2>3 DEF TypeOK, SavePost
<1>2. ASSUME SweepFailed
      PROVE  TypeOK'
  <2>1. retry' \in [Retriers -> RetryRun]
    BY <1>2 DEF SweepFailed, TypeOK, RetryRun, RetryPc
  <2>. QED
    BY <1>2, <2>1 DEF TypeOK, SweepFailed
<1>3. ASSUME NEW p \in Posts, RetryRequest(p)
      PROVE  TypeOK'
  <2>1. <<p, "request">> \in Retriers
    BY <1>3 DEF Retriers
  <2>2. /\ retry' \in [Retriers -> RetryRun] /\ gen' \in [Callers -> GenRun]
        /\ cert' \in [Certifiers -> CertRun]
    BY <1>3, <2>1, ReadFailedTypes DEF RetryRequest
  <2>. QED
    BY <1>3, <2>1, <2>2 DEF TypeOK, RetryRequest
<1>4. ASSUME NEW p \in Posts, SweepRead(p)
      PROVE  TypeOK'
  <2>1. <<p, "sweep">> \in Retriers
    BY <1>4 DEF Retriers
  <2>2. /\ retry' \in [Retriers -> RetryRun] /\ gen' \in [Callers -> GenRun]
        /\ cert' \in [Certifiers -> CertRun]
    <3>1. CASE ReadFailed(<<p, "sweep">>)
      BY <2>1, <3>1, ReadFailedTypes
    <3>2. CASE retry' = [retry EXCEPT ![<<p, "sweep">>] = NoRetry] /\ UNCHANGED <<gen, cert>>
      BY <3>2, Runs DEF TypeOK
    <3>3. QED
      BY <1>4, <3>1, <3>2 DEF SweepRead
  <2>3. UNCHANGED <<postRows, certRows, clock, sweeps, retries, ordersRest>>
    BY <1>4 DEF SweepRead
  <2>. QED
    BY <2>2, <2>3 DEF TypeOK
<1>5. ASSUME NEW r \in Retriers, RetrySave(r)
      PROVE  TypeOK'
  <2>1. r[1] \in Posts /\ retry[r].row \in PostRow
    BY <1>5 DEF TypeOK, Retriers, RetryRun
  <2>2. retry' \in [Retriers -> RetryRun]
    BY <1>5, Runs DEF RetrySave, TypeOK
  <2>. QED
    BY <1>5, <2>1, <2>2 DEF TypeOK, RetrySave, PostRow
<1>. QED
  BY <1>1, <1>2, <1>3, <1>4, <1>5

\* A step of a certificate's handler.
LEMMA CertificateType ==
    ASSUME TypeOK, NEW c \in Certifiers, CertificateStep(c)
    PROVE  TypeOK'
<1>0. c[1] \in Posts
  BY DEF Certifiers
<1>1. CASE DoingCertificate(c)
  <2>1. cert' \in [Certifiers -> CertRun]
    BY <1>1 DEF DoingCertificate, TypeOK, CertRun, CertPc
  <2>2. /\ certificateStorageType' \in [Posts -> CertificateTypes \union {NoCertificate}]
        /\ certificateState' \in [Posts -> CertificateState]
    BY <1>0, <1>1 DEF DoingCertificate, TypeOK, CertRun, CertificateState
  <2>. QED
    BY <1>1, <2>1, <2>2 DEF TypeOK, DoingCertificate
<1>2. CASE UploadCertificate(c)
  <2>1. cert' \in [Certifiers -> CertRun]
    BY <1>2, Runs DEF UploadCertificate, TypeOK
  <2>2. /\ certificateState' \in [Posts -> CertificateState]
        /\ certificateId' \in [Posts -> CertificateIds]
    BY <1>0, <1>2 DEF UploadCertificate, TypeOK, CertificateState, CertificateIds
  <2>. QED
    BY <1>2, <2>1, <2>2 DEF TypeOK, UploadCertificate
<1>3. CASE UploadFailed(c)
  <2>0. \A run \in CertRun, step \in CertPc : [run EXCEPT !.pc = step] \in CertRun
    BY DEF CertRun
  <2>a. \A step \in CertPc : [cert EXCEPT ![c].pc = step] \in [Certifiers -> CertRun]
    BY <2>0 DEF TypeOK
  <2>1. cert' \in [Certifiers -> CertRun]
    BY <1>3, <2>a DEF UploadFailed, CertPc
  <2>2. faults' \in Nat
    BY <1>3 DEF UploadFailed, TypeOK
  <2>. QED
    BY <1>3, <2>1, <2>2 DEF TypeOK, UploadFailed
<1>4. CASE FailCertificate(c)
  <2>1. cert' \in [Certifiers -> CertRun]
    BY <1>4, Runs DEF FailCertificate, TypeOK
  <2>2. /\ certificateState' \in [Posts -> CertificateState]
        /\ submitState' \in [Posts -> RowState] /\ publishState' \in [Posts -> RowState]
    BY <1>0, <1>4 DEF FailCertificate, TypeOK, CertificateState, RowState
  <2>. QED
    BY <1>4, <2>1, <2>2 DEF TypeOK, FailCertificate
<1>. QED
  BY <1>1, <1>2, <1>3, <1>4 DEF CertificateStep

\* A step of a link or generate handler, and of what follows a retry event.
LEMMA LinkingType ==
    ASSUME TypeOK,
           \/ \E l \in Linkers : LinkStep(l)
           \/ \E c \in Callers : GenStep(c)
           \/ \E r \in Retriers : UpdatePublishOrderId(r)
           \/ RequestPublish
    PROVE  TypeOK'
<1>1. ASSUME NEW l \in Linkers, LinkRead(l)
      PROVE  TypeOK'
  <2>1. {t \in PendingPublishTasks : t = Newest(PublishTasks)} # {} => Newest(PublishTasks) \in PublishTaskIds
    BY <1>1 DEF PendingPublishTasks
  <2>2. [link[l] EXCEPT !.pc = "create"] \in LinkRun
    BY <1>1, LinkRuns DEF TypeOK, LinkPc
  <2>3. {t \in PendingPublishTasks : t = Newest(PublishTasks)} # {} => [link[l] EXCEPT !.pc = "orders", !.task = Newest(PublishTasks)] \in LinkRun
    BY <1>1, <2>1, LinkRuns DEF TypeOK, LinkPc
  <2>4. link' \in [Linkers -> LinkRun]
    BY <1>1, <2>2, <2>3 DEF LinkRead, TypeOK
  <2>. QED
    BY <1>1, <2>1, <2>2, <2>3, <2>4 DEF TypeOK, LinkRead
<1>2. ASSUME NEW l \in Linkers, LinkCreate(l)
      PROVE  TypeOK'
  <2>1. \A t \in PublishTaskIds : [link EXCEPT ![l].pc = "orders", ![l].task = t] \in [Linkers -> LinkRun]
    BY <1>2, LinkTask DEF LinkPc
  <2>2. link' \in [Linkers -> LinkRun]
    BY <1>2, <2>1 DEF LinkCreate
  <2>3. publishTaskState' \in [PublishTaskIds -> RowState]
    BY <1>2 DEF LinkCreate, TypeOK, RowState
  <2>. QED
    BY <1>2, <2>1, <2>2, <2>3 DEF TypeOK, LinkCreate
<1>3. ASSUME NEW l \in Linkers, LinkOrders(l)
      PROVE  TypeOK'
  <2>1. link' \in [Linkers -> LinkRun]
    BY <1>3, LinkAdvance DEF LinkOrders, LinkPc
  <2>2. orderTaskId' \in [OrderIds -> PublishTaskIds \union {NoId}]
    BY <1>3 DEF LinkOrders, TypeOK, LinkRun
  <2>. QED
    BY <1>3, <2>1, <2>2 DEF TypeOK, LinkOrders
<1>4. ASSUME NEW l \in Linkers, LinkIds(l)
      PROVE  TypeOK'
  <2>1. link' \in [Linkers -> LinkRun]
    BY <1>4, LinkIdsOf DEF LinkIds, LinkPc
  <2>. QED
    BY <1>4, <2>1 DEF TypeOK, LinkIds
<1>5. ASSUME NEW l \in Linkers, LinkPosts(l)
      PROVE  TypeOK'
  <2>1. link' \in [Linkers -> LinkRun]
    BY <1>5, Runs DEF LinkPosts, TypeOK
  <2>2. publishSiteTaskId' \in [Posts -> PublishTaskIds \union {NoId}]
    BY <1>5 DEF LinkPosts, TypeOK, LinkRun
  <2>. QED
    BY <1>5, <2>1, <2>2 DEF TypeOK, LinkPosts
<1>6. ASSUME NEW c \in Callers, GenFind(c)
      PROVE  TypeOK'
  <2>1. PendingOrders # {} => Newest(PendingOrders) \in OrderIds
    BY <1>6, Selected DEF TypeOK
  <2>2. [gen EXCEPT ![c].pc = "create"] \in [Callers -> GenRun]
    BY <1>6, GenAdvance DEF GenPc
  <2>3. PendingOrders # {} => [gen EXCEPT ![c] = GenReturn(c, Newest(PendingOrders))] \in [Callers -> GenRun]
    BY <1>6, <2>1, GenReturns DEF GenPc
  <2>4. gen' \in [Callers -> GenRun]
    BY <1>6, <2>2, <2>3 DEF GenFind
  <2>5. link' \in [Linkers -> LinkRun]
    BY <1>6, Runs DEF GenFind, TypeOK, Linkers
  <2>. QED
    BY <1>6, <2>1, <2>2, <2>3, <2>4, <2>5 DEF TypeOK, GenFind
<1>7. ASSUME NEW c \in Callers, GenCreate(c)
      PROVE  TypeOK'
  <2>1. gen' \in [Callers -> GenRun]
    BY <1>7, GenReturns DEF GenCreate
  <2>2. link' \in [Linkers -> LinkRun]
    BY <1>7, Runs DEF GenCreate, TypeOK, Linkers
  <2>3. orderState' \in [OrderIds -> RowState] /\ orderCreatedAt' \in [OrderIds -> Nat]
    BY <1>7 DEF GenCreate, TypeOK, RowState
  <2>. QED
    BY <1>7, <2>1, <2>2, <2>3 DEF TypeOK, GenCreate
<1>8. ASSUME NEW r \in Retriers, UpdatePublishOrderId(r)
      PROVE  TypeOK'
  <2>1. r \in Callers
    BY <1>8 DEF Callers
  <2>2. gen' \in [Callers -> GenRun]
    BY <1>8, <2>1, Runs DEF UpdatePublishOrderId, TypeOK
  <2>3. publishSiteOrderId' \in [Posts -> OrderIds \union {NoId}]
    BY <1>8, <2>1 DEF UpdatePublishOrderId, TypeOK, GenRun
  <2>. QED
    BY <1>8, <2>1, <2>2, <2>3 DEF TypeOK, UpdatePublishOrderId
<1>9. CASE RequestPublish
  <2>1. OrderRequest \in Callers
    BY DEF Callers
  <2>2. gen' \in [Callers -> GenRun]
    BY <1>9, <2>1, Runs DEF RequestPublish, TypeOK
  <2>. QED
    BY <1>9, <2>2 DEF TypeOK, RequestPublish
<1>. QED
  BY <1>1, <1>2, <1>3, <1>4, <1>5, <1>6, <1>7, <1>8, <1>9 DEF LinkStep, GenStep

\* A step of a dispatcher.
LEMMA DispatchType ==
    ASSUME TypeOK,
           \E d \in Dispatchers : DispatchStep(d) \/ RequestDispatch(d)
    PROVE  TypeOK'
<1>1. ASSUME NEW d \in Dispatchers, ReadPublishOrder(d)
      PROVE  TypeOK'
  <2>1. DispatchableOrders # {} => Oldest(DispatchableOrders, orderCreatedAt) \in OrderIds
    BY <1>1, Selected DEF TypeOK
  <2>2. disp' \in [Dispatchers -> DispatcherRun]
    <3> DEFINE o == IF DispatchableOrders = {} THEN NoId ELSE Oldest(DispatchableOrders, orderCreatedAt)
    <3>1. o \in OrderIds \union {NoId}
      BY <2>1
    <3>2. disp' = [disp EXCEPT ![d] = [Idle EXCEPT !.pc = "readPost", !.order = o]]
      BY <1>1, Zenon DEF ReadPublishOrder
    <3> HIDE DEF o
    <3>3. QED
      BY <1>1, <3>1, <3>2, DispatcherOrder DEF DispatcherPc
  <2>. QED
    BY <1>1, <2>1, <2>2 DEF TypeOK, ReadPublishOrder
<1>2. ASSUME NEW d \in Dispatchers, ReadPostOrder(d)
      PROVE  TypeOK'
  <2>1. [disp[d] EXCEPT !.pc = "publish"] \in DispatcherRun
    BY <1>2, DispatcherRuns DEF TypeOK, DispatcherPc
  <2>2. [disp[d] EXCEPT !.pc = "posts", !.order = NoId] \in DispatcherRun
    BY <1>2, DispatcherRuns DEF TypeOK, DispatcherPc
  <2>3. disp' \in [Dispatchers -> DispatcherRun]
    BY <1>2, <2>1, <2>2, Runs DEF ReadPostOrder, TypeOK
  <2>. QED
    BY <1>2, <2>1, <2>2, <2>3 DEF TypeOK, ReadPostOrder
<1>3. ASSUME NEW d \in Dispatchers, RequestDispatch(d)
      PROVE  TypeOK'
  <2>1. [disp EXCEPT ![d].pc = "publish"] \in [Dispatchers -> DispatcherRun]
    BY <1>3, DispatcherStep DEF DispatcherPc
  <2>2. [disp EXCEPT ![d].pc = "posts"] \in [Dispatchers -> DispatcherRun]
    BY <1>3, DispatcherStep DEF DispatcherPc
  <2>3. disp' \in [Dispatchers -> DispatcherRun]
    BY <1>3, <2>1, <2>2 DEF RequestDispatch
  <2>4. requests' \in Nat
    BY <1>3 DEF RequestDispatch, TypeOK
  <2>. QED
    BY <1>3, <2>1, <2>2, <2>3, <2>4 DEF TypeOK, RequestDispatch
<1>4. ASSUME NEW d \in Dispatchers, CheckPublish(d)
      PROVE  TypeOK'
  <2>1. [disp EXCEPT ![d].pc = "linking"] \in [Dispatchers -> DispatcherRun]
    BY <1>4, DispatcherStep DEF DispatcherPc
  <2>2. [disp EXCEPT ![d] = Idle] \in [Dispatchers -> DispatcherRun]
    BY <1>4, DispatcherStep DEF DispatcherPc
  <2>3. disp' \in [Dispatchers -> DispatcherRun]
    BY <1>4, <2>1, <2>2 DEF CheckPublish
  <2>4. link' \in [Linkers -> LinkRun]
    BY <1>4, Runs DEF CheckPublish, TypeOK, Linkers
  <2>. QED
    BY <1>4, <2>1, <2>2, <2>3, <2>4 DEF TypeOK, CheckPublish
<1>5. ASSUME NEW d \in Dispatchers, PickPending(d)
      PROVE  TypeOK'
  <2>1. PendingPublishTasks # {} => Newest(PendingPublishTasks) \in PublishTaskIds
    BY <1>5, Selected DEF TypeOK
  <2>2. PendingPublishTasks # {} => [disp[d] EXCEPT !.pc = "doingTask", !.publishTask = Newest(PendingPublishTasks)] \in DispatcherRun
    BY <1>5, <2>1, DispatcherRuns DEF TypeOK, DispatcherPc
  <2>3. disp' \in [Dispatchers -> DispatcherRun]
    BY <1>5, <2>2, Runs DEF PickPending, TypeOK
  <2>. QED
    BY <1>5, <2>1, <2>2, <2>3 DEF TypeOK, PickPending
<1>6. ASSUME NEW d \in Dispatchers, DoingPublishTask(d)
      PROVE  TypeOK'
  <2>1. disp' \in [Dispatchers -> DispatcherRun]
    BY <1>6, DispatcherStep DEF DoingPublishTask, DispatcherPc
  <2>. QED
    BY <1>6, <2>1 DEF TypeOK, DoingPublishTask, RowState
<1>7. ASSUME NEW d \in Dispatchers, DoingPublishOrders(d)
      PROVE  TypeOK'
  <2>1. disp' \in [Dispatchers -> DispatcherRun]
    BY <1>7, DispatcherStep DEF DoingPublishOrders, DispatcherPc
  <2>. QED
    BY <1>7, <2>1 DEF TypeOK, DoingPublishOrders, RowState
<1>8. ASSUME NEW d \in Dispatchers, DoingPublishPosts(d)
      PROVE  TypeOK'
  <2>1. disp' \in [Dispatchers -> DispatcherRun]
    BY <1>8, DispatcherStep DEF DoingPublishPosts, DispatcherPc
  <2>. QED
    BY <1>8, <2>1 DEF TypeOK, DoingPublishPosts, RowState
<1>9. ASSUME NEW d \in Dispatchers, DoingPublishStatus(d)
      PROVE  TypeOK'
  <2>1. disp' \in [Dispatchers -> DispatcherRun]
    BY <1>9, DispatcherStep DEF DoingPublishStatus, DispatcherPc
  <2>. QED
    BY <1>9, <2>1 DEF TypeOK, DoingPublishStatus, SiteStatus
<1>10. ASSUME NEW d \in Dispatchers, DispatchPublish(d)
      PROVE  TypeOK'
  <2>1. [disp EXCEPT ![d].pc = "awaitPublish"] \in [Dispatchers -> DispatcherRun]
    BY <1>10, DispatcherStep DEF DispatcherPc
  <2>2. [disp EXCEPT ![d] = Idle] \in [Dispatchers -> DispatcherRun]
    BY <1>10, DispatcherStep DEF DispatcherPc
  <2>3. disp' \in [Dispatchers -> DispatcherRun]
    BY <1>10, <2>1, <2>2 DEF DispatchPublish
  <2>4. publishJob' \in [PublishJobs -> PublishJobPc]
    BY <1>10 DEF DispatchPublish, TypeOK, PublishJobPc
  <2>5. faults' \in Nat
    BY <1>10 DEF DispatchPublish, TypeOK
  <2>. QED
    BY <1>10, <2>1, <2>2, <2>3, <2>4, <2>5 DEF TypeOK, DispatchPublish
<1>11. ASSUME NEW d \in Dispatchers, CreatePostTask(d)
      PROVE  TypeOK'
  <2>1. \A t \in PostTaskIds : [disp EXCEPT ![d].pc = "batch", ![d].postTask = t] \in [Dispatchers -> DispatcherRun]
    BY <1>11, DispatcherPostTask DEF DispatcherPc
  <2>2. [disp EXCEPT ![d] = Idle] \in [Dispatchers -> DispatcherRun]
    BY <1>11, DispatcherStep DEF DispatcherPc
  <2>3. disp' \in [Dispatchers -> DispatcherRun]
    <3>1. \/ disp' = [disp EXCEPT ![d] = Idle]
          \/ \E t \in PostTaskIds : disp' = [disp EXCEPT ![d].pc = "batch", ![d].postTask = t]
      BY <1>11 DEF CreatePostTask
    <3>2. QED
      BY <2>1, <2>2, <3>1
  <2>4. postTaskState' \in [PostTaskIds -> RowState]
    BY <1>11 DEF CreatePostTask, TypeOK, RowState
  <2>. QED
    BY <1>11, <2>1, <2>2, <2>3, <2>4 DEF TypeOK, CreatePostTask
<1>12. ASSUME NEW d \in Dispatchers, BatchPosts(d)
      PROVE  TypeOK'
  <2>1. disp' \in [Dispatchers -> DispatcherRun]
    BY <1>12, DispatcherStep DEF BatchPosts, DispatcherPc
  <2>2. disp[d].postTask \in PostTaskIds \union {NoTask}
    BY <1>12 DEF TypeOK, DispatcherRun
  <2>3. postTaskId' \in [Posts -> PostTaskIds \union {NoTask}]
    BY <1>12, <2>2 DEF BatchPosts, TypeOK
  <2>. QED
    BY <1>12, <2>1, <2>2, <2>3 DEF TypeOK, BatchPosts
<1>13. ASSUME NEW d \in Dispatchers, CollectPosts(d)
      PROVE  TypeOK'
  <2>1. disp' \in [Dispatchers -> DispatcherRun]
    BY <1>13, DispatcherStep DEF CollectPosts, DispatcherPc
  <2>. QED
    BY <1>13, <2>1 DEF TypeOK, CollectPosts
<1>14. ASSUME NEW d \in Dispatchers, DoingPostTask(d)
      PROVE  TypeOK'
  <2>1. disp' \in [Dispatchers -> DispatcherRun]
    BY <1>14, DispatcherStep DEF DoingPostTask, DispatcherPc
  <2>. QED
    BY <1>14, <2>1 DEF TypeOK, DoingPostTask, RowState
<1>15. ASSUME NEW d \in Dispatchers, DoingSubmitPost(d)
      PROVE  TypeOK'
  <2>1. disp' \in [Dispatchers -> DispatcherRun]
    BY <1>15, DispatcherStep DEF DoingSubmitPost, DispatcherPc
  <2>. QED
    BY <1>15, <2>1 DEF TypeOK, DoingSubmitPost, RowState
<1>16. ASSUME NEW d \in Dispatchers, DispatchPosts(d)
      PROVE  TypeOK'
  <2>1. [disp EXCEPT ![d].pc = "awaitPost"] \in [Dispatchers -> DispatcherRun]
    BY <1>16, DispatcherStep DEF DispatcherPc
  <2>2. [disp EXCEPT ![d] = Idle] \in [Dispatchers -> DispatcherRun]
    BY <1>16, DispatcherStep DEF DispatcherPc
  <2>3. disp' \in [Dispatchers -> DispatcherRun]
    BY <1>16, <2>1, <2>2 DEF DispatchPosts
  <2>4. postJob' \in [PostTaskIds -> PostJobPc]
    BY <1>16 DEF DispatchPosts, TypeOK, PostJobPc
  <2>5. faults' \in Nat
    BY <1>16 DEF DispatchPosts, TypeOK
  <2>. QED
    BY <1>16, <2>1, <2>2, <2>3, <2>4, <2>5 DEF TypeOK, DispatchPosts
<1>17. ASSUME NEW d \in Dispatchers, DispatchFailed(d)
      PROVE  TypeOK'
  <2>1. disp' \in [Dispatchers -> DispatcherRun]
    BY <1>17, DispatcherStep DEF DispatchFailed, DispatcherPc
  <2>. QED
    BY <1>17, <2>1 DEF TypeOK, DispatchFailed
<1>. QED
  BY <1>1, <1>2, <1>3, <1>4, <1>5, <1>6, <1>7, <1>8, <1>9, <1>10, <1>11, <1>12, <1>13, <1>14, <1>15, <1>16, <1>17 DEF DispatchStep

\* A step of a post job or of its handler, and a report.
LEMMA PostJobType ==
    ASSUME TypeOK,
           \E t \in PostTaskIds : PostJobStep(t) \/ \E p \in Posts : ReportErrored(t, p)
    PROVE  TypeOK'
<1>1. ASSUME NEW t \in PostTaskIds, PostJobCompleted(t)
      PROVE  TypeOK'
  <2>1. t \in Callers
    BY <1>1 DEF Callers
  <2>2. gen' \in [Callers -> GenRun]
    BY <1>1, <2>1, Runs DEF PostJobCompleted, TypeOK
  <2>3. postJob' \in [PostTaskIds -> PostJobPc]
    BY <1>1 DEF PostJobCompleted, TypeOK, PostJobPc
  <2>. QED
    BY <1>1, <2>1, <2>2, <2>3 DEF TypeOK, PostJobCompleted
<1>2. ASSUME NEW t \in PostTaskIds, PostJobFailed(t)
      PROVE  TypeOK'
  BY <1>2 DEF TypeOK, PostJobFailed, PostJobPc
<1>3. ASSUME NEW t \in PostTaskIds, FailPostTask(t)
      PROVE  TypeOK'
  BY <1>3 DEF TypeOK, FailPostTask, PostJobPc, RowState
<1>4. ASSUME NEW t \in PostTaskIds, FailSubmitPosts(t)
      PROVE  TypeOK'
  BY <1>4 DEF TypeOK, FailSubmitPosts, PostJobPc, RowState
<1>5. ASSUME NEW t \in PostTaskIds, FinishPostTask(t)
      PROVE  TypeOK'
  <2>1. t \in Callers
    BY <1>5 DEF Callers
  <2>2. gen' \in [Callers -> GenRun]
    BY <1>5, <2>1, GenAdvance DEF FinishPostTask, GenPc
  <2>. QED
    BY <1>5, <2>1, <2>2 DEF TypeOK, FinishPostTask, RowState
<1>6. ASSUME NEW t \in PostTaskIds, FinishSubmitPost(t)
      PROVE  TypeOK'
  <2>1. t \in Callers
    BY <1>6 DEF Callers
  <2>2. gen' \in [Callers -> GenRun]
    BY <1>6, <2>1, Runs DEF FinishSubmitPost, TypeOK
  <2>3. postJob' \in [PostTaskIds -> PostJobPc]
    BY <1>6 DEF FinishSubmitPost, TypeOK, PostJobPc
  <2>4. publishSiteOrderId' \in [Posts -> OrderIds \union {NoId}]
    BY <1>6, <2>1 DEF FinishSubmitPost, TypeOK, GenRun
  <2>. QED
    BY <1>6, <2>1, <2>2, <2>3, <2>4 DEF TypeOK, FinishSubmitPost, RowState
<1>7. ASSUME NEW t \in PostTaskIds, NEW p \in Posts, ReportErrored(t, p)
      PROVE  TypeOK'
  BY <1>7 DEF TypeOK, ReportErrored, RowState
<1>. QED
  BY <1>1, <1>2, <1>3, <1>4, <1>5, <1>6, <1>7 DEF PostJobStep

\* A step of a publish job or of its handler, and a restart.
LEMMA PublishJobType ==
    ASSUME TypeOK,
           (\E j \in PublishJobs : PublishJobStep(j)) \/ Restart
    PROVE  TypeOK'
<1>1. ASSUME NEW j \in PublishJobs, PublishJobBuild(j)
      PROVE  TypeOK'
  BY <1>1 DEF TypeOK, PublishJobBuild, AdvancePublish, PublishJobPc
<1>2. ASSUME NEW j \in PublishJobs, PublishJobCompleted(j)
      PROVE  TypeOK'
  BY <1>2 DEF TypeOK, PublishJobCompleted, AdvancePublish, PublishJobPc
<1>3. ASSUME NEW j \in PublishJobs, PublishJobFailed(j)
      PROVE  TypeOK'
  <2>1. publishJob' \in [PublishJobs -> PublishJobPc]
    BY <1>3 DEF PublishJobFailed, AdvancePublish, TypeOK, PublishJobPc
  <2>2. faults' \in Nat
    BY <1>3 DEF PublishJobFailed, TypeOK
  <2>. QED
    BY <1>3, <2>1, <2>2 DEF TypeOK, PublishJobFailed
<1>4. ASSUME NEW j \in PublishJobs, FinishPublishTask(j)
      PROVE  TypeOK'
  <2>1. j[1] \in PublishTaskIds
    BY <1>4 DEF PublishJobs
  <2>2. publishJob' \in [PublishJobs -> PublishJobPc]
    BY <1>4 DEF FinishPublishTask, AdvancePublish, TypeOK, PublishJobPc
  <2>. QED
    BY <1>4, <2>1, <2>2 DEF TypeOK, FinishPublishTask, RowState
<1>5. ASSUME NEW j \in PublishJobs, UpdateDomain(j)
      PROVE  TypeOK'
  <2>1. publishJob' \in [PublishJobs -> PublishJobPc]
    BY <1>5 DEF UpdateDomain, AdvancePublish, TypeOK, PublishJobPc
  <2>2. faults' \in Nat
    BY <1>5 DEF UpdateDomain, TypeOK
  <2>. QED
    BY <1>5, <2>1, <2>2 DEF TypeOK, UpdateDomain
<1>6. ASSUME NEW j \in PublishJobs, FinishPublishOrders(j)
      PROVE  TypeOK'
  BY <1>6 DEF TypeOK, FinishPublishOrders, AdvancePublish, PublishJobPc, RowState
<1>7. ASSUME NEW j \in PublishJobs, FinishPublishPosts(j)
      PROVE  TypeOK'
  BY <1>7 DEF TypeOK, FinishPublishPosts, AdvancePublish, PublishJobPc, RowState
<1>8. ASSUME NEW j \in PublishJobs, SetPublished(j)
      PROVE  TypeOK'
  BY <1>8 DEF TypeOK, SetPublished, AdvancePublish, PublishJobPc, SiteStatus
<1>9. ASSUME NEW j \in PublishJobs, FailPublishTask(j)
      PROVE  TypeOK'
  <2>1. j[1] \in PublishTaskIds
    BY <1>9 DEF PublishJobs
  <2>2. publishJob' \in [PublishJobs -> PublishJobPc]
    BY <1>9 DEF FailPublishTask, AdvancePublish, TypeOK, PublishJobPc
  <2>. QED
    BY <1>9, <2>1, <2>2 DEF TypeOK, FailPublishTask, RowState
<1>10. ASSUME NEW j \in PublishJobs, FailPublishOrders(j)
      PROVE  TypeOK'
  BY <1>10 DEF TypeOK, FailPublishOrders, AdvancePublish, PublishJobPc, RowState
<1>11. ASSUME NEW j \in PublishJobs, FailPublishPosts(j)
      PROVE  TypeOK'
  BY <1>11 DEF TypeOK, FailPublishPosts, AdvancePublish, PublishJobPc, RowState
<1>12. ASSUME NEW j \in PublishJobs, SetPublishFailed(j)
      PROVE  TypeOK'
  BY <1>12 DEF TypeOK, SetPublishFailed, AdvancePublish, PublishJobPc, SiteStatus
<1>13. ASSUME Restart
      PROVE  TypeOK'
  <2>1. disp' \in [Dispatchers -> DispatcherRun] /\ link' \in [Linkers -> LinkRun]
    BY <1>13, Runs DEF Restart
  <2>2. /\ gen' \in [Callers -> GenRun] /\ retry' \in [Retriers -> RetryRun]
        /\ cert' \in [Certifiers -> CertRun]
    BY <1>13, Runs DEF Restart
  <2>3. postJob' \in [PostTaskIds -> PostJobPc]
    BY <1>13 DEF Restart, TypeOK, PostJobPc
  <2>4. publishJob' \in [PublishJobs -> PublishJobPc]
    BY <1>13 DEF Restart, TypeOK, PublishJobPc
  <2>. QED
    BY <1>13, <2>1, <2>2, <2>3, <2>4 DEF TypeOK, Restart
<1>. QED
  BY <1>1, <1>2, <1>3, <1>4, <1>5, <1>6, <1>7, <1>8, <1>9, <1>10, <1>11, <1>12, <1>13 DEF PublishJobStep

-----------------------------------------------------------------------------
(* The type invariant. *)

\* Initially the rows are absent and nothing is in flight.
LEMMA InitType == Init => TypeOK
<1>1. [NoGen EXCEPT !.pc = "find"] \in GenRun
  BY Runs DEF GenStart
<1> SUFFICES ASSUME Init PROVE TypeOK
  OBVIOUS
<1>2. /\ gen \in [Callers -> GenRun] /\ disp \in [Dispatchers -> DispatcherRun]
      /\ link \in [Linkers -> LinkRun] /\ retry \in [Retriers -> RetryRun]
      /\ cert \in [Certifiers -> CertRun]
  BY <1>1, Runs DEF Init
<1>3. /\ certificateStorageType \in [Posts -> CertificateTypes \union {NoCertificate}]
      /\ certificateState \in [Posts -> CertificateState]
      /\ certificateId \in [Posts -> CertificateIds]
  BY DEF Init, CertificateState, CertificateIds
<1>4. /\ postJob \in [PostTaskIds -> PostJobPc] /\ publishJob \in [PublishJobs -> PublishJobPc]
      /\ siteStatus \in SiteStatus
  BY NamesAssumption DEF Init, PostJobPc, PublishJobPc, SiteStatus
<1>5. QED
  BY <1>2, <1>3, <1>4 DEF Init, TypeOK, RowState, NoId

\* Every step keeps the type invariant.
LEMMA NextType ==
    ASSUME TypeOK, [Next]_vars
    PROVE  TypeOK'
<1>1. CASE Next
  <2>1. CASE \/ \E p \in Posts : SavePost(p) \/ RetryRequest(p) \/ SweepRead(p)
             \/ SweepFailed
             \/ \E r \in Retriers : RetrySave(r)
    BY <2>1, PostOrdersType
  <2>2. CASE \/ \E l \in Linkers : LinkStep(l)
             \/ \E c \in Callers : GenStep(c)
             \/ \E r \in Retriers : UpdatePublishOrderId(r)
             \/ RequestPublish
    BY <2>2, LinkingType
  <2>3. CASE \E d \in Dispatchers : DispatchStep(d) \/ RequestDispatch(d)
    BY <2>3, DispatchType
  <2>4. CASE \E t \in PostTaskIds : PostJobStep(t) \/ \E p \in Posts : ReportErrored(t, p)
    BY <2>4, PostJobType
  <2>5. CASE (\E j \in PublishJobs : PublishJobStep(j)) \/ Restart
    BY <2>5, PublishJobType
  <2>6. CASE \E c \in Certifiers : CertificateStep(c)
    BY <2>6, CertificateType
  <2>7. QED
    BY <1>1, <2>1, <2>2, <2>3, <2>4, <2>5, <2>6 DEF Next
<1>2. CASE UNCHANGED vars
  BY <1>2 DEF TypeOK, vars
<1>3. QED
  BY <1>1, <1>2

\* Every column, handler and counter keeps a value of its kind: the states are
\* those of PipelineOrderTaskCommonState and SiteStatus, and every id refers to
\* a row that can exist.
THEOREM TypeCorrect == Spec => []TypeOK
<1>1. Init => TypeOK
  BY InitType
<1>2. TypeOK /\ [Next]_vars => TypeOK'
  BY NextType
<1>3. QED
  BY <1>1, <1>2, PTL DEF Spec

=============================================================================
