----------------------------- MODULE PostOrders -----------------------------
(***************************************************************************)
(* PostOrdersLogicService as the user drives it: a new post, the sweep     *)
(* that retries the user's failed posts after each new post, and the retry *)
(* of one post. A retry reads the row, decides, and saves the row it read: *)
(* whatever happens to the row in between is overwritten.                  *)
(***************************************************************************)
EXTENDS PublishLinking, PostCertificates

ordersRest == <<postTaskRows, orderRows, publishTaskState, siteStatus, disp, link,
                postJob, publishJob, git, reports, publishRequests, requests, faults, crashes>>

\* savePostOrder, with the column defaults of all states; afterwards, neither
\* awaited, handleCertificate and retryUserFailedPostOrders.
SavePost(p) ==
    /\ submitState[p] = "absent"
    /\ submitState' = [submitState EXCEPT ![p] = "pending"]
    /\ publishState' = [publishState EXCEPT ![p] = "pending"]
    /\ postCreatedAt' = [postCreatedAt EXCEPT ![p] = clock]
    /\ clock' = clock + 1
    /\ \E type \in CertificateTypes \union {NoCertificate} :
         cert' = [cert EXCEPT ![<<p, "save">>] = CertStart(type)]
    /\ sweeps' = IF sweeps < MaxSweeps THEN sweeps + 1 ELSE sweeps
    /\ UNCHANGED <<postTaskId, publishSiteOrderId, publishSiteTaskId, certRows, gen, retry, retries, ordersRest>>

\* retryUserFailedPostOrders: one query, then a retry of each post it returned.
SweepFailed ==
    /\ sweeps > 0
    /\ sweeps' = sweeps - 1
    /\ retry' = [r \in Retriers |->
         IF r[2] = "sweep" /\ publishState[r[1]] = "failed" /\ retry[r].pc = "none"
         THEN [retry[r] EXCEPT !.pc = "read"] ELSE retry[r]]
    /\ UNCHANGED <<postRows, certRows, cert, clock, gen, retries, ordersRest>>

\* A failed certificate starts over, with everything after it; the post task stays.
Recertified(row) == [row EXCEPT !.submit = "pending", !.publish = "pending", !.certState = "pending"]
\* A failed submission starts over: both states pending, without a post task.
Resubmitted(row) == [row EXCEPT !.submit = "pending", !.publish = "pending", !.task = NoTask]
\* A failed publication is to be published again, with a new order.
Republished(row) == [row EXCEPT !.publish = "pending", !.order = NoId, !.publishTask = NoId]

\* retryPostOrder up to its save: the row that will be saved, with the upload
\* of the certificate under way for a failed certificate, and for a failed
\* publication the event whose handler generates a publish order.
ReadFailed(r) ==
    LET row == Row(r[1]) IN
    \/ /\ row.certState = "failed"
       /\ cert[r].pc = "none"
       /\ retry' = [retry EXCEPT ![r] = [pc |-> "save", row |-> Recertified(row)]]
       /\ cert' = [cert EXCEPT ![r] = CertStart(row.certType)]
       /\ UNCHANGED gen
    \/ /\ row.certState # "failed" /\ row.submit = "failed"
       /\ retry' = [retry EXCEPT ![r] = [pc |-> "save", row |-> Resubmitted(row)]]
       /\ UNCHANGED <<gen, cert>>
    \/ /\ row.certState # "failed" /\ row.submit # "failed" /\ row.publish = "failed"
       /\ gen[r].pc = "none"
       /\ retry' = [retry EXCEPT ![r] = [pc |-> "save", row |-> Republished(row)]]
       /\ gen' = [gen EXCEPT ![r] = [GenStart EXCEPT !.task = row.task]]
       /\ UNCHANGED cert

\* The user retries a post. A post that has not failed is refused, which
\* changes nothing.
RetryRequest(p) ==
    /\ retries < MaxRetries
    /\ retry[<<p, "request">>].pc = "none"
    /\ retries' = retries + 1
    /\ ReadFailed(<<p, "request">>)
    /\ UNCHANGED <<postRows, certRows, clock, sweeps, ordersRest>>

\* The sweep retries a post it has found failed; it may have changed since.
SweepRead(p) ==
    LET r == <<p, "sweep">> IN
    /\ retry[r].pc = "read"
    /\ \/ ReadFailed(r)
       \/ /\ "failed" \notin {certificateState[p], submitState[p], publishState[p]}
          /\ retry' = [retry EXCEPT ![r] = NoRetry]
          /\ UNCHANGED <<gen, cert>>
    /\ UNCHANGED <<postRows, certRows, clock, sweeps, retries, ordersRest>>

\* postOrdersBaseService.save: every column that differs from the database is
\* written back, so the row becomes the one in memory.
RetrySave(r) ==
    LET p == r[1]
        row == retry[r].row
    IN
    /\ retry[r].pc = "save"
    /\ submitState' = [submitState EXCEPT ![p] = row.submit]
    /\ publishState' = [publishState EXCEPT ![p] = row.publish]
    /\ postTaskId' = [postTaskId EXCEPT ![p] = row.task]
    /\ publishSiteOrderId' = [publishSiteOrderId EXCEPT ![p] = row.order]
    /\ publishSiteTaskId' = [publishSiteTaskId EXCEPT ![p] = row.publishTask]
    /\ certificateStorageType' = [certificateStorageType EXCEPT ![p] = row.certType]
    /\ certificateState' = [certificateState EXCEPT ![p] = row.certState]
    /\ certificateId' = [certificateId EXCEPT ![p] = row.certId]
    /\ retry' = [retry EXCEPT ![r] = NoRetry]
    /\ UNCHANGED <<postCreatedAt, clock, cert, gen, sweeps, retries, ordersRest>>
=============================================================================
