-------------------------- MODULE PostCertificates --------------------------
(***************************************************************************)
(* handleCertificate: the upload of the certificate a post was requested   *)
(* with. It runs beside everything else (nobody awaits it), started by the *)
(* post's first save or by a retry, tries the upload twice, and fails the  *)
(* whole post if both attempts fail. The storage services (IPFS, Arweave)  *)
(* are outside of the repository: an upload returns an id or throws.       *)
(***************************************************************************)
EXTENDS PipelineTables

certRest == <<postTaskId, publishSiteOrderId, publishSiteTaskId, postCreatedAt, postTaskRows,
              orderRows, publishTaskState, siteStatus, clock, disp, link, gen, postJob,
              publishJob, retry, sweeps, git, reports, retries, publishRequests, requests, crashes>>

\* A post without a certificateStorageType gets no certificate.
CertStart(type) ==
    IF type = NoCertificate THEN NoCert ELSE [pc |-> "start", type |-> type]

\* The first update: the type the request asked for, and the state.
DoingCertificate(c) ==
    /\ cert[c].pc = "start"
    /\ certificateStorageType' = [certificateStorageType EXCEPT ![c[1]] = cert[c].type]
    /\ certificateState' = [certificateState EXCEPT ![c[1]] = "doing"]
    /\ cert' = [cert EXCEPT ![c].pc = "upload"]
    /\ UNCHANGED <<submitState, publishState, certificateId, faults, certRest>>

\* Mutation: the update after the upload leaves the id out.
UploadCertificate_NoId(c) ==
    /\ cert[c].pc \in {"upload", "again"}
    /\ certificateState' = [certificateState EXCEPT ![c[1]] = "finished"]
    /\ cert' = [cert EXCEPT ![c] = NoCert]
    /\ UNCHANGED <<submitState, publishState, certificateStorageType, certificateId, faults, certRest>>

\* doUploadCertificate: the upload, and the update with the id it returned.
UploadCertificate(c) ==
    /\ cert[c].pc \in {"upload", "again"}
    /\ certificateState' = [certificateState EXCEPT ![c[1]] = "finished"]
    /\ certificateId' = [certificateId EXCEPT ![c[1]] = "txId"]
    /\ cert' = [cert EXCEPT ![c] = NoCert]
    /\ UNCHANGED <<submitState, publishState, certificateStorageType, faults, certRest>>

\* The upload throws; there is one more attempt.
UploadFailed(c) ==
    /\ faults < MaxFaults
    /\ faults' = faults + 1
    /\ \/ cert[c].pc = "upload" /\ cert' = [cert EXCEPT ![c].pc = "again"]
       \/ cert[c].pc = "again" /\ cert' = [cert EXCEPT ![c].pc = "fail"]
    /\ UNCHANGED <<submitState, publishState, certificateStorageType, certificateState,
                   certificateId, certRest>>

\* Both attempts failed: the post has failed, wherever the pipeline is with it.
FailCertificate(c) ==
    /\ cert[c].pc = "fail"
    /\ certificateState' = [certificateState EXCEPT ![c[1]] = "failed"]
    /\ submitState' = [submitState EXCEPT ![c[1]] = "failed"]
    /\ publishState' = [publishState EXCEPT ![c[1]] = "failed"]
    /\ cert' = [cert EXCEPT ![c] = NoCert]
    /\ UNCHANGED <<certificateStorageType, certificateId, faults, certRest>>

CertificateStep(c) ==
    \/ DoingCertificate(c) \/ UploadCertificate(c) \/ UploadFailed(c) \/ FailCertificate(c)
=============================================================================
