------------------------ MODULE LegacyPosts_proofs ------------------------
(***************************************************************************)
(* Requests of the legacy endpoints insert no row for a post that has not  *)
(* passed, and return rows that their tasks know. The tasks report a post  *)
(* as pushed only if it was, and leave no row DOING and no site DEPLOYING  *)
(* behind. This holds for any number of requests, posts, sites and         *)
(* directories, and for every failure and timeout. At the end, what is     *)
(* proved here and of the services beside the posts is put together for    *)
(* the behaviours that are checked, each of which is about one of them.    *)
(***************************************************************************)
EXTENDS MCPosts, PostServices_proofs, FiniteSetTheorems, SequenceTheorems, TLAPS

\* All posts of request c have passed; up are the server verifications uploaded.
BatchPassed(r, c, up) ==
    \A i \in DOMAIN c.batch : LET a == c.batch[i] IN
        /\ a.state \in Allows(c.op)
        /\ a.digest = a.signature /\ a.digest # "bad"
        /\ a.digest = "good" => <<r, i>> \in up

\* What is known of a post whose verification has come to a stage.
StageFits(a, stage) ==
    /\ stage = "unsigned" => a.digest = "none" /\ a.signature = "none"
    /\ stage = "digest" => a.digest = "good"
    /\ stage \in {"signature", "uploaded"} => a.digest = "good" /\ a.signature = "good"

\* What is known of request c at the statement it has come to.
CallFits(r, c, up) ==
    /\ c.pc # "idle" => c.batch \in Batches /\ c.targets \in Targets
    /\ c.pc = "verify" =>
         /\ c.next = 1 /\ DOMAIN c.verified = DOMAIN c.batch
         /\ \A i \in DOMAIN c.batch :
               /\ StageFits(c.batch[i], c.verified[i])
               /\ c.verified[i] = "uploaded" => <<r, i>> \in up
    /\ c.pc = "rows" => c.next \in 1..Len(c.batch)
    /\ c.pc \in {"directory", "generate", "link"} =>
         c.next \in 1..Len(c.targets) /\ Elements(c.targets) \subseteq OwnConfigs
    /\ c.pc \in {"rows", "directory", "generate", "link", "returned"} => BatchPassed(r, c, up)

\* A request with a row is past its verification, and all its posts have passed.
HasRows(r, c, up) == c.pc \notin {"idle", "verify"} /\ BatchPassed(r, c, up)

\* The inductive invariant.
PostsInv ==
    /\ PostsTypeOK
    /\ \A r \in Submissions : CallFits(r, call[r], uploaded)
    /\ \A k \in DOMAIN row : HasRows(row[k].call, call[row[k].call], uploaded)

\* The posts and targets of a request are sequences, and not empty.
LEMMA CarriedBySubmission ==
    /\ \A b \in Batches : b \in Seq(Articles) /\ Len(b) \in Nat /\ Len(b) > 0 /\ DOMAIN b = 1..Len(b)
    /\ \A t \in Targets : t \in Seq(ConfigIds) /\ Len(t) \in Nat /\ Len(t) > 0 /\ DOMAIN t = 1..Len(t)
  BY PostsAssumption

\* Later uploads take nothing back.
LEMMA UploadsStay ==
    ASSUME NEW r, NEW c, NEW up, NEW more, up \subseteq more
    PROVE  /\ BatchPassed(r, c, up) => BatchPassed(r, c, more)
           /\ CallFits(r, c, up) => CallFits(r, c, more)
  BY DEF BatchPassed, CallFits

\* A step of one request keeps the invariant if it keeps its own part of it, and its
\* rows are those of a request whose posts have passed.
LEMMA StepKeeps ==
    ASSUME PostsInv, NEW r \in Submissions, NEW c \in CallState,
           call' = [call EXCEPT ![r] = c],
           uploaded \subseteq uploaded', uploaded' \subseteq Submissions \X Nat,
           CallFits(r, c, uploaded'),
           row' \in Seq(RowState), directory' \in [OwnConfigs -> 0..MaxDirectories],
           madeFor' \in Seq(OwnConfigs), Len(madeFor') <= MaxDirectories,
           \A k \in DOMAIN row' :
              \/ row'[k].call # r /\ \E m \in DOMAIN row : row[m].call = row'[k].call
              \/ row'[k].call = r /\ HasRows(r, c, uploaded')
    PROVE  PostsInv'
<1>1. PostsTypeOK'
  BY DEF PostsInv, PostsTypeOK
<1>2. \A q \in Submissions : call'[q] = IF q = r THEN c ELSE call[q]
  BY DEF PostsInv, PostsTypeOK
<1>3. \A q \in Submissions : CallFits(q, call'[q], uploaded')
  BY <1>2, UploadsStay DEF PostsInv
<1>4. ASSUME NEW k \in DOMAIN row'
      PROVE  HasRows(row'[k].call, call'[row'[k].call], uploaded')
  <2>1. row'[k] \in RowState
    OBVIOUS
  <2>2. row'[k].call \in Submissions
    BY <2>1 DEF RowState
  <2>3. CASE row'[k].call = r /\ HasRows(r, c, uploaded')
    BY <1>2, <2>2, <2>3
  <2>4. CASE row'[k].call # r /\ \E m \in DOMAIN row : row[m].call = row'[k].call
    <3>1. HasRows(row'[k].call, call[row'[k].call], uploaded)
      BY <2>4 DEF PostsInv
    <3>2. QED
      BY <1>2, <2>2, <2>4, <3>1, UploadsStay DEF HasRows
  <2>5. QED
    BY <2>3, <2>4
<1>5. QED
  BY <1>1, <1>3, <1>4 DEF PostsInv

\* A step that inserts and links no rows.
LEMMA StepWithoutRows ==
    ASSUME PostsInv, NEW r \in Submissions, NEW c \in CallState,
           call' = [call EXCEPT ![r] = c], UNCHANGED row,
           uploaded \subseteq uploaded', uploaded' \subseteq Submissions \X Nat,
           CallFits(r, c, uploaded'),
           directory' \in [OwnConfigs -> 0..MaxDirectories],
           madeFor' \in Seq(OwnConfigs), Len(madeFor') <= MaxDirectories,
           \/ call[r].pc \in {"idle", "verify"}
           \/ c.pc \notin {"idle", "verify"} /\ c.batch = call[r].batch /\ c.op = call[r].op
    PROVE  PostsInv'
<1>1. ASSUME NEW k \in DOMAIN row', row'[k].call = r
      PROVE  HasRows(r, c, uploaded')
  <2>1. HasRows(r, call[r], uploaded)
    BY <1>1 DEF PostsInv
  <2>2. HasRows(r, call[r], uploaded')
    BY <2>1, UploadsStay DEF HasRows
  <2>3. QED
    BY <2>1, <2>2 DEF HasRows, BatchPassed
<1>2. row \in Seq(RowState)
  BY DEF PostsInv, PostsTypeOK
<1>3. QED
  BY <1>1, <1>2, StepKeeps

LEMMA PostsInitInv == PostsInit => PostsInv
<1> SUFFICES ASSUME PostsInit PROVE PostsInv
  OBVIOUS
<1>1. NewCall \in CallState
  BY PostsAssumption DEF NewCall, CallState, Operations
<1>2. PostsTypeOK
  BY <1>1, PostsAssumption DEF PostsInit, PostsTypeOK
<1>3. \A r \in Submissions : CallFits(r, call[r], uploaded)
  BY DEF PostsInit, NewCall, CallFits
<1>4. QED
  BY <1>2, <1>3 DEF PostsInit, PostsInv

\* Facts about a request that is at work.
LEMMA CallFacts ==
    ASSUME PostsInv, NEW r \in Submissions
    PROVE  /\ call[r] \in CallState /\ CallFits(r, call[r], uploaded)
           /\ uploaded \subseteq Submissions \X Nat /\ row \in Seq(RowState)
           /\ directory \in [OwnConfigs -> 0..MaxDirectories]
           /\ madeFor \in Seq(OwnConfigs) /\ Len(madeFor) <= MaxDirectories
  BY DEF PostsInv, PostsTypeOK

LEMMA SubmitInv ==
    ASSUME PostsInv, NEW r \in Submissions, Submit(r)
    PROVE  PostsInv'
<1>1. PICK op \in Operations, batch \in Batches, targets \in Targets :
        Step(r, [NewCall EXCEPT !.pc = "verify", !.op = op, !.batch = batch, !.targets = targets,
                   !.verified = [i \in 1..Len(batch) |-> "no"]])
  BY DEF Submit
<1> DEFINE c == [NewCall EXCEPT !.pc = "verify", !.op = op, !.batch = batch, !.targets = targets,
                   !.verified = [i \in 1..Len(batch) |-> "no"]]
<1>2. [i \in 1..Len(batch) |-> "no"] \in Seq({"no", "digest", "signature", "uploaded", "unsigned", "refused"})
  BY CarriedBySubmission
<1>3. c \in CallState
  <2>1. c = [pc |-> "verify", op |-> op, batch |-> batch, targets |-> targets,
             verified |-> [i \in 1..Len(batch) |-> "no"], next |-> 1, directory |-> 0]
    <3> DEFINE unverified == [i \in 1..Len(batch) |-> "no"]
    <3> HIDE DEF unverified
    <3>1. c = [NewCall EXCEPT !.pc = "verify", !.op = op, !.batch = batch, !.targets = targets,
                 !.verified = unverified]
      BY DEF unverified
    <3>2. c = [pc |-> "verify", op |-> op, batch |-> batch, targets |-> targets,
               verified |-> unverified, next |-> 1, directory |-> 0]
      <4> HIDE DEF c
      <4>1. QED BY <3>1 DEF NewCall
    <3>3. QED
      BY <3>2 DEF unverified
  <2>2. 0 \in 0..MaxDirectories
    BY PostsAssumption
  <2> HIDE DEF c
  <2>3. QED
    BY <1>2, <2>1, <2>2 DEF CallState
<1>4. c.pc = "verify" /\ c.next = 1 /\ c.batch = batch /\ c.targets = targets /\ c.verified = [i \in 1..Len(batch) |-> "no"]
  BY DEF NewCall
<1>5. CallFits(r, c, uploaded)
  <2> HIDE DEF c
  <2> QED BY <1>4, CarriedBySubmission DEF CallFits, StageFits
<1>6. call' = [call EXCEPT ![r] = c]
  BY <1>1 DEF Step
<1> HIDE DEF c
<1>7. QED
  BY <1>3, <1>5, <1>6, CallFacts, StepWithoutRows DEF Submit

\* A request has failed, and keeps its posts and rows; its verifications may go on.
LEMMA FailedKeeps ==
    ASSUME PostsInv, NEW r \in Submissions, call[r].pc # "idle",
           NEW c \in CallState, c.pc = "failed", c.batch = call[r].batch,
           c.targets = call[r].targets, c.op = call[r].op,
           call' = [call EXCEPT ![r] = c], UNCHANGED <<row, directory, madeFor>>,
           uploaded \subseteq uploaded', uploaded' \subseteq Submissions \X Nat
    PROVE  PostsInv'
<1>1. CallFits(r, c, uploaded')
  BY CallFacts DEF CallFits
<1>2. QED
  BY <1>1, CallFacts, StepWithoutRows

LEMMA FailsInv ==
    ASSUME PostsInv, NEW r \in Submissions, call[r].pc # "idle",
           Step(r, [call[r] EXCEPT !.pc = "failed"]), UNCHANGED <<uploaded, row, directory, madeFor>>
    PROVE  PostsInv'
<1> DEFINE c == [call[r] EXCEPT !.pc = "failed"]
<1>1. c \in CallState /\ c.pc = "failed" /\ c.batch = call[r].batch /\ c.targets = call[r].targets /\ c.op = call[r].op
  BY CallFacts DEF CallState
<1>2. call' = [call EXCEPT ![r] = c]
  BY DEF Step
<1> HIDE DEF c
<1>3. QED
  BY <1>1, <1>2, CallFacts, FailedKeeps

\* What becomes of the verification of a post.
Verdicts == {"no", "digest", "signature", "uploaded", "unsigned", "refused"}

\* The stages stay a sequence.
LEMMA StagesTyped ==
    ASSUME NEW stages \in Seq(Verdicts), NEW i, NEW stage \in Verdicts
    PROVE  /\ [stages EXCEPT ![i] = stage] \in Seq(Verdicts)
           /\ DOMAIN [stages EXCEPT ![i] = stage] = DOMAIN stages
<1>1. CASE i \in 1..Len(stages)
  BY <1>1, ExceptSeq
<1>2. CASE i \notin 1..Len(stages)
  <2>1. [stages EXCEPT ![i] = stage] = stages
    BY <1>2
  <2>2. QED
    BY <2>1
<1>3. QED
  BY <1>1, <1>2

\* One of the posts of a request is refused, or comes to a stage it fits; if another
\* one has been refused, the request has failed already.
LEMMA VerifyInv ==
    ASSUME PostsInv, NEW r \in Submissions, NEW i \in 1..Len(call[r].batch),
           \/ ValidateDigest(r, i) \/ ValidateSignature(r, i) \/ UploadVerification(r, i)
           \/ VerificationFails(r, i)
    PROVE  PostsInv'
<1>1. /\ call[r] \in CallState /\ CallFits(r, call[r], uploaded) /\ call[r].pc \in {"verify", "failed"}
      /\ uploaded \subseteq Submissions \X Nat
  BY CallFacts DEF ValidateDigest, ValidateSignature, UploadVerification, VerificationFails, Verifying
<1>2. /\ call[r].batch \in Batches /\ DOMAIN call[r].batch = 1..Len(call[r].batch)
      /\ call[r].batch[i] \in Articles /\ i \in Nat
  BY <1>1, CarriedBySubmission DEF CallFits
<1>3. CASE Refused(r, i) /\ UNCHANGED <<uploaded, row, directory, madeFor>>
  <2> DEFINE c == [call[r] EXCEPT !.pc = "failed", !.verified[i] = "refused"]
             v == [call[r].verified EXCEPT ![i] = "refused"]
  <2>1. v \in Seq(Verdicts)
    BY <1>1, StagesTyped DEF CallState, Verdicts
  <2>2. c = [call[r] EXCEPT !.pc = "failed", !.verified = v]
    BY <1>1 DEF CallState
  <2>3. call' = [call EXCEPT ![r] = c]
    BY <1>3 DEF Refused, Step
  <2> HIDE DEF v, c
  <2>4. c \in CallState /\ c.pc = "failed" /\ c.batch = call[r].batch /\ c.targets = call[r].targets /\ c.op = call[r].op
    BY <1>1, <2>1, <2>2 DEF CallState, Verdicts
  <2>5. QED
    BY <1>1, <1>3, <2>3, <2>4, FailedKeeps
<1>4. ASSUME NEW stage \in {"digest", "signature", "uploaded", "unsigned"}, Verified(r, i, stage),
             call[r].pc = "verify" => StageFits(call[r].batch[i], stage),
             stage = "uploaded" => <<r, i>> \in uploaded',
             uploaded' = uploaded \/ uploaded' = uploaded \union {<<r, i>>},
             UNCHANGED <<row, directory, madeFor>>
      PROVE  PostsInv'
  <2> DEFINE c == [call[r] EXCEPT !.verified[i] = stage]
             v == [call[r].verified EXCEPT ![i] = stage]
  <2>1. v \in Seq(Verdicts) /\ DOMAIN v = DOMAIN call[r].verified
    BY <1>1, StagesTyped DEF CallState, Verdicts
  <2>2. \A k \in DOMAIN call[r].verified : v[k] = IF k = i THEN stage ELSE call[r].verified[k]
    OBVIOUS
  <2>3. /\ c \in CallState /\ c.pc = call[r].pc /\ c.batch = call[r].batch /\ c.targets = call[r].targets
        /\ c.verified = v /\ c.next = call[r].next /\ c.op = call[r].op
    <3>1. c = [call[r] EXCEPT !.verified = v]
      BY <1>1 DEF CallState
    <3> HIDE DEF v, c
    <3>2. QED
      BY <1>1, <2>1, <3>1 DEF CallState, Verdicts
  <2>4. call' = [call EXCEPT ![r] = c]
    BY <1>4 DEF Verified, Step
  <2>5. uploaded \subseteq uploaded' /\ uploaded' \subseteq Submissions \X Nat
    BY <1>1, <1>2, <1>4
  <2> HIDE DEF c, v
  <2>6. CASE call[r].pc = "failed"
    BY <1>1, <1>4, <2>3, <2>4, <2>5, <2>6, FailedKeeps
  <2>7. CASE call[r].pc = "verify"
    <3>1. DOMAIN v = DOMAIN call[r].batch /\ DOMAIN call[r].verified = DOMAIN call[r].batch
      BY <1>1, <2>1, <2>7 DEF CallFits
    <3>2. CallFits(r, c, uploaded')
      BY <1>1, <1>2, <1>4, <2>2, <2>3, <2>5, <2>7, <3>1 DEF CallFits
    <3>3. QED
      BY <1>1, <1>4, <2>3, <2>4, <2>5, <2>7, <3>2, CallFacts, StepWithoutRows
  <2>8. QED
    BY <1>1, <2>6, <2>7
<1>5. CASE ValidateDigest(r, i)
  <2>1. CASE Refused(r, i)
    BY <1>3, <1>5, <2>1 DEF ValidateDigest
  <2>2. CASE Verified(r, i, "unsigned") /\ call[r].batch[i].digest = "none" /\ call[r].batch[i].signature = "none"
    BY <1>4, <1>5, <2>2 DEF ValidateDigest, StageFits
  <2>3. CASE Verified(r, i, "digest") /\ call[r].batch[i].digest = "good"
    BY <1>4, <1>5, <2>3 DEF ValidateDigest, StageFits
  <2>4. QED
    BY <1>5, <2>1, <2>2, <2>3 DEF ValidateDigest
<1>6. CASE ValidateSignature(r, i)
  <2>1. CASE Refused(r, i)
    BY <1>3, <1>6, <2>1 DEF ValidateSignature
  <2>2. CASE Verified(r, i, "signature") /\ call[r].batch[i].signature = "good"
    <3>1. call[r].pc = "verify" => StageFits(call[r].batch[i], "signature")
      BY <1>1, <1>2, <1>6, <2>2 DEF ValidateSignature, Verifying, CallFits, StageFits
    <3>2. QED
      BY <1>4, <1>6, <2>2, <3>1 DEF ValidateSignature
  <2>3. QED
    BY <1>6, <2>1, <2>2 DEF ValidateSignature
<1>7. CASE UploadVerification(r, i)
  <2>1. call[r].pc = "verify" => StageFits(call[r].batch[i], "uploaded")
    BY <1>1, <1>2, <1>7 DEF UploadVerification, Verifying, CallFits, StageFits
  <2>2. QED
    BY <1>4, <1>7, <2>1 DEF UploadVerification
<1>8. CASE VerificationFails(r, i)
  BY <1>3, <1>8 DEF VerificationFails
<1>9. QED
  BY <1>5, <1>6, <1>7, <1>8

\* The posts are checked when all are verified.
LEMMA CheckInv ==
    ASSUME PostsInv, NEW r \in Submissions, CheckArticles(r)
    PROVE  PostsInv'
<1>1. call[r] \in CallState /\ CallFits(r, call[r], uploaded) /\ call[r].pc = "verify"
  BY CallFacts DEF CheckArticles
<1>2. CASE ~ Checked(r)
  <2>1. Step(r, [call[r] EXCEPT !.pc = "failed"]) /\ UNCHANGED <<uploaded, row, directory, madeFor>>
    BY <1>1, <1>2 DEF CheckArticles
  <2>2. QED
    BY <1>1, <2>1, FailsInv
<1>3. CASE Checked(r)
  <2> DEFINE c == [call[r] EXCEPT !.pc = "rows"]
  <2>1. /\ c \in CallState /\ c.pc = "rows" /\ c.batch = call[r].batch /\ c.targets = call[r].targets
        /\ c.op = call[r].op /\ c.next = call[r].next
    BY <1>1 DEF CallState
  <2>2. call' = [call EXCEPT ![r] = c]
    BY <1>3 DEF CheckArticles, Step
  <2> HIDE DEF c
  <2>3. BatchPassed(r, c, uploaded)
    <3> SUFFICES ASSUME NEW i \in DOMAIN c.batch
                 PROVE  /\ c.batch[i].state \in Allows(c.op)
                        /\ c.batch[i].digest = c.batch[i].signature /\ c.batch[i].digest # "bad"
                        /\ c.batch[i].digest = "good" => <<r, i>> \in uploaded
      BY DEF BatchPassed
    <3>1. c.batch[i].state \in Allows(c.op)
      BY <1>3, <2>1 DEF Checked
    <3>2. call[r].verified[i] \in {"uploaded", "unsigned"}
      BY <1>1, <2>1 DEF CheckArticles, AllVerified, CallFits
    <3>3. /\ StageFits(c.batch[i], call[r].verified[i])
          /\ call[r].verified[i] = "uploaded" => <<r, i>> \in uploaded
      BY <1>1, <2>1 DEF CallFits
    <3>4. QED
      BY <3>1, <3>2, <3>3 DEF StageFits
  <2>4. c.next = 1 /\ Len(c.batch) > 0 /\ Len(c.batch) \in Nat
    BY <1>1, <2>1, CarriedBySubmission DEF CallFits
  <2>5. CallFits(r, c, uploaded)
    BY <1>1, <2>1, <2>3, <2>4 DEF CallFits
  <2>6. QED
    BY <1>1, <2>1, <2>2, <2>5, CallFacts, StepWithoutRows DEF CheckArticles
<1>4. QED
  BY <1>2, <1>3

\* The rows of the next post.
LEMMA InsertInv ==
    ASSUME PostsInv, NEW r \in Submissions, InsertRows(r)
    PROVE  PostsInv'
<1> DEFINE c == call[r]
           new == [j \in 1..Len(c.targets) |->
                     [call |-> r, post |-> c.next, config |-> c.targets[j], key |-> RowKey(c.batch[c.next]),
                      action |-> ActionOf(c.op), directory |-> 0]]
           d == IF c.next < Len(c.batch) THEN [c EXCEPT !.next = @ + 1]
                ELSE [c EXCEPT !.pc = "directory", !.next = 1]
<1>1. /\ c \in CallState /\ CallFits(r, c, uploaded) /\ c.pc = "rows"
      /\ row \in Seq(RowState)
  BY CallFacts DEF InsertRows
<1>2. /\ c.batch \in Seq(Articles) /\ c.targets \in Seq(ConfigIds) /\ c.next \in 1..Len(c.batch)
      /\ Len(c.targets) \in Nat /\ Len(c.targets) > 0 /\ BatchPassed(r, c, uploaded)
      /\ Len(c.batch) \in Nat
  BY <1>1, CarriedBySubmission DEF CallFits
<1>3. CASE ~ Elements(c.targets) \subseteq OwnConfigs
  <2>1. Step(r, [call[r] EXCEPT !.pc = "failed"]) /\ UNCHANGED <<uploaded, row, directory, madeFor>>
    BY <1>1, <1>3 DEF InsertRows
  <2>2. QED
    BY <1>1, <2>1, FailsInv
<1>4. CASE Elements(c.targets) \subseteq OwnConfigs
  <2>1. row' = row \o new /\ call' = [call EXCEPT ![r] = d] /\ UNCHANGED <<uploaded, directory, madeFor>>
    BY <1>4 DEF InsertRows, Step
  <2>2. \A j \in 1..Len(c.targets) : c.targets[j] \in OwnConfigs
    BY <1>4 DEF Elements
  <2>3. c.batch[c.next] \in Articles
    BY <1>2
  <2>4. RowKey(c.batch[c.next]) \in {KeyOf[t] : t \in Titles}
    BY <2>3 DEF RowKey, InfoTitle, Renamed, Articles
  <2>5. ActionOf(c.op) \in {"CREATE", "UPDATE", "DELETE"}
    BY DEF ActionOf
  <2>6. \A j \in 1..Len(c.targets) : new[j] \in RowState /\ new[j].call = r
    BY <1>2, <2>2, <2>4, <2>5, PostsAssumption DEF RowState
  <2>7. new \in Seq(RowState) /\ DOMAIN new = 1..Len(c.targets) /\ Len(new) = Len(c.targets)
    <3>1. DOMAIN new = 1..Len(c.targets)
      OBVIOUS
    <3>2. new = [j \in 1..Len(c.targets) |-> new[j]]
      OBVIOUS
    <3> HIDE DEF new
    <3>3. new \in [1..Len(c.targets) -> RowState]
      BY <2>6, <3>2
    <3>4. QED
      BY <1>2, <3>1, <3>3
  <2>8. d \in CallState /\ CallFits(r, d, uploaded) /\ d.pc \in {"rows", "directory"} /\ d.batch = c.batch /\ d.op = c.op
    <3>1. CASE c.next < Len(c.batch)
      <4>1. d \in CallState /\ d.pc = "rows" /\ d.next = c.next + 1 /\ d.batch = c.batch /\ d.targets = c.targets /\ d.op = c.op
        BY <1>1, <3>1 DEF CallState
      <4>2. CallFits(r, d, uploaded)
        <5> HIDE DEF d
        <5> QED BY <1>1, <1>2, <3>1, <4>1 DEF CallFits, BatchPassed
      <4>3. QED
        BY <4>1, <4>2
    <3>2. CASE ~ c.next < Len(c.batch)
      <4>1. d \in CallState /\ d.pc = "directory" /\ d.next = 1 /\ d.batch = c.batch /\ d.targets = c.targets /\ d.op = c.op
        BY <1>1, <3>2 DEF CallState
      <4>2. CallFits(r, d, uploaded)
        <5> HIDE DEF d
        <5> QED BY <1>1, <1>2, <1>4, <4>1 DEF CallFits, BatchPassed
      <4>3. QED
        BY <4>1, <4>2
    <3>3. QED
      BY <3>1, <3>2
  <2>9. HasRows(r, d, uploaded)
    <3> HIDE DEF d
    <3> QED BY <1>2, <2>8 DEF HasRows, BatchPassed
  <2> HIDE DEF new, d
  <2>10. row' \in Seq(RowState)
    BY <1>1, <2>1, <2>7
  <2>11. \A k \in DOMAIN row' : row'[k].call = r \/ \E m \in DOMAIN row : row[m].call = row'[k].call
    <3> SUFFICES ASSUME NEW k \in DOMAIN row', row'[k].call # r
                 PROVE  \E m \in DOMAIN row : row[m].call = row'[k].call
      OBVIOUS
    <3>1. Len(row') = Len(row) + Len(new) /\ k \in 1..Len(row')
      <4>1. Len(row \o new) = Len(row) + Len(new)
        BY <1>1, <2>7, ConcatProperties
      <4>2. DOMAIN row' = 1..Len(row')
        BY <2>10
      <4>3. QED
        BY <2>1, <4>1, <4>2
    <3>2. CASE k \in 1..Len(row)
      <4>1. k \in DOMAIN row /\ row'[k] = row[k]
        BY <1>1, <2>1, <2>7, <3>2
      <4>2. QED
        BY <4>1
    <3>3. CASE k \in (Len(row) + 1)..(Len(row) + Len(new))
      <4>1. row'[k] = new[k - Len(row)] /\ k - Len(row) \in 1..Len(c.targets)
        BY <1>1, <2>1, <2>7, <3>3
      <4>2. QED
        BY <2>6, <4>1
    <3>4. QED
      BY <1>1, <2>7, <3>1, <3>2, <3>3
  <2>12. QED
    BY <1>1, <2>1, <2>8, <2>9, <2>10, <2>11, CallFacts, StepKeeps
<1>5. QED
  BY <1>3, <1>4

\* The key of the next site is read, and named if it is absent.
LEMMA DirectoryInv ==
    ASSUME PostsInv, NEW r \in Submissions, ReadDirectory(r) \/ NameDirectory(r)
    PROVE  PostsInv'
<1>1. /\ call[r] \in CallState /\ CallFits(r, call[r], uploaded) /\ call[r].pc \in {"directory", "generate"}
      /\ directory \in [OwnConfigs -> 0..MaxDirectories]
      /\ madeFor \in Seq(OwnConfigs) /\ Len(madeFor) <= MaxDirectories
  BY CallFacts DEF ReadDirectory, NameDirectory
<1>2. /\ call[r].targets[call[r].next] \in OwnConfigs
      /\ call[r].next \in 1..Len(call[r].targets) /\ Elements(call[r].targets) \subseteq OwnConfigs
  BY <1>1 DEF CallFits, Elements
<1>3. ASSUME NEW pc \in {"generate", "link"}, NEW e \in 0..MaxDirectories,
             Step(r, [call[r] EXCEPT !.pc = pc, !.directory = e]),
             UNCHANGED <<uploaded, row>>,
             directory' \in [OwnConfigs -> 0..MaxDirectories],
             madeFor' \in Seq(OwnConfigs), Len(madeFor') <= MaxDirectories
      PROVE  PostsInv'
  <2> DEFINE c == [call[r] EXCEPT !.pc = pc, !.directory = e]
  <2>1. /\ c \in CallState /\ c.pc = pc /\ c.batch = call[r].batch /\ c.targets = call[r].targets
        /\ c.op = call[r].op /\ c.next = call[r].next
    BY <1>1 DEF CallState
  <2>2. call' = [call EXCEPT ![r] = c]
    BY <1>3 DEF Step
  <2> HIDE DEF c
  <2>3. CallFits(r, c, uploaded)
    BY <1>1, <1>2, <2>1 DEF CallFits, BatchPassed
  <2>4. QED
    BY <1>1, <1>3, <2>1, <2>2, <2>3, CallFacts, StepWithoutRows
<1>4. CASE ReadDirectory(r)
  <2>1. directory[call[r].targets[call[r].next]] \in 0..MaxDirectories
    BY <1>1, <1>2
  <2>2. QED
    BY <1>1, <1>3, <1>4, <2>1 DEF ReadDirectory
<1>5. CASE NameDirectory(r)
  <2>1. Len(madeFor) + 1 \in 0..MaxDirectories
    BY <1>1, <1>5, PostsAssumption DEF NameDirectory
  <2>2. /\ madeFor' \in Seq(OwnConfigs) /\ Len(madeFor') <= MaxDirectories
        /\ directory' \in [OwnConfigs -> 0..MaxDirectories]
    BY <1>1, <1>2, <1>5, <2>1 DEF NameDirectory
  <2>3. QED
    BY <1>3, <1>5, <2>1, <2>2 DEF NameDirectory
<1>6. QED
  BY <1>4, <1>5

\* The rows of the next site are linked.
LEMMA LinkInv ==
    ASSUME PostsInv, NEW r \in Submissions, LinkRows(r)
    PROVE  PostsInv'
<1> DEFINE c == call[r]
           d == IF c.next < Len(c.targets) THEN [c EXCEPT !.pc = "directory", !.next = @ + 1]
                ELSE [c EXCEPT !.pc = "returned"]
<1>1. c \in CallState /\ CallFits(r, c, uploaded) /\ c.pc = "link" /\ row \in Seq(RowState)
  BY CallFacts DEF LinkRows
<1>2. /\ c.next \in 1..Len(c.targets) /\ Elements(c.targets) \subseteq OwnConfigs
      /\ BatchPassed(r, c, uploaded) /\ Len(c.targets) \in Nat
  BY <1>1, CarriedBySubmission DEF CallFits
<1>3. call' = [call EXCEPT ![r] = d] /\ UNCHANGED <<uploaded, directory, madeFor>>
  BY DEF LinkRows, Step
<1>4. d \in CallState /\ CallFits(r, d, uploaded) /\ HasRows(r, d, uploaded)
  <2>1. CASE c.next < Len(c.targets)
    <3>1. d \in CallState /\ d.pc = "directory" /\ d.next = c.next + 1 /\ d.batch = c.batch /\ d.targets = c.targets /\ d.op = c.op
      <4>1. d = [c EXCEPT !.pc = "directory", !.next = c.next + 1] /\ c.next + 1 \in Nat
        BY <1>2, <2>1
      <4> HIDE DEF d
      <4>2. QED
        BY <1>1, <4>1 DEF CallState
    <3> HIDE DEF d
    <3>2. QED
      BY <1>1, <1>2, <2>1, <3>1 DEF CallFits, BatchPassed, HasRows
  <2>2. CASE ~ c.next < Len(c.targets)
    <3>1. d \in CallState /\ d.pc = "returned" /\ d.batch = c.batch /\ d.targets = c.targets /\ d.op = c.op
      BY <1>1, <2>2 DEF CallState
    <3> HIDE DEF d
    <3>2. QED
      BY <1>1, <1>2, <3>1 DEF CallFits, BatchPassed, HasRows
  <2>3. QED
    BY <2>1, <2>2
<1>5. /\ row' \in Seq(RowState) /\ DOMAIN row' = DOMAIN row
      /\ \A k \in DOMAIN row' : row'[k].call = row[k].call
  <2>1. DOMAIN row' = DOMAIN row
    BY DEF LinkRows
  <2>2. c.directory \in 0..MaxDirectories
    BY <1>1 DEF CallState
  <2>3. ASSUME NEW k \in DOMAIN row
        PROVE  row'[k] \in RowState /\ row'[k].call = row[k].call
    <3>1. row[k] \in RowState
      BY <1>1
    <3>2. row'[k] = row[k] \/ row'[k] = [row[k] EXCEPT !.directory = c.directory]
      BY <2>3 DEF LinkRows
    <3>3. QED
      BY <2>2, <3>1, <3>2 DEF RowState
  <2>4. row' = [k \in 1..Len(row) |-> row'[k]]
    BY <1>1, <2>1 DEF LinkRows
  <2>5. QED
    BY <1>1, <2>1, <2>3, <2>4
<1> HIDE DEF d
<1>6. QED
  BY <1>1, <1>3, <1>4, <1>5, CallFacts, StepKeeps

LEMMA PostsNextInv == PostsInv /\ [PostsNext]_postsVars => PostsInv'
<1> SUFFICES ASSUME PostsInv, [PostsNext]_postsVars PROVE PostsInv'
  OBVIOUS
<1>1. ASSUME NEW r \in Submissions, CallStep(r)
      PROVE  PostsInv'
  <2>1. CASE CallFails(r)
    BY <2>1, FailsInv DEF CallFails
  <2>2. QED
    BY <1>1, <2>1, SubmitInv, CheckInv, InsertInv, DirectoryInv, LinkInv, VerifyInv DEF CallStep
<1>2. ASSUME NEW c \in OwnConfigs, DropDirectory(c)
      PROVE  PostsInv'
  <2>1. directory' \in [OwnConfigs -> 0..MaxDirectories]
    BY <1>2, PostsAssumption DEF PostsInv, PostsTypeOK, DropDirectory
  <2>2. QED
    BY <1>2, <2>1 DEF PostsInv, PostsTypeOK, DropDirectory
<1>3. CASE UNCHANGED postsVars
  BY <1>3 DEF postsVars, PostsInv, PostsTypeOK
<1>4. QED
  BY <1>1, <1>2, <1>3 DEF PostsNext

\* Every request, row and key keeps its type, for any number of each.
THEOREM PostsTypeCorrect == PostsSpec => []PostsTypeOK
<1>1. PostsInv => PostsTypeOK
  BY DEF PostsInv
<1>2. QED
  BY PostsInitInv, PostsNextInv, <1>1, PTL DEF PostsSpec

\* createPostSiteConfigRelas is only reached when every post of the request has been
\* verified and checked: no row is there for a request one of whose posts has half a
\* signature, a bad one or a wrong state, however its verifications and those of other
\* requests interleave.
THEOREM RowsPassed == PostsSpec => []RowsAreOfPassedPosts
<1>1. PostsInv => RowsAreOfPassedPosts
  BY DEF PostsInv, HasRows, BatchPassed, RowsAreOfPassedPosts
<1>2. QED
  BY PostsInitInv, PostsNextInv, <1>1, PTL DEF PostsSpec

-----------------------------------------------------------------------------
(* The rows a client is given. *)

\* The rows of request r among those inserted.
OfRequest(rows, r) == {k \in DOMAIN rows : rows[k].call = r}

\* d is a directory named for config x.
IsNamedFor(made, d, x) == d \in 1..Len(made) /\ made[d] = x

\* There is one row for each of the first n posts of c and each of its sites.
Complete(rows, r, c, n) ==
    /\ Cardinality(OfRequest(rows, r)) = n * Len(c.targets)
    /\ \A i \in 1..n, t \in Elements(c.targets) :
          \E k \in OfRequest(rows, r) : rows[k].post = i /\ rows[k].config = t

\* A row of request c is for one of its posts, under the key its task looks for, and
\* for one of its sites.
RowFits(a, c) ==
    /\ a.post \in 1..Len(c.batch) /\ a.config \in Elements(c.targets)
    /\ a.key = RowKey(c.batch[a.post])

Linking == {"directory", "generate", "link"}

\* The rows of request r at the statement c has come to: all those of the posts it
\* has passed, and linked for the sites it has passed.
RowsFit(rows, made, r, c) ==
    /\ c.pc # "idle" => \A k \in OfRequest(rows, r) : RowFits(rows[k], c)
    /\ c.pc = "rows" => Complete(rows, r, c, c.next - 1)
    /\ c.pc \in Linking \union {"returned"} => Complete(rows, r, c, Len(c.batch))
    /\ c.pc \in Linking =>
         \A j \in 1..(c.next - 1), k \in OfRequest(rows, r) :
            rows[k].config = c.targets[j] => rows[k].directory # 0
    /\ c.pc = "returned" => \A k \in OfRequest(rows, r) : rows[k].directory # 0
    /\ c.pc = "link" => IsNamedFor(made, c.directory, c.targets[c.next])

\* The inductive invariant, beside PostsInv.
LinkedInv ==
    /\ \A x \in OwnConfigs : directory[x] # 0 => IsNamedFor(madeFor, directory[x], x)
    /\ \A k \in DOMAIN row :
          row[k].directory # 0 => IsNamedFor(madeFor, row[k].directory, row[k].config)
    /\ \A r \in Submissions : RowsFit(row, madeFor, r, call[r])

\* What later steps leave of a row: at most it is linked, to another directory.
Stays(a, b) ==
    /\ b.post = a.post /\ b.config = a.config /\ b.key = a.key
    /\ a.directory # 0 => b.directory # 0

\* The names given before are kept.
NamesStay(made, more) == \A d, x : IsNamedFor(made, d, x) => IsNamedFor(more, d, x)

\* What fits a request fits it still when its rows stay.
LEMMA RowsFitStill ==
    ASSUME NEW rows, NEW others, NEW made, NEW more, NEW r, NEW c,
           RowsFit(rows, made, r, c), NamesStay(made, more),
           OfRequest(others, r) = OfRequest(rows, r),
           \A k \in OfRequest(rows, r) : Stays(rows[k], others[k])
    PROVE  RowsFit(others, more, r, c)
<1>1. \A n : Complete(rows, r, c, n) => Complete(others, r, c, n)
  BY DEF Complete, Stays
<1>2. \A k \in OfRequest(rows, r) : RowFits(rows[k], c) => RowFits(others[k], c)
  BY DEF RowFits, Stays
<1>3. c.pc \in Linking =>
         \A j \in 1..(c.next - 1), k \in OfRequest(others, r) :
            others[k].config = c.targets[j] => others[k].directory # 0
  BY DEF RowsFit, Stays
<1>4. c.pc = "returned" => \A k \in OfRequest(others, r) : others[k].directory # 0
  BY DEF RowsFit, Stays
<1>5. c.pc = "link" => IsNamedFor(more, c.directory, c.targets[c.next])
  BY DEF RowsFit, NamesStay
<1>6. c.pc # "idle" => \A k \in OfRequest(others, r) : RowFits(others[k], c)
  BY <1>2 DEF RowsFit
<1>7. c.pc = "rows" => Complete(others, r, c, c.next - 1)
  BY <1>1 DEF RowsFit
<1>8. c.pc \in Linking \union {"returned"} => Complete(others, r, c, Len(c.batch))
  BY <1>1 DEF RowsFit
<1>9. QED
  BY <1>3, <1>4, <1>5, <1>6, <1>7, <1>8 DEF RowsFit

\* A step of one request keeps the invariant if its own rows fit, and those of the
\* others stay.
LEMMA LinkedStep ==
    ASSUME PostsInv, LinkedInv, NEW r \in Submissions, NEW c,
           call' = [call EXCEPT ![r] = c], NamesStay(madeFor, madeFor'),
           \A x \in OwnConfigs : directory'[x] # 0 => IsNamedFor(madeFor', directory'[x], x),
           \A k \in DOMAIN row' :
              row'[k].directory # 0 => IsNamedFor(madeFor', row'[k].directory, row'[k].config),
           \A q \in Submissions \ {r} :
              /\ OfRequest(row', q) = OfRequest(row, q)
              /\ \A k \in OfRequest(row, q) : Stays(row[k], row'[k]),
           RowsFit(row', madeFor', r, c)
    PROVE  LinkedInv'
<1>1. \A q \in Submissions : call'[q] = IF q = r THEN c ELSE call[q]
  BY DEF PostsInv, PostsTypeOK
<1>2. ASSUME NEW q \in Submissions
      PROVE  RowsFit(row', madeFor', q, call'[q])
  <2>1. CASE q = r
    BY <1>1, <2>1
  <2>2. CASE q # r
    <3>1. RowsFit(row, madeFor, q, call[q]) /\ call'[q] = call[q] /\ q \in Submissions \ {r}
      BY <1>1, <2>2 DEF LinkedInv
    <3>2. /\ OfRequest(row', q) = OfRequest(row, q)
          /\ \A k \in OfRequest(row, q) : Stays(row[k], row'[k])
      BY <3>1
    <3>3. QED
      BY <3>1, <3>2, RowsFitStill
  <2>3. QED
    BY <2>1, <2>2
<1>3. QED
  BY <1>2 DEF LinkedInv

\* A step that inserts and links no rows, and gives no names.
LEMMA LinkedCall ==
    ASSUME PostsInv, LinkedInv, NEW r \in Submissions, NEW c,
           call' = [call EXCEPT ![r] = c], UNCHANGED <<row, directory, madeFor>>,
           RowsFit(row, madeFor, r, c)
    PROVE  LinkedInv'
<1>1. NamesStay(madeFor, madeFor')
  BY DEF NamesStay
<1>2. \A q \in Submissions \ {r} :
         /\ OfRequest(row', q) = OfRequest(row, q)
         /\ \A k \in OfRequest(row, q) : Stays(row[k], row'[k])
  BY DEF Stays
<1>3. /\ \A x \in OwnConfigs : directory'[x] # 0 => IsNamedFor(madeFor', directory'[x], x)
      /\ \A k \in DOMAIN row' :
            row'[k].directory # 0 => IsNamedFor(madeFor', row'[k].directory, row'[k].config)
  BY DEF LinkedInv
<1>4. RowsFit(row', madeFor', r, c)
  OBVIOUS
<1>5. QED
  BY <1>1, <1>2, <1>3, <1>4, LinkedStep

LEMMA LinkedInit == PostsInit => LinkedInv
  BY DEF PostsInit, LinkedInv, RowsFit, OfRequest, NewCall, Linking

\* A request that does not run has no rows, or has all it will ever have.
LEMMA NoRowsYet ==
    ASSUME PostsInv, NEW r \in Submissions, call[r].pc \in {"idle", "verify"}
    PROVE  OfRequest(row, r) = {}
  BY DEF PostsInv, HasRows, OfRequest

LEMMA SubmitLinked ==
    ASSUME PostsInv, LinkedInv, NEW r \in Submissions, Submit(r)
    PROVE  LinkedInv'
<1>1. PICK op \in Operations, batch \in Batches, targets \in Targets :
        Step(r, [NewCall EXCEPT !.pc = "verify", !.op = op, !.batch = batch, !.targets = targets,
                   !.verified = [i \in 1..Len(batch) |-> "no"]])
  BY DEF Submit
<1> DEFINE c == [NewCall EXCEPT !.pc = "verify", !.op = op, !.batch = batch, !.targets = targets,
                   !.verified = [i \in 1..Len(batch) |-> "no"]]
<1>2. c.pc = "verify" /\ call' = [call EXCEPT ![r] = c]
  BY <1>1 DEF Step, NewCall
<1> HIDE DEF c
<1>3. RowsFit(row, madeFor, r, c)
  BY <1>2, NoRowsYet DEF RowsFit, Linking, Submit
<1>4. QED
  BY <1>2, <1>3, LinkedCall DEF Submit

\* A request that fails, or has failed, keeps its rows.
LEMMA FailedLinked ==
    ASSUME PostsInv, LinkedInv, NEW r \in Submissions, call[r].pc # "idle",
           NEW c, c.pc = "failed", c.batch = call[r].batch, c.targets = call[r].targets,
           call' = [call EXCEPT ![r] = c], UNCHANGED <<row, directory, madeFor>>
    PROVE  LinkedInv'
<1>1. \A k \in OfRequest(row, r) : RowFits(row[k], c)
  BY DEF LinkedInv, RowsFit, RowFits
<1>2. RowsFit(row, madeFor, r, c)
  BY <1>1 DEF RowsFit, Linking
<1>3. QED
  BY <1>2, LinkedCall

LEMMA FailsLinked ==
    ASSUME PostsInv, LinkedInv, NEW r \in Submissions, call[r].pc # "idle",
           Step(r, [call[r] EXCEPT !.pc = "failed"]), UNCHANGED <<row, directory, madeFor>>
    PROVE  LinkedInv'
<1> DEFINE c == [call[r] EXCEPT !.pc = "failed"]
<1>1. c.pc = "failed" /\ c.batch = call[r].batch /\ c.targets = call[r].targets
  BY CallFacts DEF CallState
<1>2. call' = [call EXCEPT ![r] = c]
  BY DEF Step
<1> HIDE DEF c
<1>3. QED
  BY <1>1, <1>2, FailedLinked

LEMMA VerifyLinked ==
    ASSUME PostsInv, LinkedInv, NEW r \in Submissions, NEW i \in 1..Len(call[r].batch),
           \/ ValidateDigest(r, i) \/ ValidateSignature(r, i) \/ UploadVerification(r, i)
           \/ VerificationFails(r, i)
    PROVE  LinkedInv'
<1>1. call[r].pc \in {"verify", "failed"} /\ UNCHANGED <<row, directory, madeFor>>
  BY DEF ValidateDigest, ValidateSignature, UploadVerification, VerificationFails, Verifying
<1>2. ASSUME NEW c, call' = [call EXCEPT ![r] = c], c.pc \in {call[r].pc, "failed"},
             c.batch = call[r].batch, c.targets = call[r].targets
      PROVE  LinkedInv'
  <2>1. CASE c.pc = "failed"
    BY <1>1, <1>2, <2>1, FailedLinked
  <2>2. CASE c.pc = "verify"
    <3>1. RowsFit(row, madeFor, r, c)
      BY <1>1, <1>2, <2>2, NoRowsYet DEF RowsFit, Linking
    <3>2. QED
      BY <1>1, <1>2, <3>1, LinkedCall
  <2>3. QED
    BY <1>1, <1>2, <2>1, <2>2
<1>3. CASE Refused(r, i)
  <2> DEFINE c == [call[r] EXCEPT !.pc = "failed", !.verified[i] = "refused"]
  <2>1. c.pc = "failed" /\ c.batch = call[r].batch /\ c.targets = call[r].targets
    BY CallFacts DEF CallState
  <2>2. call' = [call EXCEPT ![r] = c]
    BY <1>3 DEF Refused, Step
  <2> HIDE DEF c
  <2>3. QED
    BY <1>2, <2>1, <2>2
<1>4. ASSUME NEW stage, Verified(r, i, stage)
      PROVE  LinkedInv'
  <2> DEFINE c == [call[r] EXCEPT !.verified[i] = stage]
  <2>1. c.pc = call[r].pc /\ c.batch = call[r].batch /\ c.targets = call[r].targets
    BY CallFacts DEF CallState
  <2>2. call' = [call EXCEPT ![r] = c]
    BY <1>4 DEF Verified, Step
  <2> HIDE DEF c
  <2>3. QED
    BY <1>2, <2>1, <2>2
<1>5. QED
  BY <1>3, <1>4 DEF ValidateDigest, ValidateSignature, UploadVerification, VerificationFails

LEMMA CheckLinked ==
    ASSUME PostsInv, LinkedInv, NEW r \in Submissions, CheckArticles(r)
    PROVE  LinkedInv'
<1>1. call[r].pc = "verify" /\ call[r] \in CallState /\ CallFits(r, call[r], uploaded)
  BY CallFacts DEF CheckArticles
<1>2. ASSUME NEW pc \in {"rows", "failed"}, Step(r, [call[r] EXCEPT !.pc = pc])
      PROVE  LinkedInv'
  <2> DEFINE c == [call[r] EXCEPT !.pc = pc]
  <2>1. c.pc = pc /\ c.next = 1 /\ c.targets = call[r].targets /\ call' = [call EXCEPT ![r] = c]
    BY <1>1, <1>2 DEF Step, CallState, CallFits
  <2> HIDE DEF c
  <2>2. Complete(row, r, c, 0)
    <3>1. Cardinality(OfRequest(row, r)) = 0
      BY <1>1, NoRowsYet, FS_EmptySet
    <3>2. Len(c.targets) \in Nat
      BY <1>1, <2>1, CarriedBySubmission DEF CallFits
    <3>3. 0 * Len(c.targets) = 0 /\ 1..0 = {}
      BY <3>2
    <3>4. QED
      BY <3>1, <3>3 DEF Complete
  <2>3. RowsFit(row, madeFor, r, c)
    BY <1>1, <2>1, <2>2, NoRowsYet DEF RowsFit, Linking
  <2>4. QED
    BY <2>1, <2>3, LinkedCall DEF CheckArticles
<1>3. QED
  BY <1>2 DEF CheckArticles

\* The rows appended for one request are added to its own, and to no other's.
LEMMA AppendedRows ==
    ASSUME NEW rows \in Seq(RowState), NEW new \in Seq(RowState), NEW r,
           \A j \in 1..Len(new) : new[j].call = r
    PROVE  /\ \A k \in 1..Len(rows) : (rows \o new)[k] = rows[k]
           /\ \A j \in 1..Len(new) : (rows \o new)[Len(rows) + j] = new[j]
           /\ OfRequest(rows \o new, r) = OfRequest(rows, r) \union (Len(rows) + 1)..(Len(rows) + Len(new))
           /\ \A q : q # r => OfRequest(rows \o new, q) = OfRequest(rows, q)
           /\ Cardinality(OfRequest(rows \o new, r)) = Cardinality(OfRequest(rows, r)) + Len(new)
<1> DEFINE all == rows \o new
           added == (Len(rows) + 1)..(Len(rows) + Len(new))
<1>1. /\ Len(rows) \in Nat /\ Len(new) \in Nat
      /\ all \in Seq(RowState) /\ Len(all) = Len(rows) + Len(new)
      /\ \A k \in 1..(Len(rows) + Len(new)) :
            all[k] = IF k <= Len(rows) THEN rows[k] ELSE new[k - Len(rows)]
  BY ConcatProperties
<1>2. DOMAIN all = 1..(Len(rows) + Len(new)) /\ DOMAIN rows = 1..Len(rows)
  BY <1>1
<1> HIDE DEF all
<1>3. \A k \in 1..Len(rows) : all[k] = rows[k]
  BY <1>1
<1>4. \A j \in 1..Len(new) : all[Len(rows) + j] = new[j]
  BY <1>1, SMTT(30)
<1>5. \A k \in added : all[k].call = r
  BY <1>1
<1>6. DOMAIN all = DOMAIN rows \union added
  BY <1>1, <1>2
<1>7. OfRequest(all, r) = OfRequest(rows, r) \union added
  BY <1>2, <1>3, <1>5, <1>6 DEF OfRequest
<1>8. \A q : q # r => OfRequest(all, q) = OfRequest(rows, q)
  BY <1>2, <1>3, <1>5, <1>6 DEF OfRequest
<1>9. IsFiniteSet(OfRequest(rows, r)) /\ Cardinality(OfRequest(rows, r)) \in Nat
  <2>1. IsFiniteSet(1..Len(rows)) /\ OfRequest(rows, r) \in SUBSET (1..Len(rows))
    BY <1>1, <1>2, FS_Interval DEF OfRequest
  <2>2. IsFiniteSet(OfRequest(rows, r))
    BY <2>1, FS_Subset
  <2>3. QED
    BY <2>2, FS_CardinalityType
<1>10. IsFiniteSet(added) /\ Cardinality(added) = Len(new)
  <2>1. Len(rows) + 1 \in Int /\ Len(rows) + Len(new) \in Int
    BY <1>1
  <2>2. /\ IsFiniteSet(added)
        /\ Cardinality(added) = IF Len(rows) + 1 > Len(rows) + Len(new) THEN 0
                                ELSE (Len(rows) + Len(new)) - (Len(rows) + 1) + 1
    BY <2>1, FS_Interval
  <2>3. QED
    BY <1>1, <2>2
<1>11. OfRequest(rows, r) \intersect added = {}
  BY <1>1, <1>2 DEF OfRequest
<1>12. Cardinality(OfRequest(rows, r) \union added) = Cardinality(OfRequest(rows, r)) + Len(new)
  <2> HIDE DEF added
  <2>1. Cardinality(OfRequest(rows, r) \union added)
          = Cardinality(OfRequest(rows, r)) + Cardinality(added) - Cardinality(OfRequest(rows, r) \intersect added)
    BY <1>9, <1>10, FS_Union
  <2>2. Cardinality(OfRequest(rows, r) \intersect added) = 0
    BY <1>11, FS_EmptySet
  <2>3. QED
    BY <1>1, <1>9, <1>10, <2>1, <2>2
<1>13. QED
  BY <1>3, <1>4, <1>7, <1>8, <1>12 DEF all

LEMMA InsertLinked ==
    ASSUME PostsInv, LinkedInv, NEW r \in Submissions, InsertRows(r)
    PROVE  LinkedInv'
<1> DEFINE c == call[r]
           new == [j \in 1..Len(c.targets) |->
                     [call |-> r, post |-> c.next, config |-> c.targets[j], key |-> RowKey(c.batch[c.next]),
                      action |-> ActionOf(c.op), directory |-> 0]]
           d == IF c.next < Len(c.batch) THEN [c EXCEPT !.next = @ + 1]
                ELSE [c EXCEPT !.pc = "directory", !.next = 1]
<1>1. /\ c \in CallState /\ CallFits(r, c, uploaded) /\ c.pc = "rows" /\ row \in Seq(RowState)
      /\ RowsFit(row, madeFor, r, c)
  BY CallFacts DEF InsertRows, LinkedInv
<1>2. /\ c.batch \in Seq(Articles) /\ c.targets \in Seq(ConfigIds) /\ c.next \in 1..Len(c.batch)
      /\ Len(c.targets) \in Nat /\ Len(c.batch) \in Nat
  BY <1>1, CarriedBySubmission DEF CallFits
<1>3. CASE ~ Elements(c.targets) \subseteq OwnConfigs
  <2>1. Step(r, [call[r] EXCEPT !.pc = "failed"]) /\ UNCHANGED <<row, directory, madeFor>>
    BY <1>1, <1>3 DEF InsertRows
  <2>2. QED
    BY <1>1, <2>1, FailsLinked
<1>4. CASE Elements(c.targets) \subseteq OwnConfigs
  <2>1. row' = row \o new /\ call' = [call EXCEPT ![r] = d] /\ UNCHANGED <<uploaded, directory, madeFor>>
    BY <1>4 DEF InsertRows, Step
  <2>2. /\ d.batch = c.batch /\ d.targets = c.targets
        /\ \/ d.pc = "rows" /\ d.next = c.next + 1
           \/ d.pc = "directory" /\ d.next = 1 /\ c.next = Len(c.batch)
    <3>1. CASE c.next < Len(c.batch)
      BY <1>1, <3>1 DEF CallState
    <3>2. CASE ~ c.next < Len(c.batch)
      <4>1. d.pc = "directory" /\ d.next = 1 /\ d.batch = c.batch /\ d.targets = c.targets
        BY <1>1, <3>2 DEF CallState
      <4>2. QED
        BY <1>2, <3>2, <4>1
    <3>3. QED
      BY <3>1, <3>2
  <2>3. \A j \in 1..Len(c.targets) :
           /\ new[j].call = r /\ new[j].post = c.next /\ new[j].config = c.targets[j]
           /\ new[j].key = RowKey(c.batch[c.next]) /\ new[j].directory = 0
    OBVIOUS
  <2>4. new \in Seq(RowState) /\ Len(new) = Len(c.targets)
    <3>1. RowKey(c.batch[c.next]) \in {KeyOf[t] : t \in Titles}
      <4>1. c.batch[c.next] \in Articles
        BY <1>2
      <4>2. QED
        BY <4>1 DEF RowKey, InfoTitle, Renamed, Articles
    <3>2. ActionOf(c.op) \in {"CREATE", "UPDATE", "DELETE"}
      BY DEF ActionOf
    <3>3. \A j \in 1..Len(c.targets) : new[j] \in RowState
      BY <1>2, <1>4, <3>1, <3>2, PostsAssumption DEF RowState, Elements
    <3>4. DOMAIN new = 1..Len(c.targets) /\ new = [j \in 1..Len(c.targets) |-> new[j]]
      OBVIOUS
    <3> HIDE DEF new
    <3>5. new \in [1..Len(c.targets) -> RowState]
      BY <3>3, <3>4
    <3>6. QED
      BY <1>2, <3>4, <3>5
  <2> HIDE DEF new, d
  <2> DEFINE n == Len(row)
  <2>5. /\ \A k \in 1..n : row'[k] = row[k]
        /\ \A j \in 1..Len(new) : row'[n + j] = new[j]
        /\ OfRequest(row', r) = OfRequest(row, r) \union (n + 1)..(n + Len(new))
        /\ \A q : q # r => OfRequest(row', q) = OfRequest(row, q)
        /\ Cardinality(OfRequest(row', r)) = Cardinality(OfRequest(row, r)) + Len(new)
    <3>1. \A j \in 1..Len(new) : new[j].call = r
      BY <2>3, <2>4
    <3>2. /\ \A k \in 1..Len(row) : (row \o new)[k] = row[k]
          /\ \A j \in 1..Len(new) : (row \o new)[Len(row) + j] = new[j]
          /\ OfRequest(row \o new, r)
               = OfRequest(row, r) \union (Len(row) + 1)..(Len(row) + Len(new))
          /\ \A q : q # r => OfRequest(row \o new, q) = OfRequest(row, q)
          /\ Cardinality(OfRequest(row \o new, r)) = Cardinality(OfRequest(row, r)) + Len(new)
      <4>1. row \in Seq(RowState) /\ new \in Seq(RowState)
        BY <1>1, <2>4
      <4> HIDE DEF c
      <4>2. QED
        BY <3>1, <4>1, AppendedRows, ZenonT(60)
    <3>3. QED
      BY <2>1, <3>2
  <2>6. n \in Nat /\ DOMAIN row = 1..n /\ DOMAIN row' = 1..(n + Len(new)) /\ Len(new) \in Nat
    <3>1. Len(row \o new) = n + Len(new) /\ row \o new \in Seq(RowState)
      BY <1>1, <2>4, ConcatProperties
    <3>2. QED
      BY <1>1, <1>2, <2>1, <2>4, <3>1
  <2> HIDE DEF n
  <2>7. \A k \in OfRequest(row, r) : row'[k] = row[k]
    BY <2>5, <2>6 DEF OfRequest
  <2>8. \A k \in OfRequest(row', r) : RowFits(row'[k], d)
    <3> SUFFICES ASSUME NEW k \in OfRequest(row', r) PROVE RowFits(row'[k], d)
      OBVIOUS
    <3>1. CASE k \in OfRequest(row, r)
      <4>1. RowFits(row[k], c)
        BY <1>1, <3>1 DEF RowsFit
      <4>2. QED
        BY <2>2, <2>7, <3>1, <4>1 DEF RowFits
    <3>2. CASE k \in (n + 1)..(n + Len(new))
      <4>1. PICK j \in 1..Len(new) : k = n + j
        <5>1. k - n \in 1..Len(new) /\ k = n + (k - n)
          BY <2>6, <3>2
        <5>2. QED
          BY <5>1
      <4>2. row'[k] = new[j]
        BY <2>5, <4>1
      <4>3. QED
        BY <1>2, <2>2, <2>3, <2>4, <4>2 DEF RowFits, Elements
    <3>3. QED
      BY <2>5, <3>1, <3>2
  <2>9. Complete(row', r, d, c.next)
    <3>1. Complete(row, r, c, c.next - 1)
      BY <1>1 DEF RowsFit
    <3>2. Cardinality(OfRequest(row', r)) = c.next * Len(d.targets)
      <4>1. Cardinality(OfRequest(row, r)) = (c.next - 1) * Len(c.targets)
        BY <3>1 DEF Complete
      <4>2. \A a \in Nat, m \in Nat : (a - 1) * m + m = a * m
        OBVIOUS
      <4>3. c.next \in Nat
        BY <1>2
      <4>4. (c.next - 1) * Len(c.targets) + Len(c.targets) = c.next * Len(c.targets)
        BY <1>2, <4>2, <4>3
      <4>5. QED
        BY <2>2, <2>4, <2>5, <4>1, <4>4
    <3>3. ASSUME NEW i \in 1..c.next, NEW t \in Elements(d.targets)
          PROVE  \E k \in OfRequest(row', r) : row'[k].post = i /\ row'[k].config = t
      <4>1. CASE i = c.next
        <5>1. PICK j \in 1..Len(new) : t = c.targets[j]
          BY <2>2, <2>4 DEF Elements
        <5>2. n + j \in OfRequest(row', r) /\ row'[n + j] = new[j]
          BY <2>5, <2>6
        <5>3. QED
          BY <2>3, <2>4, <4>1, <5>1, <5>2
      <4>2. CASE i # c.next
        <5>1. i \in 1..(c.next - 1) /\ t \in Elements(c.targets)
          BY <1>2, <2>2, <4>2
        <5>2. PICK k \in OfRequest(row, r) : row[k].post = i /\ row[k].config = t
          BY <3>1, <5>1 DEF Complete
        <5>3. QED
          BY <2>5, <2>7, <5>2
      <4>3. QED
        BY <4>1, <4>2
    <3>4. QED
      BY <3>2, <3>3 DEF Complete
  <2>10. RowsFit(row', madeFor', r, d)
    <3>1. CASE d.pc = "rows" /\ d.next = c.next + 1
      <4>1. d.next - 1 = c.next
        BY <1>2, <3>1
      <4>2. QED
        BY <2>8, <2>9, <3>1, <4>1 DEF RowsFit, Linking
    <3>2. CASE d.pc = "directory" /\ d.next = 1 /\ c.next = Len(c.batch)
      <4>1. 1..(d.next - 1) = {}
        BY <3>2
      <4>2. Complete(row', r, d, Len(d.batch))
        BY <2>2, <2>9, <3>2
      <4>3. QED
        BY <2>8, <3>2, <4>1, <4>2 DEF RowsFit, Linking
    <3>3. QED
      BY <2>2, <3>1, <3>2
  <2>11. \A q \in Submissions \ {r} :
            /\ OfRequest(row', q) = OfRequest(row, q)
            /\ \A k \in OfRequest(row, q) : Stays(row[k], row'[k])
    BY <2>5, <2>6 DEF OfRequest, Stays
  <2>12. \A k \in DOMAIN row' :
            row'[k].directory # 0 => IsNamedFor(madeFor', row'[k].directory, row'[k].config)
    <3> SUFFICES ASSUME NEW k \in DOMAIN row', row'[k].directory # 0
                 PROVE  IsNamedFor(madeFor', row'[k].directory, row'[k].config)
      OBVIOUS
    <3>1. CASE k \in 1..n
      BY <2>1, <2>5, <2>6, <3>1 DEF LinkedInv
    <3>2. CASE k \notin 1..n
      <4>1. k - n \in 1..Len(new) /\ k = n + (k - n)
        BY <2>6, <3>2
      <4>2. row'[k] = new[k - n]
        BY <2>5, <4>1
      <4>3. QED
        BY <2>3, <2>4, <4>1, <4>2
    <3>3. QED
      BY <3>1, <3>2
  <2>13. /\ NamesStay(madeFor, madeFor')
         /\ \A x \in OwnConfigs : directory'[x] # 0 => IsNamedFor(madeFor', directory'[x], x)
    BY <2>1 DEF NamesStay, LinkedInv
  <2>14. QED
    BY <2>1, <2>10, <2>11, <2>12, <2>13, LinkedStep
<1>5. QED
  BY <1>3, <1>4

\* What fits a request that is linking fits it as it reads or names the directory of
\* its next site.
LEMMA LinkingStill ==
    ASSUME NEW rows, NEW made, NEW r, NEW c, NEW d, RowsFit(rows, made, r, c),
           c.pc \in Linking, d.pc \in Linking,
           d.batch = c.batch, d.targets = c.targets, d.next = c.next,
           d.pc = "link" => IsNamedFor(made, d.directory, d.targets[d.next])
    PROVE  RowsFit(rows, made, r, d)
<1>1. \A k \in OfRequest(rows, r) : RowFits(rows[k], d)
  BY DEF RowsFit, RowFits, Linking
<1>2. Complete(rows, r, d, Len(d.batch))
  <2>1. Complete(rows, r, c, Len(c.batch))
    BY DEF RowsFit
  <2>2. QED
    BY <2>1 DEF Complete
<1>3. \A j \in 1..(d.next - 1), k \in OfRequest(rows, r) :
         rows[k].config = d.targets[j] => rows[k].directory # 0
  BY DEF RowsFit
<1>4. QED
  BY <1>1, <1>2, <1>3 DEF RowsFit, Linking

LEMMA ReadLinked ==
    ASSUME PostsInv, LinkedInv, NEW r \in Submissions, ReadDirectory(r)
    PROVE  LinkedInv'
<1> DEFINE x == call[r].targets[call[r].next]
           c == [call[r] EXCEPT !.pc = IF directory[x] = 0 THEN "generate" ELSE "link",
                                !.directory = directory[x]]
<1>1. /\ call[r] \in CallState /\ CallFits(r, call[r], uploaded) /\ call[r].pc = "directory"
      /\ RowsFit(row, madeFor, r, call[r])
  BY CallFacts DEF ReadDirectory, LinkedInv
<1>2. x \in OwnConfigs
  BY <1>1 DEF CallFits, Elements
<1>3. /\ c.pc = (IF directory[x] = 0 THEN "generate" ELSE "link") /\ c.directory = directory[x]
      /\ c.batch = call[r].batch /\ c.targets = call[r].targets /\ c.next = call[r].next
  BY <1>1 DEF CallState
<1>4. call' = [call EXCEPT ![r] = c] /\ UNCHANGED <<row, directory, madeFor>>
  BY DEF ReadDirectory, Step
<1>5. c.targets[c.next] = x
  BY <1>3
<1> HIDE DEF x, c
<1>6. c.pc = "link" => IsNamedFor(madeFor, c.directory, c.targets[c.next])
  BY <1>2, <1>3, <1>5 DEF LinkedInv
<1>7. RowsFit(row, madeFor, r, c)
  BY <1>1, <1>3, <1>6, LinkingStill DEF Linking
<1>8. QED
  BY <1>4, <1>7, LinkedCall

LEMMA NameLinked ==
    ASSUME PostsInv, LinkedInv, NEW r \in Submissions, NameDirectory(r)
    PROVE  LinkedInv'
<1> DEFINE x == call[r].targets[call[r].next]
           m == Len(madeFor) + 1
           c == [call[r] EXCEPT !.pc = "link", !.directory = m]
<1>1. /\ call[r] \in CallState /\ CallFits(r, call[r], uploaded) /\ call[r].pc = "generate"
      /\ RowsFit(row, madeFor, r, call[r])
      /\ directory \in [OwnConfigs -> 0..MaxDirectories] /\ madeFor \in Seq(OwnConfigs)
  BY CallFacts DEF NameDirectory, LinkedInv
<1>2. x \in OwnConfigs
  BY <1>1 DEF CallFits, Elements
<1>3. /\ c.pc = "link" /\ c.directory = m
      /\ c.batch = call[r].batch /\ c.targets = call[r].targets /\ c.next = call[r].next
  BY <1>1 DEF CallState
<1>4. /\ call' = [call EXCEPT ![r] = c] /\ UNCHANGED row
      /\ directory' = [directory EXCEPT ![x] = m] /\ madeFor' = Append(madeFor, x)
  BY DEF NameDirectory, Step
<1>5. c.targets[c.next] = x
  BY <1>3
<1>6. IsNamedFor(madeFor', m, x)
  BY <1>1, <1>2, <1>4 DEF IsNamedFor
<1>7. NamesStay(madeFor, madeFor')
  <2> SUFFICES ASSUME NEW e, NEW y, IsNamedFor(madeFor, e, y) PROVE IsNamedFor(madeFor', e, y)
    BY DEF NamesStay
  <2>1. e \in 1..Len(madeFor) /\ madeFor[e] = y
    BY DEF IsNamedFor
  <2>2. /\ Len(madeFor') = Len(madeFor) + 1 /\ Len(madeFor) \in Nat
        /\ madeFor'[e] = madeFor[e]
    BY <1>1, <1>2, <1>4, <2>1, AppendProperties
  <2>3. QED
    BY <2>1, <2>2 DEF IsNamedFor
<1> HIDE DEF x, c, m
<1>8. \A y \in OwnConfigs : directory'[y] # 0 => IsNamedFor(madeFor', directory'[y], y)
  BY <1>1, <1>4, <1>6, <1>7 DEF LinkedInv, NamesStay
<1>9. \A k \in DOMAIN row' :
         row'[k].directory # 0 => IsNamedFor(madeFor', row'[k].directory, row'[k].config)
  BY <1>4, <1>7 DEF LinkedInv, NamesStay
<1>10. \A q \in Submissions :
         /\ OfRequest(row', q) = OfRequest(row, q)
         /\ \A k \in OfRequest(row, q) : Stays(row[k], row'[k])
  BY <1>4 DEF Stays
<1>11. RowsFit(row', madeFor', r, call[r])
  BY <1>1, <1>7, <1>10, RowsFitStill
<1>12. RowsFit(row', madeFor', r, c)
  BY <1>1, <1>3, <1>5, <1>6, <1>11, LinkingStill DEF Linking
<1>13. QED
  BY <1>4, <1>7, <1>8, <1>9, <1>10, <1>12, LinkedStep

\* A row for the next site of a request has one of the keys that its task looks for.
LEMMA KeyIsLookedFor ==
    ASSUME NEW c, NEW a, RowFits(a, c)
    PROVE  a.key \in {LinkKey(b) : b \in Elements(c.batch)}
  BY DEF RowFits, RowKey, LinkKey, Elements

LEMMA LinkLinked ==
    ASSUME PostsInv, LinkedInv, NEW r \in Submissions, LinkRows(r)
    PROVE  LinkedInv'
<1> DEFINE c == call[r]
           x == c.targets[c.next]
           keys == {LinkKey(a) : a \in Elements(c.batch)}
           d == IF c.next < Len(c.targets) THEN [c EXCEPT !.pc = "directory", !.next = @ + 1]
                ELSE [c EXCEPT !.pc = "returned"]
<1>1. /\ c \in CallState /\ CallFits(r, c, uploaded) /\ c.pc = "link" /\ row \in Seq(RowState)
      /\ RowsFit(row, madeFor, r, c)
  BY CallFacts DEF LinkRows, LinkedInv
<1>2. c.next \in 1..Len(c.targets) /\ Len(c.targets) \in Nat
  BY <1>1, CarriedBySubmission DEF CallFits
<1>3. /\ call' = [call EXCEPT ![r] = d] /\ UNCHANGED <<uploaded, directory, madeFor>>
      /\ row' = [i \in DOMAIN row |-> IF row[i].config = x /\ row[i].key \in keys
                                      THEN [row[i] EXCEPT !.directory = c.directory] ELSE row[i]]
  BY DEF LinkRows, Step
<1>4. IsNamedFor(madeFor, c.directory, x) /\ c.directory # 0
  <2>1. IsNamedFor(madeFor, c.directory, x)
    BY <1>1 DEF RowsFit
  <2>2. c.directory \in 1..Len(madeFor)
    BY <2>1 DEF IsNamedFor
  <2>3. QED
    BY <2>1, <2>2
<1>5. /\ d.batch = c.batch /\ d.targets = c.targets
      /\ \/ c.next < Len(c.targets) /\ d.pc = "directory" /\ d.next = c.next + 1
         \/ c.next = Len(c.targets) /\ d.pc = "returned"
  <2>1. CASE c.next < Len(c.targets)
    BY <1>1, <2>1 DEF CallState
  <2>2. CASE ~ c.next < Len(c.targets)
    <3>1. d.pc = "returned" /\ d.batch = c.batch /\ d.targets = c.targets
      BY <1>1, <2>2 DEF CallState
    <3>2. QED
      BY <1>2, <2>2, <3>1
  <2>3. QED
    BY <2>1, <2>2
<1> HIDE DEF x, d
<1>6. ASSUME NEW k \in DOMAIN row
      PROVE  /\ row'[k].call = row[k].call /\ row'[k].post = row[k].post
             /\ row'[k].config = row[k].config /\ row'[k].key = row[k].key
             /\ row'[k].directory = IF row[k].config = x /\ row[k].key \in keys THEN c.directory
                                    ELSE row[k].directory
  <2>1. row[k] \in RowState
    BY <1>1
  <2> HIDE DEF keys
  <2>2. row'[k] = IF row[k].config = x /\ row[k].key \in keys
                  THEN [row[k] EXCEPT !.directory = c.directory] ELSE row[k]
    BY <1>3
  <2>3. QED
    BY <2>1, <2>2 DEF RowState
<1>7. DOMAIN row' = DOMAIN row
  BY <1>3
<1> HIDE DEF c, keys
<1>8. \A q :
         /\ OfRequest(row', q) = OfRequest(row, q)
         /\ \A k \in OfRequest(row, q) : Stays(row[k], row'[k])
  BY <1>4, <1>6, <1>7 DEF OfRequest, Stays
<1>9. \A k \in DOMAIN row' :
         row'[k].directory # 0 => IsNamedFor(madeFor', row'[k].directory, row'[k].config)
  BY <1>3, <1>4, <1>6, <1>7 DEF LinkedInv
<1>10. NamesStay(madeFor, madeFor')
  BY <1>3 DEF NamesStay
<1>11. RowsFit(row', madeFor', r, c)
  BY <1>1, <1>8, <1>10, RowsFitStill
<1>12. \A j \in 1..c.next, k \in OfRequest(row', r) :
          row'[k].config = c.targets[j] => row'[k].directory # 0
  <2> SUFFICES ASSUME NEW j \in 1..c.next, NEW k \in OfRequest(row', r), row'[k].config = c.targets[j]
               PROVE  row'[k].directory # 0
    OBVIOUS
  <2>1. k \in OfRequest(row, r) /\ k \in DOMAIN row
    BY <1>8 DEF OfRequest
  <2>2. CASE j = c.next
    <3>1. RowFits(row[k], c)
      BY <1>1, <2>1 DEF RowsFit
    <3>2. row[k].config = x /\ row[k].key \in keys
      BY <1>6, <2>1, <2>2, <3>1, KeyIsLookedFor DEF x, keys
    <3>3. QED
      BY <1>4, <1>6, <2>1, <3>2
  <2>3. CASE j # c.next
    <3>1. j \in 1..(c.next - 1)
      BY <1>2, <2>3
    <3>2. QED
      BY <1>1, <1>11, <3>1 DEF RowsFit, Linking
  <2>4. QED
    BY <2>2, <2>3
<1>13. /\ \A k \in OfRequest(row', r) : RowFits(row'[k], d)
       /\ Complete(row', r, d, Len(d.batch))
  <2>1. /\ \A k \in OfRequest(row', r) : RowFits(row'[k], c)
        /\ Complete(row', r, c, Len(c.batch))
    BY <1>1, <1>11 DEF RowsFit, Linking
  <2>2. QED
    BY <1>5, <2>1 DEF RowFits, Complete
<1>14. RowsFit(row', madeFor', r, d)
  <2>1. CASE c.next < Len(c.targets) /\ d.pc = "directory" /\ d.next = c.next + 1
    <3>1. 1..(d.next - 1) = 1..c.next
      BY <1>2, <2>1
    <3>2. QED
      BY <1>5, <1>12, <1>13, <2>1, <3>1 DEF RowsFit, Linking
  <2>2. CASE c.next = Len(c.targets) /\ d.pc = "returned"
    <3>1. \A k \in OfRequest(row', r) : row'[k].directory # 0
      <4> SUFFICES ASSUME NEW k \in OfRequest(row', r) PROVE row'[k].directory # 0
        OBVIOUS
      <4>1. PICK j \in 1..Len(c.targets) : row'[k].config = c.targets[j]
        BY <1>5, <1>13 DEF RowFits, Elements
      <4>2. QED
        BY <1>12, <2>2, <4>1
    <3>2. QED
      BY <1>13, <2>2, <3>1 DEF RowsFit, Linking
  <2>3. QED
    BY <1>5, <2>1, <2>2
<1>15. \A y \in OwnConfigs : directory'[y] # 0 => IsNamedFor(madeFor', directory'[y], y)
  BY <1>3 DEF LinkedInv
<1>16. QED
  BY <1>3, <1>8, <1>9, <1>10, <1>14, <1>15, LinkedStep

LEMMA DropLinked ==
    ASSUME PostsInv, LinkedInv, NEW x \in OwnConfigs, DropDirectory(x)
    PROVE  LinkedInv'
<1>1. \A y \in OwnConfigs : directory'[y] = IF y = x THEN 0 ELSE directory[y]
  BY DEF DropDirectory, PostsInv, PostsTypeOK
<1>2. QED
  BY <1>1 DEF DropDirectory, LinkedInv

LEMMA LinkedNext == PostsInv /\ LinkedInv /\ [PostsNext]_postsVars => LinkedInv'
<1> SUFFICES ASSUME PostsInv, LinkedInv, [PostsNext]_postsVars PROVE LinkedInv'
  OBVIOUS
<1>1. ASSUME NEW r \in Submissions, CallStep(r)
      PROVE  LinkedInv'
  <2>1. CASE CallFails(r)
    BY <2>1, FailsLinked DEF CallFails
  <2>2. QED
    BY <1>1, <2>1, SubmitLinked, CheckLinked, InsertLinked, ReadLinked, NameLinked, LinkLinked,
       VerifyLinked DEF CallStep
<1>2. ASSUME NEW x \in OwnConfigs, DropDirectory(x)
      PROVE  LinkedInv'
  BY <1>2, DropLinked
<1>3. CASE UNCHANGED postsVars
  BY <1>3 DEF postsVars, LinkedInv
<1>4. QED
  BY <1>1, <1>2, <1>3 DEF PostsNext

\* The ids a request returns are those of one row for each of its posts and sites, and
\* every row is linked to a directory named for its site: the infos by whose titles
\* createPost and its siblings link the rows are the ones the rows were inserted from,
\* and a later request only replaces a link by another; whatever fails, expires or
\* interleaves.
THEOREM RowsLinked == PostsSpec => []ReturnedRowsAreLinked
<1>1. PostsInv /\ LinkedInv => ReturnedRowsAreLinked
  <2> SUFFICES ASSUME PostsInv, LinkedInv, NEW r \in Submissions, call[r].pc = "returned"
               PROVE  /\ Cardinality(RowsOf(r)) = Len(call[r].batch) * Len(call[r].targets)
                      /\ \A i \in 1..Len(call[r].batch), c \in Elements(call[r].targets) :
                            \E k \in RowsOf(r) : row[k].post = i /\ row[k].config = c
                      /\ \A k \in RowsOf(r) :
                            row[k].directory # 0 /\ madeFor[row[k].directory] = row[k].config
    BY DEF ReturnedRowsAreLinked
  <2>1. RowsOf(r) = OfRequest(row, r) /\ RowsFit(row, madeFor, r, call[r])
    BY DEF RowsOf, OfRequest, LinkedInv
  <2>2. Complete(row, r, call[r], Len(call[r].batch))
    BY <2>1 DEF RowsFit
  <2>3. \A k \in OfRequest(row, r) : row[k].directory # 0 /\ k \in DOMAIN row
    BY <2>1 DEF RowsFit, OfRequest
  <2>4. \A k \in OfRequest(row, r) : madeFor[row[k].directory] = row[k].config
    BY <2>3 DEF LinkedInv, IsNamedFor
  <2>5. QED
    BY <2>1, <2>2, <2>3, <2>4 DEF Complete
<1>2. PostsInit => PostsInv /\ LinkedInv
  BY PostsInitInv, LinkedInit
<1>3. PostsInv /\ LinkedInv /\ [PostsNext]_postsVars => (PostsInv /\ LinkedInv)'
  BY PostsNextInv, LinkedNext
<1>4. QED
  BY <1>1, <1>2, <1>3, PTL DEF PostsSpec

-----------------------------------------------------------------------------
(* The task chains and the requests in front of them: types. *)

\* A name of a working directory that has been given out among n, or none.
NamesUpto(n) == {w \in Workspaces \union {NoWorkspace} : w <= n}

KeysFit == used \in 0..MaxWorkspaces /\ workspace \in [Sites -> NamesUpto(used)]

ChainsFit ==
    /\ DOMAIN task \subseteq Tasks
    /\ \A t \in DOMAIN task : task[t] \in TaskRow /\ task[t].workspace \in NamesUpto(used)

FlowsFit ==
    /\ flow \in [Posts -> FlowRow]
    /\ \A f \in Posts : flow[f].given \in NamesUpto(used) /\ flow[f].workspace \in NamesUpto(used)

RelasFit ==
    /\ rela \in [Posts -> RelaRow]
    /\ \A f \in Posts : rela[f].workspace \in NamesUpto(used) /\ rela[f].edited \in NamesUpto(used)

ColumnsFit ==
    /\ registered \subseteq Methods /\ timeouts \in Nat /\ restarts \in Nat
    /\ siteStatus \in [Sites -> SiteStates]
    /\ repo \in [Sites -> {"missing", "empty", "filled"}]

\* The types, and that every workspace is one of the names given out.
NamedInv == KeysFit /\ ChainsFit /\ FlowsFit /\ RelasFit /\ ColumnsFit

LEMMA NamedTypes == NamedInv => TasksTypeOK
  BY ChainsAssumption
     DEF NamedInv, KeysFit, ChainsFit, FlowsFit, RelasFit, ColumnsFit, NamesUpto, TasksTypeOK, ChainsTypeOK

LEMMA NamesGrow ==
    ASSUME used \in 0..MaxWorkspaces, used' \in 0..MaxWorkspaces, used <= used'
    PROVE  /\ NamesUpto(used) \subseteq NamesUpto(used')
           /\ NoWorkspace \in NamesUpto(used') /\ used' \in NamesUpto(used') \union {0}
           /\ used' # 0 => used' \in NamesUpto(used')
  BY ChainsAssumption DEF NamesUpto, Workspaces, NoWorkspace

\* A request changes its row; a task its own.
LEMMA FlowTyped ==
    ASSUME KeysFit, KeysFit', FlowsFit, used <= used', NEW f \in Posts, NEW q \in FlowRow, SetFlow(f, q),
           q.given \in NamesUpto(used'), q.workspace \in NamesUpto(used')
    PROVE  FlowsFit'
<1>1. NamesUpto(used) \subseteq NamesUpto(used')
  BY NamesGrow DEF KeysFit
<1>2. flow' \in [Posts -> FlowRow] /\ \A g \in Posts : flow'[g] = IF g = f THEN q ELSE flow[g]
  BY DEF FlowsFit, SetFlow
<1>3. QED
  BY <1>1, <1>2 DEF FlowsFit

LEMMA TaskTyped ==
    ASSUME ChainsFit, UNCHANGED used, NEW t \in Tasks, NEW a \in TaskRow, SetTask(t, a),
           a.workspace \in NamesUpto(used)
    PROVE  /\ ChainsFit'
           /\ DOMAIN task' = DOMAIN task \union {t}
           /\ \A u \in DOMAIN task' : task'[u] = IF u = t THEN a ELSE task[u]
<1>1. /\ DOMAIN task' = DOMAIN task \union {t}
      /\ \A u \in DOMAIN task' : task'[u] = IF u = t THEN a ELSE task[u]
  BY DEF SetTask
<1>2. ChainsFit'
  <2>1. DOMAIN task' \subseteq Tasks
    BY <1>1 DEF ChainsFit
  <2>2. ASSUME NEW u \in DOMAIN task' PROVE task'[u] \in TaskRow /\ task'[u].workspace \in NamesUpto(used')
    BY <1>1 DEF ChainsFit
  <2>3. QED
    BY <2>1, <2>2 DEF ChainsFit
<1>3. QED
  BY <1>1, <1>2

\* A request keeps what it is about.
Same(q, p) == q.kind = p.kind /\ q.site = p.site

\* What the next stage, and an error, make of the row of a request.
LEMMA DoneRow ==
    ASSUME NamedInv, NEW f \in Posts, InFlight(f)
    PROVE  /\ Done(f) \in FlowRow /\ Same(Done(f), flow[f])
           /\ Done(f).plan = Tail(flow[f].plan) /\ Done(f).given = flow[f].given
           /\ Done(f).workspace = flow[f].workspace /\ Done(f).original = flow[f].original
           /\ Done(f).task = flow[f].task
           /\ Done(f).given \in NamesUpto(used) /\ Done(f).workspace \in NamesUpto(used)
<1>1. flow[f] \in FlowRow /\ flow[f].given \in NamesUpto(used) /\ flow[f].workspace \in NamesUpto(used)
  BY DEF NamedInv, FlowsFit
<1>2. Tail(flow[f].plan) \in Seq(Stages)
  BY <1>1 DEF FlowRow, InFlight
<1>3. QED
  BY <1>1, <1>2 DEF FlowRow, Done, Same

LEMMA ThrownRow ==
    ASSUME NamedInv, NEW f \in Posts
    PROVE  /\ Thrown(f) \in FlowRow /\ Same(Thrown(f), flow[f])
           /\ Thrown(f).plan = Catch(f) /\ Thrown(f).given = flow[f].given
           /\ Thrown(f).workspace = flow[f].workspace /\ Thrown(f).original = flow[f].original
           /\ Thrown(f).task = 0
           /\ Thrown(f).given \in NamesUpto(used) /\ Thrown(f).workspace \in NamesUpto(used)
<1>1. flow[f] \in FlowRow /\ flow[f].given \in NamesUpto(used) /\ flow[f].workspace \in NamesUpto(used)
  BY DEF NamedInv, FlowsFit
<1>2. Catch(f) \in {<<"fail">>, <<"rollback">>, <<>>}
  BY DEF Catch
<1>3. <<"fail">> \in Seq(Stages) /\ <<"rollback">> \in Seq(Stages) /\ <<>> \in Seq(Stages)
  BY DEF Stages
<1>4. Catch(f) \in Seq(Stages)
  BY <1>2, <1>3
<1> DEFINE p == Catch(f)
<1> HIDE DEF p
<1>5. Thrown(f) = [flow[f] EXCEPT !.plan = p, !.generating = FALSE, !.task = 0]
  BY DEF Thrown, p
<1>6. p \in Seq(Stages)
  BY <1>4 DEF p
<1>7. QED
  BY <1>1, <1>5, <1>6 DEF FlowRow, Same, p

LEMMA PlanTyped == \A kind \in PostKinds \union SiteKinds : Plan(kind) \in Seq(Stages)
<1>1. PostStages \in Seq(Stages) /\ DeployStages \in Seq(Stages) /\ PublishStages \in Seq(Stages)
  BY DEF PostStages, DeployStages, PublishStages, Stages
<1>2. <<"config", "workspace", "checkout">> \in Seq(Stages) /\ <<"metadata">> \in Seq(Stages)
  BY DEF Stages
<1> HIDE DEF PostStages, DeployStages, PublishStages, Stages
<1>3. /\ <<"config", "workspace", "checkout">> \o PublishStages \in Seq(Stages)
      /\ <<"metadata">> \o DeployStages \o PublishStages \in Seq(Stages)
  BY <1>1, <1>2
<1>4. QED
  BY <1>1, <1>3 DEF Plan, PostKinds, SiteKinds

LEMMA NamedInit == TasksInit => NamedInv
<1> SUFFICES ASSUME TasksInit PROVE NamedInv
  OBVIOUS
<1>1. NoWorkspace \in NamesUpto(0)
  BY ChainsAssumption DEF NamesUpto, NoWorkspace
<1>2. KeysFit
  BY <1>1, ChainsAssumption DEF TasksInit, ChainsInit, KeysFit
<1>3. ChainsFit
  BY DEF TasksInit, ChainsInit, ChainsFit
<1>4. PICK s \in Sites : flow = [f \in Posts |-> NoFlow(s)]
  BY DEF TasksInit
<1>5. NoFlow(s) \in FlowRow
  BY DEF NoFlow, FlowRow, SiteStates
<1>6. FlowsFit
  BY <1>1, <1>4, <1>5 DEF FlowsFit, NoFlow, TasksInit, ChainsInit
<1>7. RelasFit
  BY <1>1 DEF RelasFit, NoRela, RelaRow, TasksInit, ChainsInit
<1>8. ColumnsFit
  BY DEF ColumnsFit, TasksInit, ChainsInit, SiteStates
<1>9. QED
  BY <1>2, <1>3, <1>6, <1>7, <1>8 DEF NamedInv

\* A step of a request that leaves the keys, the tasks and the columns of the others.
LEMMA OnlyFlowNamed ==
    ASSUME NamedInv, NEW f \in Posts, NEW q \in FlowRow, SetFlow(f, q),
           q.given \in NamesUpto(used), q.workspace \in NamesUpto(used),
           UNCHANGED <<registered, workspace, used, task, timeouts, restarts, rela>>,
           siteStatus' \in [Sites -> SiteStates],
           repo' \in [Sites -> {"missing", "empty", "filled"}]
    PROVE  NamedInv'
<1>1. KeysFit' /\ ChainsFit' /\ RelasFit' /\ ColumnsFit'
  BY DEF NamedInv, KeysFit, ChainsFit, RelasFit, ColumnsFit
<1>2. FlowsFit'
  BY <1>1, FlowTyped DEF NamedInv, KeysFit
<1>3. QED
  BY <1>1, <1>2 DEF NamedInv

LEMMA RequestRow ==
    ASSUME NamedInv, NEW f \in Posts, NEW s \in Sites, NEW kind \in PostKinds \union SiteKinds
    PROVE  LET q == [NoFlow(s) EXCEPT !.kind = kind, !.plan = Plan(kind)] IN
           /\ q \in FlowRow /\ q.kind = kind /\ q.site = s /\ q.plan = Plan(kind)
           /\ q.given = NoWorkspace /\ q.workspace = NoWorkspace /\ q.original = "CONFIGURED" /\ q.task = 0
<1> DEFINE p == Plan(kind)
           q == [NoFlow(s) EXCEPT !.kind = kind, !.plan = p]
<1>1. p \in Seq(Stages)
  BY PlanTyped
<1> HIDE DEF p
<1>0. q = [NoFlow(s) EXCEPT !.kind = kind, !.plan = p]
  OBVIOUS
<1>2. q = [kind |-> kind, site |-> s, plan |-> p, generating |-> FALSE, given |-> NoWorkspace,
           workspace |-> NoWorkspace, original |-> "CONFIGURED", repoEmpty |-> FALSE, task |-> 0]
  <2> HIDE DEF q
  <2> QED BY <1>0 DEF NoFlow
<1> HIDE DEF q
<1>3. /\ q \in FlowRow /\ q.kind = kind /\ q.site = s /\ q.plan = p
      /\ q.given = NoWorkspace /\ q.workspace = NoWorkspace /\ q.original = "CONFIGURED" /\ q.task = 0
  BY <1>1, <1>2 DEF FlowRow, SiteStates
<1>4. QED
  BY <1>3 DEF p, q

LEMMA RequestNamed ==
    ASSUME NamedInv, NEW f \in Posts, NEW s \in Sites, NEW kind \in PostKinds \union SiteKinds,
           Request(f, s, kind)
    PROVE  NamedInv'
<1> DEFINE q == [NoFlow(s) EXCEPT !.kind = kind, !.plan = Plan(kind)]
<1>1. q \in FlowRow /\ q.given = NoWorkspace /\ q.workspace = NoWorkspace
  BY RequestRow, ZenonT(30)
<1>2. NoWorkspace \in NamesUpto(used)
  BY ChainsAssumption DEF NamedInv, KeysFit, NamesUpto, NoWorkspace
<1>3. SetFlow(f, q)
  BY DEF Request
<1> HIDE DEF q
<1>4. QED
  BY <1>1, <1>2, <1>3, OnlyFlowNamed DEF Request, NamedInv, ColumnsFit

\* A new name of a working directory.
LEMMA GeneratedName ==
    ASSUME NamedInv, NEW s \in Sites, GenerateWorkspace(s)
    PROVE  /\ KeysFit' /\ used' = used + 1 /\ used \in Nat
           /\ NamesUpto(used) \subseteq NamesUpto(used')
           /\ workspace'[s] = used' /\ used' \in NamesUpto(used')
<1>1. used \in 0..MaxWorkspaces /\ used' = used + 1 /\ used' \in 0..MaxWorkspaces
  BY ChainsAssumption DEF GenerateWorkspace, NamedInv, KeysFit
<1>2. NamesUpto(used) \subseteq NamesUpto(used') /\ used' \in NamesUpto(used')
  BY <1>1, NamesGrow, ChainsAssumption
<1>3. workspace' \in [Sites -> NamesUpto(used')] /\ workspace'[s] = used'
  BY <1>2 DEF GenerateWorkspace, NamedInv, KeysFit
<1>4. QED
  BY <1>1, <1>2, <1>3 DEF KeysFit

\* What checkAndGetSiteConfigTaskWorkspace does to the row of the request.
LEMMA WorkspaceRow ==
    ASSUME NamedInv, NEW f \in Posts, GetWorkspace(f)
    PROVE  \E q \in FlowRow :
             /\ SetFlow(f, q) /\ Same(q, flow[f]) /\ q.workspace = flow[f].workspace
             /\ q.original = flow[f].original /\ q.task = flow[f].task
             /\ q.given \in NamesUpto(used')
             /\ \/ q.plan = flow[f].plan /\ q.given = flow[f].given
                \/ q.plan = Tail(flow[f].plan) /\ q.given # NoWorkspace
<1>1. /\ flow[f] \in FlowRow /\ InFlight(f) /\ flow[f].given \in NamesUpto(used)
      /\ Done(f) \in FlowRow /\ Same(Done(f), flow[f])
      /\ Done(f).plan = Tail(flow[f].plan) /\ Done(f).given = flow[f].given
      /\ Done(f).workspace = flow[f].workspace /\ Done(f).original = flow[f].original
      /\ Done(f).task = flow[f].task
  BY DoneRow DEF NamedInv, FlowsFit, GetWorkspace, At
<1> DEFINE s == flow[f].site
           d == Done(f)
<1>2. s \in Sites /\ workspace[s] \in NamesUpto(used)
  BY <1>1 DEF FlowRow, NamedInv, KeysFit
<1> HIDE DEF d
<1>3. CASE ~flow[f].generating /\ workspace[s] = NoWorkspace
  <2> DEFINE q == [flow[f] EXCEPT !.generating = TRUE]
  <2>1. /\ q \in FlowRow /\ Same(q, flow[f]) /\ q.workspace = flow[f].workspace
        /\ q.original = flow[f].original /\ q.task = flow[f].task
        /\ q.plan = flow[f].plan /\ q.given = flow[f].given
    BY <1>1 DEF FlowRow, Same
  <2>2. SetFlow(f, q) /\ used' = used
    BY <1>3 DEF GetWorkspace
  <2> HIDE DEF q
  <2>3. QED
    BY <1>1, <2>1, <2>2
<1>4. CASE ~flow[f].generating /\ workspace[s] # NoWorkspace
  <2> DEFINE q == [d EXCEPT !.given = workspace[s]]
  <2>1. workspace[s] \in Workspaces \union {NoWorkspace}
    BY <1>2 DEF NamesUpto
  <2>2. /\ q \in FlowRow /\ Same(q, flow[f]) /\ q.workspace = flow[f].workspace
        /\ q.original = flow[f].original /\ q.task = flow[f].task
        /\ q.plan = Tail(flow[f].plan) /\ q.given = workspace[s]
    BY <1>1, <2>1 DEF FlowRow, Same, d
  <2>3. SetFlow(f, q) /\ used' = used
    BY <1>4 DEF GetWorkspace, d
  <2> HIDE DEF q
  <2>4. QED
    BY <1>2, <1>4, <2>2, <2>3
<1>5. CASE flow[f].generating
  <2> DEFINE q == [d EXCEPT !.given = workspace'[s], !.generating = FALSE]
  <2>1. GenerateWorkspace(s) /\ SetFlow(f, q)
    BY <1>5 DEF GetWorkspace, d
  <2>2. workspace'[s] \in NamesUpto(used') /\ workspace'[s] # NoWorkspace
    BY <1>2, <2>1, GeneratedName DEF NoWorkspace
  <2>3. workspace'[s] \in Workspaces \union {NoWorkspace}
    BY <2>2 DEF NamesUpto
  <2>4. /\ q \in FlowRow /\ Same(q, flow[f]) /\ q.workspace = flow[f].workspace
        /\ q.original = flow[f].original /\ q.task = flow[f].task
        /\ q.plan = Tail(flow[f].plan) /\ q.given = workspace'[s]
    BY <1>1, <2>3 DEF FlowRow, Same, d
  <2> HIDE DEF q
  <2>5. QED
    BY <2>1, <2>2, <2>4
<1>6. flow[f].generating \in BOOLEAN
  BY <1>1 DEF FlowRow
<1>7. QED
  BY <1>3, <1>4, <1>5, <1>6

LEMMA WorkspaceNamed ==
    ASSUME NamedInv, NEW f \in Posts, GetWorkspace(f)
    PROVE  NamedInv'
<1>1. PICK q \in FlowRow :
         SetFlow(f, q) /\ q.workspace = flow[f].workspace /\ q.given \in NamesUpto(used')
  BY WorkspaceRow
<1>2. flow[f].site \in Sites /\ flow[f].workspace \in NamesUpto(used)
  BY DEF NamedInv, FlowsFit, FlowRow
<1>3. KeysFit' /\ used <= used' /\ NamesUpto(used) \subseteq NamesUpto(used')
  <2>1. CASE UNCHANGED <<workspace, used>>
    <3>1. used \in 0..MaxWorkspaces /\ MaxWorkspaces \in Nat
      BY ChainsAssumption DEF NamedInv, KeysFit
    <3>2. QED
      BY <2>1, <3>1 DEF NamedInv, KeysFit
  <2>2. CASE GenerateWorkspace(flow[f].site)
    BY <1>2, <2>2, GeneratedName
  <2>3. QED
    BY <2>1, <2>2 DEF GetWorkspace
<1>4. FlowsFit'
  BY <1>1, <1>2, <1>3, FlowTyped DEF NamedInv
<1>5. ChainsFit' /\ RelasFit' /\ ColumnsFit'
  BY <1>3 DEF NamedInv, GetWorkspace, ChainsFit, RelasFit, ColumnsFit
<1>6. QED
  BY <1>3, <1>4, <1>5 DEF NamedInv

\* The rows of the posts.
LEMMA LinkRelaNamed ==
    ASSUME NamedInv, NEW f \in Posts, LinkRela(f)
    PROVE  NamedInv'
<1>1. /\ flow[f] \in FlowRow /\ flow[f].given \in NamesUpto(used) /\ InFlight(f)
  BY DEF NamedInv, FlowsFit, LinkRela, At
<1>2. FlowsFit'
  BY <1>1, DoneRow, FlowTyped, ChainsAssumption DEF LinkRela, NamedInv, KeysFit
<1>3. ASSUME NEW g \in Posts
      PROVE  rela'[g] \in RelaRow /\ rela'[g].workspace \in NamesUpto(used) /\ rela'[g].edited \in NamesUpto(used)
  <2>1. rela[g] \in RelaRow /\ rela[g].workspace \in NamesUpto(used) /\ rela[g].edited \in NamesUpto(used)
    BY DEF NamedInv, RelasFit
  <2>2. rela'[g] = rela[g] \/ rela'[g] = [rela[g] EXCEPT !.workspace = flow[f].given]
    BY DEF LinkRela
  <2>3. QED
    BY <1>1, <2>1, <2>2 DEF RelaRow, FlowRow
<1>4. rela' = [g \in Posts |-> rela'[g]]
  BY DEF LinkRela
<1>5. RelasFit'
  BY <1>3, <1>4 DEF RelasFit, LinkRela
<1>6. KeysFit' /\ ChainsFit' /\ ColumnsFit'
  BY DEF NamedInv, LinkRela, KeysFit, ChainsFit, ColumnsFit
<1>7. QED
  BY <1>2, <1>5, <1>6 DEF NamedInv

LEMMA WriteRelaNamed ==
    ASSUME NamedInv, NEW f \in Posts, WriteRelaState(f)
    PROVE  NamedInv'
<1>1. PICK stage \in {"doing", "success", "fail"} :
         /\ At(f, stage) /\ rela' = RelaWith(f, StateAtStage[stage]) /\ SetFlow(f, Done(f))
         /\ UNCHANGED <<registered, workspace, used, task, timeouts, restarts, siteStatus, repo>>
  BY DEF WriteRelaState, StateAtStage
<1>2. StateAtStage[stage] \in {"DOING", "SUCCESS", "FAIL"}
  BY DEF StateAtStage
<1>3. FlowsFit'
  BY <1>1, DoneRow, FlowTyped, ChainsAssumption DEF At, NamedInv, KeysFit
<1>4. ASSUME NEW g \in Posts
      PROVE  rela'[g] \in RelaRow /\ rela'[g].workspace \in NamesUpto(used) /\ rela'[g].edited \in NamesUpto(used)
  <2>1. rela[g] \in RelaRow /\ rela[g].workspace \in NamesUpto(used) /\ rela[g].edited \in NamesUpto(used)
    BY DEF NamedInv, RelasFit
  <2>2. rela'[g] = rela[g] \/ rela'[g] = [rela[g] EXCEPT !.state = StateAtStage[stage]]
    BY <1>1 DEF RelaWith
  <2>3. QED
    BY <1>2, <2>1, <2>2 DEF RelaRow
<1>5. rela' = [g \in Posts |-> rela'[g]]
  BY <1>1 DEF RelaWith
<1>6. RelasFit'
  BY <1>1, <1>4, <1>5 DEF RelasFit
<1>7. KeysFit' /\ ChainsFit' /\ ColumnsFit'
  BY <1>1 DEF NamedInv, KeysFit, ChainsFit, ColumnsFit
<1>8. QED
  BY <1>3, <1>6, <1>7 DEF NamedInv

\* The stages that need no worker and that no row of a post is written at.
Passing(f) ==
    \/ GenerateDeployConfig(f) \/ GeneratePostConfig(f) \/ GeneratePublishConfig(f)
    \/ UploadMetadata(f) \/ ReadStatus(f) \/ WriteStatus(f) \/ UpdateDomain(f)

PassedAt == {"config", "postConfig", "publishConfig", "metadata", "dns", "status", "deploying",
             "deployed", "publishing", "published", "rollback"}

\* The row of a request that has passed such a stage.
NextRow(q, p) ==
    /\ Same(q, p) /\ q.plan = Tail(p.plan) /\ q.given = p.given /\ q.workspace = p.workspace
    /\ q.task = p.task

LEMMA DoneIsNext ==
    ASSUME NamedInv, NEW f \in Posts, InFlight(f)
    PROVE  Done(f) \in FlowRow /\ NextRow(Done(f), flow[f]) /\ Done(f).original = flow[f].original
  BY DoneRow DEF NextRow

LEMMA RepoTyped ==
    ASSUME NamedInv, NEW s \in Sites
    PROVE  RepoAfter(s) \subseteq {"missing", "empty", "filled"}
  BY DEF RepoAfter, GitHubRepo, GiteeRepo, NamedInv, ColumnsFit

LEMMA PassingRow ==
    ASSUME NamedInv, NEW f \in Posts, Passing(f)
    PROVE  /\ InFlight(f) /\ flow[f].task = 0 /\ Head(flow[f].plan) \in PassedAt
           /\ UNCHANGED <<registered, workspace, used, task, timeouts, restarts, rela>>
           /\ repo' \in [Sites -> {"missing", "empty", "filled"}]
           /\ \E q \in FlowRow :
                /\ SetFlow(f, q) /\ NextRow(q, flow[f])
                /\ q.original = IF Head(flow[f].plan) = "status" THEN siteStatus[flow[f].site]
                                ELSE flow[f].original
<1>1. InFlight(f) /\ flow[f].task = 0 /\ Head(flow[f].plan) \in PassedAt
  BY DEF Passing, GenerateDeployConfig, GeneratePostConfig, GeneratePublishConfig, UploadMetadata,
         ReadStatus, WriteStatus, UpdateDomain, At, StatusAtStage, PassedAt
<1>2. /\ flow[f] \in FlowRow /\ flow[f].site \in Sites
      /\ Done(f) \in FlowRow /\ NextRow(Done(f), flow[f]) /\ Done(f).original = flow[f].original
      /\ repo \in [Sites -> {"missing", "empty", "filled"}] /\ siteStatus \in [Sites -> SiteStates]
  BY <1>1, DoneIsNext DEF NamedInv, FlowsFit, FlowRow, ColumnsFit
<1> DEFINE d == Done(f)
           s == flow[f].site
<1> HIDE DEF d, s
<1>3. CASE GenerateDeployConfig(f)
  <2>1. PICK r \in RepoAfter(s) : repo' = [repo EXCEPT ![s] = r] /\ SetFlow(f, [d EXCEPT !.repoEmpty = (r = "empty")])
    BY <1>3 DEF GenerateDeployConfig, WithStorage, d, s
  <2> DEFINE q == [d EXCEPT !.repoEmpty = (r = "empty")]
  <2>2. q \in FlowRow /\ NextRow(q, flow[f]) /\ q.original = flow[f].original
    BY <1>2 DEF d, FlowRow, NextRow, Same
  <2>3. repo' \in [Sites -> {"missing", "empty", "filled"}]
    BY <1>2, <2>1, RepoTyped DEF s
  <2>4. SetFlow(f, q)
    BY <2>1
  <2>5. Head(flow[f].plan) = "config"
    BY <1>3 DEF GenerateDeployConfig, At
  <2>6. UNCHANGED <<registered, workspace, used, task, timeouts, restarts, rela>>
    BY <1>3 DEF GenerateDeployConfig, WithStorage
  <2> HIDE DEF q
  <2>7. QED
    BY <1>1, <2>2, <2>3, <2>4, <2>5, <2>6
<1>4. CASE GeneratePostConfig(f)
  <2>1. PICK r \in RepoAfter(s) : repo' = [repo EXCEPT ![s] = r] /\ SetFlow(f, d)
    BY <1>4 DEF GeneratePostConfig, WithStorage, d, s
  <2>2. repo' \in [Sites -> {"missing", "empty", "filled"}]
    BY <1>2, <2>1, RepoTyped DEF s
  <2>3. Head(flow[f].plan) = "postConfig" /\ UNCHANGED <<registered, workspace, used, task, timeouts, restarts, rela>>
    BY <1>4 DEF GeneratePostConfig, WithStorage, At
  <2>4. QED
    BY <1>1, <1>2, <2>1, <2>2, <2>3 DEF d
<1>5. CASE ReadStatus(f)
  <2> DEFINE q == [d EXCEPT !.original = siteStatus[s]]
  <2>1. q \in FlowRow /\ NextRow(q, flow[f]) /\ q.original = siteStatus[s]
    BY <1>2 DEF d, s, FlowRow, NextRow, Same
  <2>2. SetFlow(f, q) /\ Head(flow[f].plan) = "status"
    BY <1>5 DEF ReadStatus, At, d, s
  <2>3. UNCHANGED <<registered, workspace, used, task, timeouts, restarts, rela, repo>>
    BY <1>5 DEF ReadStatus
  <2> HIDE DEF q
  <2>4. QED
    BY <1>1, <1>2, <2>1, <2>2, <2>3 DEF s
<1>6. CASE GeneratePublishConfig(f) \/ UploadMetadata(f) \/ WriteStatus(f) \/ UpdateDomain(f)
  <2>1. SetFlow(f, Done(f)) /\ UNCHANGED <<registered, workspace, used, task, timeouts, restarts, rela, repo>>
    BY <1>6 DEF GeneratePublishConfig, UploadMetadata, WriteStatus, UpdateDomain
  <2>2. Head(flow[f].plan) # "status"
    BY <1>6 DEF GeneratePublishConfig, UploadMetadata, WriteStatus, UpdateDomain, At, StatusAtStage
  <2>3. QED
    BY <1>1, <1>2, <2>1, <2>2
<1>7. QED
  BY <1>3, <1>4, <1>5, <1>6 DEF Passing

LEMMA PassingNamed ==
    ASSUME NamedInv, NEW f \in Posts, Passing(f)
    PROVE  NamedInv'
<1>1. /\ UNCHANGED <<registered, workspace, used, task, timeouts, restarts, rela>>
      /\ repo' \in [Sites -> {"missing", "empty", "filled"}]
  BY PassingRow
<1>2. PICK q \in FlowRow : SetFlow(f, q) /\ NextRow(q, flow[f])
  BY PassingRow
<1>3. q.given \in NamesUpto(used) /\ q.workspace \in NamesUpto(used)
  BY <1>2 DEF NextRow, NamedInv, FlowsFit
<1>4. siteStatus' \in [Sites -> SiteStates]
  <2>1. siteStatus \in [Sites -> SiteStates] /\ flow[f].original \in SiteStates
    BY DEF NamedInv, ColumnsFit, FlowsFit, FlowRow
  <2>2. \A stage \in DOMAIN StatusAtStage : StatusAtStage[stage] \in SiteStates
    BY DEF StatusAtStage, SiteStates
  <2>3. CASE WriteStatus(f)
    <3>1. \E e \in SiteStates : siteStatus' = [siteStatus EXCEPT ![flow[f].site] = e]
      BY <2>1, <2>2, <2>3 DEF WriteStatus
    <3>2. QED
      BY <2>1, <3>1
  <2>4. CASE ~WriteStatus(f)
    BY <2>1, <2>4 DEF Passing, GenerateDeployConfig, GeneratePostConfig, WithStorage,
       GeneratePublishConfig, UploadMetadata, ReadStatus, UpdateDomain
  <2>5. QED
    BY <2>3, <2>4
<1>5. QED
  BY <1>1, <1>2, <1>3, <1>4, OnlyFlowNamed

LEMMA BeginNamed ==
    ASSUME NamedInv, NEW f \in Posts, BeginPost(f)
    PROVE  /\ NamedInv'
           /\ \E q \in FlowRow :
                /\ SetFlow(f, q) /\ Same(q, flow[f]) /\ q.plan = Tail(flow[f].plan)
                /\ q.given = flow[f].given /\ q.original = flow[f].original /\ q.task = flow[f].task
<1> DEFINE d == Done(f)
           w == workspace[flow[f].site]
           q == [d EXCEPT !.workspace = w]
<1>1. /\ d \in FlowRow /\ Same(d, flow[f]) /\ d.plan = Tail(flow[f].plan) /\ d.given = flow[f].given
      /\ d.original = flow[f].original /\ d.task = flow[f].task /\ d.given \in NamesUpto(used)
  BY DoneRow DEF BeginPost, At
<1>2. w \in NamesUpto(used) /\ w \in Workspaces \union {NoWorkspace}
  BY DEF NamedInv, FlowsFit, FlowRow, KeysFit, NamesUpto
<1>3. SetFlow(f, q) /\ UNCHANGED <<registered, workspace, used, task, timeouts, restarts, siteStatus, repo, rela>>
  BY DEF BeginPost
<1> HIDE DEF d, w
<1>4. /\ q \in FlowRow /\ Same(q, flow[f]) /\ q.plan = Tail(flow[f].plan) /\ q.workspace = w
      /\ q.given = flow[f].given /\ q.original = flow[f].original /\ q.task = flow[f].task
      /\ q.given \in NamesUpto(used)
  BY <1>1, <1>2 DEF FlowRow, Same
<1> HIDE DEF q
<1>5. NamedInv'
  BY <1>2, <1>3, <1>4, OnlyFlowNamed DEF NamedInv, ColumnsFit
<1>6. QED
  BY <1>3, <1>4, <1>5

LEMMA ThrowsNamed ==
    ASSUME NamedInv, NEW f \in Posts, StageThrows(f)
    PROVE  NamedInv'
  BY ThrownRow, OnlyFlowNamed DEF StageThrows, NamedInv, ColumnsFit

-----------------------------------------------------------------------------
(* The rows of the tasks. *)

\* A task with a job has steps left, and one that is resolved has none.
TaskFits(a) ==
    /\ a.job # "none" => a.left # <<>>
    /\ a.promise = "resolved" => a.left = <<>>

\* What a task is of.
SameTask(a, b) == a.site = b.site /\ a.post = b.post /\ a.workspace = b.workspace

LEMMA SettledRow ==
    ASSUME NEW a \in TaskRow, NEW outcome \in {"resolved", "rejected"}
    PROVE  LET b == Settled(a, outcome) IN
           /\ b \in TaskRow /\ SameTask(b, a) /\ b.left = a.left /\ b.job = a.job
           /\ b.unlock = a.unlock /\ b.awaited = a.awaited
           /\ b.promise \in {a.promise, outcome}
  BY DEF Settled, TaskRow, SameTask

LEMMA InvokedRow ==
    ASSUME NEW a \in TaskRow, a.promise # "resolved"
    PROVE  LET b == Invoked(a) IN
           /\ b \in TaskRow /\ SameTask(b, a) /\ b.left = a.left /\ b.unlock = a.unlock
           /\ b.awaited = a.awaited /\ b.promise # "resolved" /\ TaskFits(b)
<1> DEFINE b == Invoked(a)
<1>1. CASE a.left # <<>> /\ Head(a.left) \in registered
  <2>1. b = [a EXCEPT !.job = "waiting"]
    BY <1>1 DEF Invoked
  <2> HIDE DEF b
  <2>2. QED
    BY <1>1, <2>1 DEF TaskRow, SameTask, TaskFits, b
<1>2. CASE ~(a.left # <<>> /\ Head(a.left) \in registered)
  <2> DEFINE c == [a EXCEPT !.job = "none"]
  <2>1. /\ c \in TaskRow /\ SameTask(c, a) /\ c.left = a.left /\ c.unlock = a.unlock
        /\ c.awaited = a.awaited /\ c.promise = a.promise /\ c.job = "none"
    BY DEF TaskRow, SameTask
  <2>2. b = Settled(c, "rejected")
    BY <1>2 DEF Invoked
  <2> HIDE DEF b, c
  <2>3. QED
    BY <2>1, <2>2, SettledRow DEF SameTask, TaskFits, b
<1>3. QED
  BY <1>1, <1>2

LEMMA AdvancedRow ==
    ASSUME NEW a \in TaskRow, a.left # <<>>, a.promise # "resolved"
    PROVE  LET b == Advanced(a) IN
           /\ b \in TaskRow /\ SameTask(b, a) /\ b.left = Tail(a.left) /\ b.unlock = a.unlock
           /\ b.awaited = a.awaited /\ TaskFits(b)
<1> DEFINE b == Advanced(a)
<1>1. a.left \in Seq(Methods)
  BY DEF TaskRow
<1>2. CASE Len(a.left) > 1
  <2> DEFINE c == [a EXCEPT !.left = Tail(a.left)]
  <2>1. Tail(a.left) \in Seq(Methods)
    BY <1>1
  <2>2. /\ c \in TaskRow /\ SameTask(c, a) /\ c.left = Tail(a.left) /\ c.unlock = a.unlock
        /\ c.awaited = a.awaited /\ c.promise = a.promise
    BY <2>1 DEF TaskRow, SameTask
  <2>3. b = Invoked(c)
    BY <1>2 DEF Advanced
  <2> HIDE DEF b, c
  <2>4. QED
    BY <2>2, <2>3, InvokedRow DEF SameTask, b
<1>3. CASE ~ Len(a.left) > 1
  <2> DEFINE c == [a EXCEPT !.left = <<>>, !.job = "none"]
  <2>1. Tail(a.left) = <<>>
    <3>1. Tail(a.left) \in Seq(Methods) /\ Len(Tail(a.left)) = Len(a.left) - 1
      BY <1>1, HeadTailProperties
    <3>2. Len(a.left) \in Nat \ {0}
      BY <1>1, EmptySeq
    <3>3. Len(Tail(a.left)) = 0
      <4>1. \A n \in Nat \ {0} : ~ n > 1 => n - 1 = 0
        OBVIOUS
      <4>2. QED
        BY <1>3, <3>1, <3>2, <4>1
    <3>4. QED
      BY <3>1, <3>3, EmptySeq
  <2>2. /\ c \in TaskRow /\ SameTask(c, a) /\ c.left = <<>> /\ c.unlock = a.unlock
        /\ c.awaited = a.awaited /\ c.job = "none"
    <3>1. <<>> \in Seq(Methods)
      BY EmptySeq
    <3>2. QED
      BY <3>1 DEF TaskRow, SameTask
  <2>3. b = Settled(c, "resolved")
    BY <1>3 DEF Advanced
  <2> HIDE DEF b, c
  <2>4. QED
    <3>1. /\ b \in TaskRow /\ SameTask(b, c) /\ b.left = c.left /\ b.job = c.job
          /\ b.unlock = c.unlock /\ b.awaited = c.awaited
      BY <2>2, <2>3, SettledRow
    <3>2. b.left = Tail(a.left) /\ b.left = <<>> /\ b.job = "none"
      BY <2>1, <2>2, <3>1
    <3>3. TaskFits(b)
      BY <3>2 DEF TaskFits
    <3>4. SameTask(b, a) /\ b.unlock = a.unlock /\ b.awaited = a.awaited
      BY <2>2, <3>1 DEF SameTask
    <3>5. QED
      BY <3>1, <3>2, <3>3, <3>4 DEF b
<1>4. QED
  BY <1>2, <1>3

-----------------------------------------------------------------------------
(* The stages a request still has before it. *)

\* A plan is what is left of the stages of its kind.
Follows(plan, stages) ==
    /\ Len(plan) <= Len(stages)
    /\ \A i \in 1..Len(plan) : plan[i] = stages[Len(stages) - Len(plan) + i]

DeployKinds == {"deploy", "deployAndPublish"}

\* A request is over, or follows the plan of its kind, or what catches its errors.
PlanFits(q) ==
    \/ q.plan = <<>>
    \/ q.kind # "none" /\ Follows(q.plan, Plan(q.kind))
    \/ q.kind \in PostKinds /\ q.plan = <<"fail">>
    \/ q.kind \in DeployKinds /\ q.plan = <<"rollback">>

PlansFit == \A f \in Posts : PlanFits(flow[f])

\* The plans, written out.
PublishPlan ==
    <<"config", "workspace", "checkout", "publishConfig", "publishing", "workspace", "publish",
      "dns", "published">>

BothPlan ==
    <<"metadata", "status", "config", "deploying", "workspace", "deploy", "deployed",
      "publishConfig", "publishing", "workspace", "publish", "dns", "published">>

\* A list that has the stages of one and then those of another is the two, joined.
LEMMA Joined ==
    ASSUME NEW a \in Seq(Stages), NEW b \in Seq(Stages), NEW c \in Seq(Stages),
           Len(c) = Len(a) + Len(b),
           \A i \in 1..Len(c) : c[i] = IF i <= Len(a) THEN a[i] ELSE b[i - Len(a)]
    PROVE  a \o b = c
<1>1. /\ a \o b \in Seq(Stages) /\ Len(a \o b) = Len(a) + Len(b)
      /\ \A i \in 1..(Len(a) + Len(b)) : (a \o b)[i] = IF i <= Len(a) THEN a[i] ELSE b[i - Len(a)]
  BY ConcatProperties
<1> DEFINE both == a \o b
<1> HIDE DEF both
<1>2. both \in Seq(Stages) /\ Len(both) = Len(c) /\ \A i \in 1..Len(both) : both[i] = c[i]
  BY <1>1 DEF both
<1>3. both = c
  BY <1>2, SeqEqual
<1>4. QED
  BY <1>3 DEF both

\* Plan gives these lists.
LEMMA PlanIs ==
    /\ \A kind \in PostKinds : Plan(kind) = PostStages
    /\ Plan("deploy") = DeployStages
    /\ Plan("publish") = PublishPlan
    /\ Plan("deployAndPublish") = BothPlan
<1>1. <<"config", "workspace", "checkout">> \o PublishStages = PublishPlan
  <2> DEFINE first == <<"config", "workspace", "checkout">>
  <2>1. /\ first \in Seq(Stages) /\ PublishStages \in Seq(Stages) /\ PublishPlan \in Seq(Stages)
        /\ Len(first) = 3 /\ Len(PublishStages) = 6 /\ Len(PublishPlan) = 9
    BY DEF PublishStages, PublishPlan, Stages
  <2>2. \A i \in 1..9 : PublishPlan[i] = IF i <= 3 THEN first[i] ELSE PublishStages[i - 3]
    BY DEF PublishStages, PublishPlan
  <2> HIDE DEF first
  <2>3. first \o PublishStages = PublishPlan
    <3>1. \A i \in 1..Len(PublishPlan) :
             PublishPlan[i] = IF i <= Len(first) THEN first[i] ELSE PublishStages[i - Len(first)]
      BY <2>1, <2>2
    <3>2. Len(PublishPlan) = Len(first) + Len(PublishStages)
      BY <2>1
    <3>3. QED
      BY <2>1, <3>1, <3>2, Joined
  <2>4. QED
    BY <2>3 DEF first
<1>2. <<"metadata">> \o DeployStages \o PublishStages = BothPlan
  <2> DEFINE first == <<"metadata">>
             half == <<"metadata", "status", "config", "deploying", "workspace", "deploy", "deployed">>
  <2>1. /\ first \in Seq(Stages) /\ DeployStages \in Seq(Stages) /\ PublishStages \in Seq(Stages)
        /\ half \in Seq(Stages) /\ BothPlan \in Seq(Stages) /\ Len(first) = 1 /\ Len(DeployStages) = 6
        /\ Len(half) = 7 /\ Len(PublishStages) = 6 /\ Len(BothPlan) = 13
    BY DEF DeployStages, PublishStages, BothPlan, Stages
  <2>2. \A i \in 1..7 : half[i] = IF i <= 1 THEN first[i] ELSE DeployStages[i - 1]
    BY DEF DeployStages
  <2>3. \A i \in 1..13 : BothPlan[i] = IF i <= 7 THEN half[i] ELSE PublishStages[i - 7]
    BY DEF PublishStages, BothPlan
  <2> HIDE DEF first, half
  <2>4. first \o DeployStages = half
    <3>1. \A i \in 1..Len(half) :
             half[i] = IF i <= Len(first) THEN first[i] ELSE DeployStages[i - Len(first)]
      BY <2>1, <2>2
    <3>2. Len(half) = Len(first) + Len(DeployStages)
      BY <2>1
    <3>3. QED
      BY <2>1, <3>1, <3>2, Joined
  <2>5. half \o PublishStages = BothPlan
    <3>1. \A i \in 1..Len(BothPlan) :
             BothPlan[i] = IF i <= Len(half) THEN half[i] ELSE PublishStages[i - Len(half)]
      BY <2>1, <2>3
    <3>2. Len(BothPlan) = Len(half) + Len(PublishStages)
      BY <2>1
    <3>3. QED
      BY <2>1, <3>1, <3>2, Joined
  <2>6. first \o DeployStages \o PublishStages = BothPlan
    BY <2>4, <2>5
  <2>7. QED
    BY <2>6 DEF first
<1>3. QED
  BY <1>1, <1>2 DEF Plan, PostKinds

\* The first of what is left, and what is left after it.
LEMMA FollowsOn ==
    ASSUME NEW stages \in Seq(Stages), NEW plan \in Seq(Stages), plan # <<>>, Follows(plan, stages)
    PROVE  /\ Len(plan) \in 1..Len(stages)
           /\ Head(plan) = stages[Len(stages) - Len(plan) + 1]
           /\ Tail(plan) \in Seq(Stages) /\ Len(Tail(plan)) = Len(plan) - 1
           /\ Follows(Tail(plan), stages)
<1>1. /\ Len(plan) \in Nat \ {0} /\ Len(stages) \in Nat
      /\ Tail(plan) \in Seq(Stages) /\ Len(Tail(plan)) = Len(plan) - 1
      /\ \A i \in 1..Len(Tail(plan)) : Tail(plan)[i] = plan[i + 1]
  BY EmptySeq, HeadTailProperties, LenProperties
<1>2. Head(plan) = plan[1]
  OBVIOUS
<1>3. Len(plan) \in 1..Len(stages) /\ Head(plan) = stages[Len(stages) - Len(plan) + 1]
  BY <1>1, <1>2 DEF Follows
<1> DEFINE p == Tail(plan)
           n == Len(plan)
<1> HIDE DEF p, n
<1>4. Follows(p, stages)
  <2>1. Len(p) = n - 1 /\ n \in Nat \ {0} /\ n <= Len(stages)
    BY <1>1, <1>3 DEF p, n
  <2>2. ASSUME NEW i \in 1..Len(p)
        PROVE  p[i] = stages[Len(stages) - Len(p) + i]
    <3>1. i + 1 \in 1..n /\ p[i] = plan[i + 1]
      BY <1>1, <2>1 DEF p
    <3>2. plan[i + 1] = stages[Len(stages) - n + (i + 1)]
      BY <3>1 DEF Follows, n
    <3>3. Len(stages) - n + (i + 1) = Len(stages) - Len(p) + i
      BY <1>1, <2>1
    <3>4. QED
      BY <3>1, <3>2, <3>3
  <2>3. QED
    BY <1>1, <2>1, <2>2 DEF Follows
<1>5. QED
  BY <1>1, <1>3, <1>4 DEF p

\* Where a request of a post is.
LEMMA PostAt ==
    ASSUME NEW q \in FlowRow, PlanFits(q), q.kind \in PostKinds, q.plan # <<>>
    PROVE  \/ q.plan = <<"fail">> /\ Head(q.plan) = "fail"
           \/ /\ Follows(q.plan, PostStages) /\ Len(q.plan) \in 1..10
              /\ Head(q.plan) = PostStages[11 - Len(q.plan)]
              /\ Tail(q.plan) \in Seq(Stages) /\ Len(Tail(q.plan)) = Len(q.plan) - 1
              /\ Follows(Tail(q.plan), PostStages)
<1>1. q.kind # "none" /\ q.kind \notin DeployKinds /\ q.plan \in Seq(Stages)
  BY DEF PostKinds, DeployKinds, FlowRow
<1>2. CASE Follows(q.plan, PostStages)
  <2>1. PostStages \in Seq(Stages) /\ Len(PostStages) = 10
    BY DEF PostStages, Stages
  <2>2. /\ Len(q.plan) \in 1..10 /\ Head(q.plan) = PostStages[10 - Len(q.plan) + 1]
        /\ Tail(q.plan) \in Seq(Stages) /\ Len(Tail(q.plan)) = Len(q.plan) - 1
        /\ Follows(Tail(q.plan), PostStages)
    BY <1>1, <1>2, <2>1, FollowsOn
  <2>3. 10 - Len(q.plan) + 1 = 11 - Len(q.plan)
    BY <2>2
  <2>4. QED
    BY <1>2, <2>2, <2>3
<1>3. CASE q.plan = <<"fail">>
  BY <1>3
<1>4. QED
  BY <1>1, <1>2, <1>3, PlanIs DEF PlanFits

\* And one of a site.
LEMMA SiteAt ==
    ASSUME NEW q \in FlowRow, PlanFits(q), q.kind \in SiteKinds, q.plan # <<>>
    PROVE  \/ q.kind \in DeployKinds /\ q.plan = <<"rollback">> /\ Head(q.plan) = "rollback"
           \/ /\ Follows(q.plan, Plan(q.kind)) /\ Len(q.plan) \in 1..Len(Plan(q.kind))
              /\ Head(q.plan) = Plan(q.kind)[Len(Plan(q.kind)) - Len(q.plan) + 1]
              /\ Tail(q.plan) \in Seq(Stages) /\ Len(Tail(q.plan)) = Len(q.plan) - 1
              /\ Follows(Tail(q.plan), Plan(q.kind))
              /\ \E i \in 1..Len(Plan(q.kind)) : Head(q.plan) = Plan(q.kind)[i]
<1>1. q.kind # "none" /\ q.kind \notin PostKinds /\ q.plan \in Seq(Stages)
  BY DEF SiteKinds, PostKinds, FlowRow
<1>2. Plan(q.kind) \in Seq(Stages)
  BY PlanTyped
<1>3. CASE Follows(q.plan, Plan(q.kind))
  <2>1. /\ Len(q.plan) \in 1..Len(Plan(q.kind))
        /\ Head(q.plan) = Plan(q.kind)[Len(Plan(q.kind)) - Len(q.plan) + 1]
        /\ Tail(q.plan) \in Seq(Stages) /\ Len(Tail(q.plan)) = Len(q.plan) - 1
        /\ Follows(Tail(q.plan), Plan(q.kind))
    BY <1>1, <1>2, <1>3, FollowsOn
  <2>2. Len(Plan(q.kind)) - Len(q.plan) + 1 \in 1..Len(Plan(q.kind))
    <3>1. Len(Plan(q.kind)) \in Nat
      BY <1>2, LenProperties
    <3>2. QED
      BY <2>1, <3>1
  <2>3. QED
    BY <1>3, <2>1, <2>2
<1>4. CASE q.kind \in DeployKinds /\ q.plan = <<"rollback">>
  BY <1>4
<1>5. QED
  BY <1>1, <1>3, <1>4 DEF PlanFits

\* Only requests of posts edit and push.
LEMMA PostStage ==
    ASSUME NEW q \in FlowRow, PlanFits(q), q.plan # <<>>,
           Head(q.plan) \in {"link", "begin", "doing", "edit", "push", "success", "fail"}
    PROVE  q.kind \in PostKinds
<1>1. q.kind # "none"
  BY DEF PlanFits, PostKinds, DeployKinds
<1>2. CASE q.kind \in SiteKinds
  <2>1. CASE q.kind = "deploy"
    <3>1. Len(DeployStages) = 6
      BY DEF DeployStages
    <3>2. \A i \in 1..6 : DeployStages[i] \notin {"link", "begin", "doing", "edit", "push", "success", "fail"}
      BY DEF DeployStages
    <3> HIDE DEF DeployStages
    <3>3. QED
      <4>1. Head(q.plan) # "rollback" => \E i \in 1..6 : Head(q.plan) = DeployStages[i]
        BY <1>2, <2>1, <3>1, SiteAt, PlanIs
      <4>2. QED
        BY <3>2, <4>1
  <2>2. CASE q.kind = "publish"
    <3>1. Len(PublishPlan) = 9
      BY DEF PublishPlan
    <3>2. \A i \in 1..9 : PublishPlan[i] \notin {"link", "begin", "doing", "edit", "push", "success", "fail"}
      BY DEF PublishPlan
    <3>3. QED
      <4>1. Head(q.plan) # "rollback" => \E i \in 1..9 : Head(q.plan) = PublishPlan[i]
        BY <1>2, <2>2, <3>1, SiteAt, PlanIs
      <4>2. QED
        BY <3>2, <4>1
  <2>3. CASE q.kind = "deployAndPublish"
    <3>1. Len(BothPlan) = 13
      BY DEF BothPlan
    <3>2. \A i \in 1..13 : BothPlan[i] \notin {"link", "begin", "doing", "edit", "push", "success", "fail"}
      BY DEF BothPlan
    <3>3. QED
      <4>1. Head(q.plan) # "rollback" => \E i \in 1..13 : Head(q.plan) = BothPlan[i]
        BY <1>2, <2>3, <3>1, SiteAt, PlanIs
      <4>2. QED
        BY <3>2, <4>1
  <2>4. QED
    BY <1>2, <2>1, <2>2, <2>3 DEF SiteKinds
<1>3. QED
  BY <1>1, <1>2 DEF FlowRow

\* The plan of the next stage, and of what catches an error, fits.
LEMMA NextFits ==
    ASSUME NEW p \in FlowRow, PlanFits(p), p.plan # <<>>, NEW q \in FlowRow, Same(q, p), q.plan = Tail(p.plan)
    PROVE  PlanFits(q)
<1>1. p.kind # "none" /\ q.kind = p.kind /\ p.plan \in Seq(Stages)
  BY DEF PlanFits, PostKinds, DeployKinds, Same, FlowRow
<1>2. CASE Follows(p.plan, Plan(p.kind))
  <2>1. Plan(p.kind) \in Seq(Stages)
    BY <1>1, PlanTyped DEF FlowRow
  <2>2. Follows(Tail(p.plan), Plan(p.kind))
    BY <1>1, <1>2, <2>1, FollowsOn
  <2>3. QED
    BY <1>1, <2>2 DEF PlanFits
<1>3. CASE p.plan = <<"fail">> \/ p.plan = <<"rollback">>
  <2>1. Len(p.plan) = 1
    <3>1. Len(<<"fail">>) = 1 /\ Len(<<"rollback">>) = 1
      OBVIOUS
    <3>2. QED
      BY <1>3, <3>1, Zenon
  <2>2. Tail(p.plan) \in Seq(Stages) /\ Len(Tail(p.plan)) = Len(p.plan) - 1
    BY <1>1, HeadTailProperties
  <2>3. Len(Tail(p.plan)) = 0
    BY <2>1, <2>2
  <2>4. Tail(p.plan) = <<>>
    BY <2>2, <2>3, EmptySeq
  <2>5. QED
    BY <2>4 DEF PlanFits
<1>4. QED
  BY <1>2, <1>3 DEF PlanFits

LEMMA CaughtFits ==
    ASSUME NamedInv, NEW f \in Posts
    PROVE  PlanFits(Thrown(f))
<1>1. Thrown(f).plan = Catch(f) /\ Thrown(f).kind = flow[f].kind
  BY ThrownRow DEF Same
<1>2. \/ Catch(f) = <<>>
      \/ Catch(f) = <<"fail">> /\ flow[f].kind \in PostKinds
      \/ Catch(f) = <<"rollback">> /\ flow[f].kind \in DeployKinds
  BY DEF Catch, DeployKinds
<1>3. QED
  BY <1>1, <1>2 DEF PlanFits

LEMMA PlansStep ==
    ASSUME NamedInv, PlansFit, NEW f \in Posts, NEW q, SetFlow(f, q), PlanFits(q)
    PROVE  PlansFit'
<1>1. \A g \in Posts : flow'[g] = IF g = f THEN q ELSE flow[g]
  BY DEF SetFlow, NamedInv, FlowsFit
<1>2. QED
  BY <1>1 DEF PlansFit

LEMMA NextPlans ==
    ASSUME NamedInv, PlansFit, NEW f \in Posts, NEW q \in FlowRow, SetFlow(f, q), Same(q, flow[f]),
           \/ q.plan = flow[f].plan
           \/ flow[f].plan # <<>> /\ q.plan = Tail(flow[f].plan)
    PROVE  PlansFit'
<1>1. flow[f] \in FlowRow /\ PlanFits(flow[f])
  BY DEF NamedInv, FlowsFit, PlansFit
<1>2. PlanFits(q)
  <2>1. CASE q.plan = flow[f].plan
    BY <1>1, <2>1 DEF PlanFits, Same
  <2>2. CASE flow[f].plan # <<>> /\ q.plan = Tail(flow[f].plan)
    BY <1>1, <2>2, NextFits
  <2>3. QED
    BY <2>1, <2>2
<1>3. QED
  BY <1>2, PlansStep

\* The stages that a worker does.
WorkStages == {"checkout", "edit", "push", "deploy", "publish"}

LEMMA StepsTyped ==
    ASSUME NEW f \in Posts, NEW stage \in WorkStages,
           stage = "edit" => flow[f].kind \in PostKinds \ {"deleteDraft"}
    PROVE  \A steps \in StepsAtStage(f, stage) : steps \in Seq(Methods)
<1>1. /\ <<"GIT_CLONE_CHECKOUT">> \in Seq(Methods)
      /\ <<"GIT_CLONE_CHECKOUT", "GENERATE_METASPACE_CONFIG", "GIT_COMMIT_PUSH">> \in Seq(Methods)
      /\ <<"GIT_COMMIT_PUSH">> \in Seq(Methods)
      /\ <<"HEXO_GENERATE_DEPLOY", "PUBLISH_GITHUB_PAGES">> \in Seq(Methods)
      /\ <<"GIT_OVERWRITE_THEME">> \in Seq(Methods) /\ <<>> \in Seq(Methods)
  BY DEF Methods, GitMethods, HexoMethods
<1>2. CASE stage = "edit"
  <2>1. \A m \in EditMethods : <<m>> \in Seq(Methods)
    BY DEF Methods, HexoMethods, EditMethods
  <2>2. \E m \in EditMethods : EditSteps(flow[f].kind) = <<m>>
    BY <1>2 DEF EditSteps, EditMethods, PostKinds
  <2>3. EditSteps(flow[f].kind) \in Seq(Methods)
    BY <2>1, <2>2
  <2>4. QED
    BY <1>2, <2>3 DEF StepsAtStage
<1>3. CASE stage = "deploy"
  <2> DEFINE head == <<IF flow[f].repoEmpty THEN "GIT_INIT_PUSH" ELSE "GIT_CLONE_CHECKOUT",
                       "HEXO_UPDATE_CONFIG", "GENERATE_METASPACE_CONFIG", "GIT_COMMIT_PUSH">>
             rest == IF flow[f].kind = "deploy" THEN <<>> ELSE <<"GIT_OVERWRITE_THEME">>
  <2>1. head \in Seq(Methods) /\ rest \in Seq(Methods)
    <3>1. \A m \in {"GIT_INIT_PUSH", "GIT_CLONE_CHECKOUT"} :
             <<m, "HEXO_UPDATE_CONFIG", "GENERATE_METASPACE_CONFIG", "GIT_COMMIT_PUSH">> \in Seq(Methods)
      BY DEF Methods, GitMethods, HexoMethods
    <3>2. head \in Seq(Methods)
      BY <3>1
    <3>3. rest \in Seq(Methods)
      BY <1>1
    <3>4. QED
      BY <3>2, <3>3
  <2>2. DeploySteps(f) = head \o rest
    BY DEF DeploySteps
  <2> HIDE DEF head, rest
  <2>3. DeploySteps(f) \in Seq(Methods)
    BY <2>1, <2>2, ConcatProperties
  <2>4. QED
    BY <1>3, <2>3 DEF StepsAtStage
<1>4. CASE stage \in {"checkout", "push", "publish"}
  BY <1>1, <1>4 DEF StepsAtStage, CheckoutSteps
<1>5. QED
  BY <1>2, <1>3, <1>4 DEF WorkStages

\* A request at a stage of the workers dispatches a task, or throws.
LEMMA DispatchRow ==
    ASSUME NamedInv, PlansFit, NEW f \in Posts, Dispatch(f)
    PROVE  \E stage \in WorkStages :
             /\ At(f, stage)
             /\ stage = "edit" => flow[f].kind \in PostKinds \ {"deleteDraft"}
             /\ \/ SetFlow(f, Thrown(f)) /\ UNCHANGED task
                \/ \E t \in Tasks \ DOMAIN task, a \in TaskRow :
                     /\ SetTask(t, a) /\ SetFlow(f, [flow[f] EXCEPT !.task = t])
                     /\ a.workspace \in NamesUpto(used) /\ a.awaited /\ TaskFits(a)
                     /\ a.post = (IF stage = "edit" THEN f ELSE NoPost)
                     /\ a.left \in StepsAtStage(f, stage)
<1> DEFINE s == flow[f].site
<1>1. PICK stage \in WorkStages :
        /\ At(f, stage)
        /\ ~(stage = "edit" /\ flow[f].kind = "deleteDraft")
        /\ IF CanDispatch(s)
           THEN \E t \in Tasks, steps \in StepsAtStage(f, stage) :
                   /\ FreeTask(t)
                   /\ SetTask(t, Dispatched(s, IF stage = "edit" THEN f ELSE NoPost, steps, IsLast(f, stage)))
                   /\ SetFlow(f, [flow[f] EXCEPT !.task = t])
           ELSE SetFlow(f, Thrown(f)) /\ UNCHANGED task
  BY DEF Dispatch, WorkStages
<1>2. stage = "edit" => flow[f].kind \in PostKinds \ {"deleteDraft"}
  BY <1>1, PostStage DEF At, InFlight, NamedInv, FlowsFit, PlansFit
<1>3. CASE ~CanDispatch(s)
  BY <1>1, <1>2, <1>3
<1>4. CASE CanDispatch(s)
  <2>1. PICK t \in Tasks, steps \in StepsAtStage(f, stage) :
          /\ FreeTask(t)
          /\ SetTask(t, Dispatched(s, IF stage = "edit" THEN f ELSE NoPost, steps, IsLast(f, stage)))
          /\ SetFlow(f, [flow[f] EXCEPT !.task = t])
    BY <1>1, <1>4
  <2> DEFINE p == IF stage = "edit" THEN f ELSE NoPost
             b == [site |-> s, post |-> p, workspace |-> workspace[s], left |-> steps, promise |-> "pending",
                   job |-> "none", unlock |-> IF IsLast(f, stage) THEN "onExit" ELSE "no", awaited |-> TRUE]
             a == Invoked(b)
  <2>2. s \in Sites /\ workspace[s] \in NamesUpto(used) /\ workspace[s] \in Workspaces
    BY <1>4 DEF CanDispatch, NamedInv, FlowsFit, FlowRow, KeysFit, NamesUpto
  <2>3. steps \in Seq(Methods)
    BY <1>2, StepsTyped
  <2>4. b \in TaskRow /\ b.workspace = workspace[s] /\ b.promise = "pending" /\ b.left = steps
        /\ b.post = p /\ b.awaited
    BY <2>2, <2>3 DEF TaskRow
  <2>5. a = Dispatched(s, p, steps, IsLast(f, stage))
    BY DEF Dispatched
  <2>6. SetTask(t, a)
    BY <2>1, <2>5
  <2> HIDE DEF b
  <2>7. a \in TaskRow /\ SameTask(a, b) /\ a.left = b.left /\ a.awaited = b.awaited /\ TaskFits(a)
    BY <2>4, InvokedRow
  <2> HIDE DEF a
  <2>8. a.workspace \in NamesUpto(used) /\ a.awaited /\ a.post = p /\ a.left \in StepsAtStage(f, stage)
    BY <2>2, <2>4, <2>7 DEF SameTask
  <2>9. t \in Tasks \ DOMAIN task
    BY <2>1 DEF FreeTask
  <2>10. QED
    BY <1>1, <1>2, <2>1, <2>6, <2>7, <2>8, <2>9
<1>5. QED
  BY <1>3, <1>4

\* A request that waits for a task is at a stage of the workers, and the task is kept
\* for it.
HeldInv ==
    /\ \A t \in DOMAIN task : TaskFits(task[t])
    /\ \A f \in Posts : flow[f].task # 0 =>
         /\ flow[f].plan # <<>> /\ Head(flow[f].plan) \in WorkStages
         /\ flow[f].task \in DOMAIN task /\ task[flow[f].task].awaited
         /\ \A g \in Posts : flow[g].task = flow[f].task => g = f

BaseInv == NamedInv /\ PlansFit /\ HeldInv

\* A step of a request that waits for no task, before and after.
LEMMA FlowHeld ==
    ASSUME NamedInv, HeldInv, NEW f \in Posts, NEW q, SetFlow(f, q), q.task = 0, UNCHANGED task
    PROVE  HeldInv'
<1>1. \A g \in Posts : flow'[g] = IF g = f THEN q ELSE flow[g]
  BY DEF SetFlow, NamedInv, FlowsFit
<1>2. ASSUME NEW g \in Posts, flow'[g].task # 0
      PROVE  /\ flow'[g].plan # <<>> /\ Head(flow'[g].plan) \in WorkStages
             /\ flow'[g].task \in DOMAIN task' /\ task'[flow'[g].task].awaited
             /\ \A h \in Posts : flow'[h].task = flow'[g].task => h = g
  <2>1. g # f /\ flow'[g] = flow[g]
    BY <1>1, <1>2
  <2>2. /\ flow[g].plan # <<>> /\ Head(flow[g].plan) \in WorkStages
        /\ flow[g].task \in DOMAIN task /\ task[flow[g].task].awaited
        /\ \A h \in Posts : flow[h].task = flow[g].task => h = g
    BY <1>2, <2>1 DEF HeldInv
  <2>3. QED
    BY <1>1, <1>2, <2>1, <2>2
<1>3. QED
  BY <1>2 DEF HeldInv

\* A step of the tasks, none of which is forgotten while it is awaited.
LEMMA TasksHeld ==
    ASSUME HeldInv, UNCHANGED flow,
           \A u \in DOMAIN task' : TaskFits(task'[u]),
           \A u \in DOMAIN task : task[u].awaited => u \in DOMAIN task' /\ task'[u].awaited
    PROVE  HeldInv'
  BY DEF HeldInv

\* What a step of a task makes of its row.
TaskMoves(t) ==
    JobDone(t) \/ StartJob(t) \/ FailJob(t) \/ ReadBeforeUnlock(t) \/ Unlock(t) \/ Timeout(t)

LEMMA TaskRowMoves ==
    ASSUME NamedInv, HeldInv, NEW t \in DOMAIN task, TaskMoves(t)
    PROVE  /\ UNCHANGED <<registered, used, restarts>>
           /\ \E a \in TaskRow :
                /\ SetTask(t, a) /\ SameTask(a, task[t]) /\ a.awaited = task[t].awaited /\ TaskFits(a)
                /\ \/ a.left = task[t].left
                   \/ JobDone(t) /\ task[t].left # <<>> /\ a.left = Tail(task[t].left)
<1>1. task[t] \in TaskRow /\ TaskFits(task[t])
  BY DEF NamedInv, ChainsFit, HeldInv
<1>2. CASE JobDone(t)
  <2>1. task[t].left # <<>> /\ task[t].promise # "resolved"
    BY <1>1, <1>2 DEF JobDone, CompleteJob, TaskFits
  <2>2. SetTask(t, Advanced(task[t])) /\ UNCHANGED <<registered, used, restarts>>
    BY <1>2 DEF JobDone, CompleteJob
  <2>3. QED
    BY <1>1, <1>2, <2>1, <2>2, AdvancedRow
<1>3. CASE StartJob(t)
  <2> DEFINE b == [task[t] EXCEPT !.job = "active"]
  <2>1. /\ b \in TaskRow /\ SameTask(b, task[t]) /\ b.awaited = task[t].awaited /\ TaskFits(b)
        /\ b.left = task[t].left
    BY <1>1, <1>3 DEF StartJob, TaskRow, SameTask, TaskFits
  <2>2. SetTask(t, b) /\ UNCHANGED <<registered, used, restarts>>
    BY <1>3 DEF StartJob
  <2> HIDE DEF b
  <2>3. QED
    BY <2>1, <2>2
<1>4. CASE FailJob(t)
  <2> DEFINE c == [task[t] EXCEPT !.job = "none"]
             b == Settled(c, "rejected")
  <2>1. /\ c \in TaskRow /\ SameTask(c, task[t]) /\ c.awaited = task[t].awaited /\ c.job = "none"
        /\ c.left = task[t].left /\ c.promise = task[t].promise
    BY <1>1 DEF TaskRow, SameTask
  <2>2. SetTask(t, b) /\ UNCHANGED <<registered, used, restarts>>
    BY <1>4 DEF FailJob
  <2> HIDE DEF c
  <2>3. /\ b \in TaskRow /\ SameTask(b, c) /\ b.left = c.left /\ b.job = c.job
        /\ b.awaited = c.awaited /\ b.promise \in {c.promise, "rejected"}
    BY <2>1, SettledRow
  <2> HIDE DEF b
  <2>4. SameTask(b, task[t]) /\ TaskFits(b)
    BY <1>1, <2>1, <2>3 DEF SameTask, TaskFits
  <2>5. QED
    BY <2>1, <2>2, <2>3, <2>4
<1>5. CASE Timeout(t)
  <2> DEFINE b == Settled(task[t], "rejected")
  <2>1. /\ b \in TaskRow /\ SameTask(b, task[t]) /\ b.left = task[t].left /\ b.job = task[t].job
        /\ b.awaited = task[t].awaited /\ b.promise \in {task[t].promise, "rejected"}
    BY <1>1, SettledRow
  <2>2. SetTask(t, b) /\ UNCHANGED <<registered, used, restarts>>
    BY <1>5 DEF Timeout
  <2> HIDE DEF b
  <2>3. TaskFits(b)
    BY <1>1, <2>1 DEF TaskFits
  <2>4. QED
    BY <2>1, <2>2, <2>3
<1>6. CASE ReadBeforeUnlock(t) \/ Unlock(t)
  <2>1. PICK v \in {"no", "delete"} : SetTask(t, [task[t] EXCEPT !.unlock = v])
    BY <1>6 DEF ReadBeforeUnlock, Unlock
  <2> DEFINE b == [task[t] EXCEPT !.unlock = v]
  <2>2. /\ b \in TaskRow /\ SameTask(b, task[t]) /\ b.awaited = task[t].awaited /\ TaskFits(b)
        /\ b.left = task[t].left
    BY <1>1 DEF TaskRow, SameTask, TaskFits
  <2>3. SetTask(t, b) /\ UNCHANGED <<registered, used, restarts>>
    BY <1>6, <2>1 DEF ReadBeforeUnlock, Unlock
  <2> HIDE DEF b
  <2>4. QED
    BY <2>2, <2>3
<1>7. QED
  BY <1>2, <1>3, <1>4, <1>5, <1>6 DEF TaskMoves

\* The keys after a step of the tasks.
LEMMA KeysMove ==
    ASSUME NamedInv, NEW t \in DOMAIN task,
           UNCHANGED used,
           \/ UNCHANGED workspace
           \/ \E s \in Sites : workspace' = [workspace EXCEPT ![s] = NoWorkspace]
           \/ workspace' = [workspace EXCEPT ![task[t].site] = task[t].workspace]
    PROVE  KeysFit'
<1>1. NoWorkspace \in NamesUpto(used) /\ task[t].workspace \in NamesUpto(used)
  BY ChainsAssumption DEF NamedInv, KeysFit, ChainsFit, NamesUpto, NoWorkspace
<1>2. QED
  BY <1>1 DEF NamedInv, KeysFit

\* The edit and the push of a job, in the rows of the posts.
LEMMA JobRela ==
    ASSUME NamedInv, NEW t \in DOMAIN task, JobDone(t), NEW f \in Posts
    PROVE  /\ rela'[f] \in RelaRow /\ rela'[f].state = rela[f].state
           /\ rela'[f].workspace = rela[f].workspace
           /\ rela'[f].edited = IF task[t].post = f /\ Head(task[t].left) \in EditMethods THEN task[t].workspace
                                ELSE rela[f].edited
           /\ rela'[f].pushed = (rela[f].pushed \/ (/\ Head(task[t].left) \in {"GIT_INIT_PUSH", "GIT_COMMIT_PUSH"}
                                                    /\ rela[f].edited = task[t].workspace))
           /\ rela'[f].edited \in NamesUpto(used)
<1>1. rela[f] \in RelaRow /\ rela[f].edited \in NamesUpto(used)
  BY DEF NamedInv, RelasFit
<1>2. task[t].workspace \in NamesUpto(used) /\ task[t].workspace \in Workspaces
  BY DEF NamedInv, ChainsFit, TaskRow
<1> DEFINE e == IF task[t].post = f /\ Head(task[t].left) \in EditMethods THEN task[t].workspace
                ELSE rela[f].edited
           p == rela[f].pushed \/ (/\ Head(task[t].left) \in {"GIT_INIT_PUSH", "GIT_COMMIT_PUSH"}
                                   /\ rela[f].edited = task[t].workspace)
<1>3. rela'[f] = [rela[f] EXCEPT !.edited = e, !.pushed = p]
  BY DEF JobDone
<1>4. e \in Workspaces \union {NoWorkspace} /\ e \in NamesUpto(used)
  BY <1>1, <1>2 DEF RelaRow
<1>5. p \in BOOLEAN
  BY <1>1, Zenon DEF RelaRow
<1> DEFINE r == rela'[f]
<1> HIDE DEF e, p, r
<1>6. r = [rela[f] EXCEPT !.edited = e, !.pushed = p]
  BY <1>3 DEF r
<1>7. /\ r \in RelaRow /\ r.state = rela[f].state /\ r.workspace = rela[f].workspace
      /\ r.edited = e /\ r.pushed = p
  BY <1>1, <1>4, <1>5, <1>6 DEF RelaRow
<1>8. QED
  BY <1>4, <1>7 DEF e, p, r

LEMMA MovesNamed ==
    ASSUME NamedInv, HeldInv, NEW t \in DOMAIN task, TaskMoves(t),
           JobDone(t) \/ UNCHANGED <<siteStatus, repo, flow, rela>>
    PROVE  NamedInv' /\ HeldInv'
<1>1. UNCHANGED <<registered, used, restarts>>
  BY TaskRowMoves
<1>2. PICK a \in TaskRow :
        SetTask(t, a) /\ SameTask(a, task[t]) /\ a.awaited = task[t].awaited /\ TaskFits(a)
  BY TaskRowMoves
<1>3. t \in Tasks /\ a.workspace \in NamesUpto(used)
  BY <1>2 DEF NamedInv, ChainsFit, SameTask
<1>4. /\ ChainsFit' /\ DOMAIN task' = DOMAIN task
      /\ \A u \in DOMAIN task' : task'[u] = IF u = t THEN a ELSE task[u]
  BY <1>1, <1>2, <1>3, TaskTyped DEF NamedInv
<1>5. KeysFit'
  <2>1. \/ UNCHANGED workspace
        \/ workspace' = [workspace EXCEPT ![task[t].site] = NoWorkspace]
    BY DEF TaskMoves, JobDone, CompleteJob, StartJob, FailJob, ReadBeforeUnlock, Unlock, Timeout
  <2>2. task[t].site \in Sites
    BY DEF NamedInv, ChainsFit, TaskRow
  <2>3. QED
    BY <1>1, <2>1, <2>2, KeysMove
<1>6. UNCHANGED <<siteStatus, flow>>
  BY DEF JobDone
<1>7. FlowsFit'
  BY <1>1, <1>6 DEF NamedInv, FlowsFit
<1>8. RelasFit'
  <2>1. CASE JobDone(t)
    <3>1. rela' = [f \in Posts |-> rela'[f]]
      BY <2>1 DEF JobDone
    <3>2. \A f \in Posts : /\ rela'[f] \in RelaRow /\ rela'[f].edited \in NamesUpto(used)
                           /\ rela'[f].workspace \in NamesUpto(used)
      BY <2>1, JobRela DEF NamedInv, RelasFit
    <3>3. QED
      BY <1>1, <3>1, <3>2 DEF RelasFit
  <2>2. CASE UNCHANGED rela
    BY <1>1, <2>2 DEF NamedInv, RelasFit
  <2>3. QED
    BY <2>1, <2>2
<1>9. ColumnsFit'
  <2>1. timeouts' \in Nat
    <3>1. timeouts' = timeouts \/ timeouts' = timeouts + 1
      BY DEF TaskMoves, JobDone, CompleteJob, StartJob, FailJob, ReadBeforeUnlock, Unlock, Timeout
    <3>2. QED
      BY <3>1 DEF NamedInv, ColumnsFit
  <2>2. repo' \in [Sites -> {"missing", "empty", "filled"}]
    BY DEF JobDone, NamedInv, ColumnsFit
  <2>3. QED
    BY <1>1, <1>6, <2>1, <2>2 DEF NamedInv, ColumnsFit
<1>10. HeldInv'
  <2>1. \A u \in DOMAIN task' : TaskFits(task'[u])
    BY <1>2, <1>4 DEF HeldInv
  <2>2. \A u \in DOMAIN task : task[u].awaited => u \in DOMAIN task' /\ task'[u].awaited
    BY <1>2, <1>4
  <2>3. QED
    BY <1>6, <2>1, <2>2, TasksHeld
<1>11. QED
  BY <1>4, <1>5, <1>7, <1>8, <1>9, <1>10 DEF NamedInv

\* The keys renewed and expired, and tasks forgotten.
LEMMA KeysNamed ==
    ASSUME NamedInv, HeldInv, UNCHANGED <<siteStatus, repo, flow, rela>>,
           \/ \E t \in DOMAIN task : RenewWorkspace(t) \/ Forget(t)
           \/ \E s \in Sites : ExpireWorkspace(s)
    PROVE  NamedInv' /\ HeldInv' /\ UNCHANGED <<registered, used, restarts>>
<1>1. CASE \E t \in DOMAIN task : RenewWorkspace(t)
  <2>1. PICK t \in DOMAIN task : RenewWorkspace(t)
    BY <1>1
  <2>2. KeysFit' /\ UNCHANGED <<registered, used, task, timeouts, restarts>>
    BY <2>1, KeysMove DEF RenewWorkspace
  <2>3. QED
    BY <2>2 DEF NamedInv, ChainsFit, FlowsFit, RelasFit, ColumnsFit, HeldInv
<1>2. CASE \E s \in Sites : ExpireWorkspace(s)
  <2>1. PICK s \in Sites : ExpireWorkspace(s)
    BY <1>2
  <2>2. NoWorkspace \in NamesUpto(used)
    BY ChainsAssumption DEF NamedInv, KeysFit, NamesUpto, NoWorkspace
  <2>3. KeysFit' /\ UNCHANGED <<registered, used, task, timeouts, restarts>>
    BY <2>1, <2>2 DEF ExpireWorkspace, NamedInv, KeysFit
  <2>4. QED
    BY <2>3 DEF NamedInv, ChainsFit, FlowsFit, RelasFit, ColumnsFit, HeldInv
<1>3. CASE \E t \in DOMAIN task : Forget(t)
  <2>1. PICK t \in DOMAIN task : Forget(t)
    BY <1>3
  <2>2. /\ UNCHANGED <<registered, workspace, used, timeouts, restarts>> /\ ~task[t].awaited
        /\ DOMAIN task' = DOMAIN task \ {t} /\ \A u \in DOMAIN task' : task'[u] = task[u]
    BY <2>1 DEF Forget, Without
  <2>3. ChainsFit'
    BY <2>2 DEF NamedInv, ChainsFit
  <2>4. HeldInv'
    <3>1. \A u \in DOMAIN task' : TaskFits(task'[u])
      BY <2>2 DEF HeldInv
    <3>2. \A u \in DOMAIN task : task[u].awaited => u \in DOMAIN task' /\ task'[u].awaited
      BY <2>2
    <3>3. QED
      BY <3>1, <3>2, TasksHeld
  <2>5. KeysFit' /\ FlowsFit' /\ RelasFit' /\ ColumnsFit'
    BY <2>2 DEF NamedInv, KeysFit, FlowsFit, RelasFit, ColumnsFit
  <2>6. QED
    BY <2>2, <2>3, <2>4, <2>5 DEF NamedInv
<1>4. QED
  BY <1>1, <1>2, <1>3

\* A dispatch, with the task that the request waits for from then on.
LEMMA DispatchBase ==
    ASSUME BaseInv, NEW f \in Posts, Dispatch(f)
    PROVE  BaseInv'
<1>1. NamedInv /\ PlansFit /\ HeldInv
  BY DEF BaseInv
<1>2. UNCHANGED <<registered, workspace, used, timeouts, restarts, siteStatus, repo, rela>>
  BY DEF Dispatch
<1>3. PICK stage \in WorkStages :
        /\ At(f, stage)
        /\ \/ SetFlow(f, Thrown(f)) /\ UNCHANGED task
           \/ \E t \in Tasks \ DOMAIN task, a \in TaskRow :
                /\ SetTask(t, a) /\ SetFlow(f, [flow[f] EXCEPT !.task = t])
                /\ a.workspace \in NamesUpto(used) /\ a.awaited /\ TaskFits(a)
  BY <1>1, DispatchRow
<1>4. CASE SetFlow(f, Thrown(f)) /\ UNCHANGED task
  <2>1. NamedInv'
    BY <1>1, <1>2, <1>4, ThrownRow, OnlyFlowNamed DEF NamedInv, ColumnsFit
  <2>2. PlansFit'
    BY <1>1, <1>4, CaughtFits, PlansStep
  <2>3. HeldInv'
    BY <1>1, <1>4, ThrownRow, FlowHeld
  <2>4. QED
    BY <2>1, <2>2, <2>3 DEF BaseInv
<1>5. ASSUME NEW t \in Tasks \ DOMAIN task, NEW a \in TaskRow,
             SetTask(t, a), SetFlow(f, [flow[f] EXCEPT !.task = t]),
             a.workspace \in NamesUpto(used), a.awaited, TaskFits(a)
      PROVE  BaseInv'
  <2> DEFINE q == [flow[f] EXCEPT !.task = t]
  <2>1. flow[f] \in FlowRow /\ flow[f].given \in NamesUpto(used) /\ flow[f].workspace \in NamesUpto(used)
    BY <1>1 DEF NamedInv, FlowsFit
  <2>2. t \in Tasks
    BY <1>5
  <2>3. /\ q \in FlowRow /\ Same(q, flow[f]) /\ q.plan = flow[f].plan /\ q.given = flow[f].given
        /\ q.workspace = flow[f].workspace /\ q.task = t
    BY <2>1, <2>2 DEF FlowRow, Same
  <2>4. SetFlow(f, q)
    BY <1>5
  <2> HIDE DEF q
  <2>5. /\ ChainsFit' /\ DOMAIN task' = DOMAIN task \union {t}
        /\ \A u \in DOMAIN task' : task'[u] = IF u = t THEN a ELSE task[u]
    BY <1>1, <1>2, <1>5, TaskTyped DEF NamedInv
  <2>6. KeysFit' /\ RelasFit' /\ ColumnsFit'
    BY <1>1, <1>2 DEF NamedInv, KeysFit, RelasFit, ColumnsFit
  <2>7. FlowsFit'
    BY <1>1, <1>2, <2>1, <2>3, <2>4, <2>6, FlowTyped, ChainsAssumption DEF NamedInv, KeysFit
  <2>8. PlansFit'
    BY <1>1, <2>3, <2>4, NextPlans
  <2>9. \A g \in Posts : flow'[g] = IF g = f THEN q ELSE flow[g]
    BY <1>1, <2>4 DEF SetFlow, NamedInv, FlowsFit
  <2>10. HeldInv'
    <3>1. \A u \in DOMAIN task' : TaskFits(task'[u])
      BY <1>1, <1>5, <2>5 DEF HeldInv
    <3>2. ASSUME NEW g \in Posts, flow'[g].task # 0
          PROVE  /\ flow'[g].plan # <<>> /\ Head(flow'[g].plan) \in WorkStages
                 /\ flow'[g].task \in DOMAIN task' /\ task'[flow'[g].task].awaited
                 /\ \A h \in Posts : flow'[h].task = flow'[g].task => h = g
      <4>1. \A h \in Posts : flow[h].task # 0 => flow[h].task \in DOMAIN task /\ task[flow[h].task].awaited
        BY <1>1 DEF HeldInv
      <4>2. t # 0
        BY <1>5 DEF Tasks
      <4>3. CASE g = f
        <5>1. flow'[g].plan # <<>> /\ Head(flow'[g].plan) \in WorkStages
          BY <1>3, <2>3, <2>9, <4>3 DEF At, InFlight
        <5>2. flow'[g].task \in DOMAIN task' /\ task'[flow'[g].task].awaited
          BY <1>5, <2>3, <2>5, <2>9, <4>3
        <5>3. \A h \in Posts : flow'[h].task = flow'[g].task => h = g
          BY <1>5, <2>3, <2>9, <4>1, <4>2, <4>3
        <5>4. QED
          BY <5>1, <5>2, <5>3
      <4>4. CASE g # f
        <5>1. /\ flow[g].plan # <<>> /\ Head(flow[g].plan) \in WorkStages
              /\ flow[g].task \in DOMAIN task /\ task[flow[g].task].awaited
              /\ \A h \in Posts : flow[h].task = flow[g].task => h = g
          BY <1>1, <2>9, <3>2, <4>4 DEF HeldInv
        <5>2. flow'[g] = flow[g]
          BY <2>9, <4>4
        <5>3. \A h \in Posts : flow'[h].task = flow'[g].task => h = g
          BY <1>5, <2>3, <2>9, <5>1, <5>2
        <5>4. flow'[g].task \in DOMAIN task' /\ task'[flow'[g].task].awaited
          BY <1>5, <2>5, <5>1, <5>2
        <5>5. QED
          BY <5>1, <5>2, <5>3, <5>4
      <4>5. QED
        BY <4>3, <4>4
    <3>3. QED
      BY <3>1, <3>2 DEF HeldInv
  <2>11. QED
    BY <2>5, <2>6, <2>7, <2>8, <2>10 DEF BaseInv, NamedInv
<1>6. QED
  BY <1>3, <1>4, <1>5

\* A request that has waited goes on, or throws; its task is no longer awaited.
LEMMA AwaitRow ==
    ASSUME BaseInv, NEW f \in Posts, Await(f)
    PROVE  LET t == flow[f].task IN
           /\ t \in DOMAIN task /\ InFlight(f) /\ Head(flow[f].plan) \in WorkStages
           /\ \E a \in TaskRow :
                SetTask(t, a) /\ SameTask(a, task[t]) /\ a.left = task[t].left /\ TaskFits(a)
           /\ \E q \in FlowRow :
                /\ SetFlow(f, q) /\ Same(q, flow[f]) /\ q.given = flow[f].given
                /\ q.workspace = flow[f].workspace /\ q.original = flow[f].original /\ q.task = 0
                /\ \/ task[t].promise = "resolved" /\ q.plan = Tail(flow[f].plan)
                   \/ q = Thrown(f)
<1> DEFINE t == flow[f].task
<1>1. NamedInv /\ HeldInv /\ t # 0
  BY DEF BaseInv, Await
<1>2. t \in DOMAIN task /\ InFlight(f) /\ Head(flow[f].plan) \in WorkStages
  BY <1>1 DEF HeldInv, InFlight
<1>3. \E a \in TaskRow :
         SetTask(t, a) /\ SameTask(a, task[t]) /\ a.left = task[t].left /\ TaskFits(a)
  <2>1. task[t] \in TaskRow /\ TaskFits(task[t])
    BY <1>1, <1>2 DEF NamedInv, ChainsFit, HeldInv
  <2> DEFINE b == Awaited(t)
  <2>2. b \in TaskRow /\ SameTask(b, task[t]) /\ b.left = task[t].left /\ TaskFits(b)
    <3>1. b = [task[t] EXCEPT !.awaited = FALSE, !.unlock = IF task[t].unlock = "onExit" THEN "read" ELSE task[t].unlock]
      BY <2>1 DEF Awaited
    <3> HIDE DEF b
    <3>2. QED
      BY <2>1, <3>1 DEF TaskRow, SameTask, TaskFits
  <2>3. SetTask(t, b)
    BY DEF Await
  <2> HIDE DEF b
  <2>4. QED
    BY <2>2, <2>3
<1>4. CASE task[t].promise = "resolved" /\ SetFlow(f, [Done(f) EXCEPT !.task = 0])
  <2> DEFINE d == Done(f)
             q == [d EXCEPT !.task = 0]
  <2>1. /\ d \in FlowRow /\ Same(d, flow[f]) /\ d.plan = Tail(flow[f].plan) /\ d.given = flow[f].given
        /\ d.workspace = flow[f].workspace /\ d.original = flow[f].original
    BY <1>1, <1>2, DoneRow
  <2>2. SetFlow(f, q)
    BY <1>4
  <2> HIDE DEF d
  <2>3. /\ q \in FlowRow /\ Same(q, flow[f]) /\ q.plan = Tail(flow[f].plan) /\ q.given = flow[f].given
        /\ q.workspace = flow[f].workspace /\ q.original = flow[f].original /\ q.task = 0
    BY <2>1 DEF FlowRow, Same
  <2> HIDE DEF q
  <2>4. QED
    BY <1>2, <1>3, <1>4, <2>2, <2>3
<1>5. CASE SetFlow(f, Thrown(f))
  BY <1>1, <1>2, <1>3, <1>5, ThrownRow
<1>6. QED
  BY <1>4, <1>5 DEF Await

LEMMA AwaitBase ==
    ASSUME BaseInv, NEW f \in Posts, Await(f)
    PROVE  BaseInv'
<1> DEFINE t == flow[f].task
<1>1. NamedInv /\ PlansFit /\ HeldInv /\ t # 0
  BY DEF BaseInv, Await
<1>2. UNCHANGED <<registered, workspace, used, timeouts, restarts, siteStatus, repo, rela>>
  BY DEF Await
<1>3. t \in DOMAIN task /\ InFlight(f)
  BY AwaitRow
<1>4. PICK a \in TaskRow : SetTask(t, a) /\ SameTask(a, task[t]) /\ TaskFits(a)
  BY AwaitRow
<1>5. PICK q \in FlowRow :
        /\ SetFlow(f, q) /\ Same(q, flow[f]) /\ q.given = flow[f].given
        /\ q.workspace = flow[f].workspace /\ q.task = 0
        /\ (q.plan = Tail(flow[f].plan) \/ q = Thrown(f))
  BY AwaitRow
<1>6. t \in Tasks /\ a.workspace \in NamesUpto(used)
  BY <1>1, <1>3, <1>4 DEF NamedInv, ChainsFit, SameTask
<1>7. /\ ChainsFit' /\ DOMAIN task' = DOMAIN task
      /\ \A u \in DOMAIN task' : task'[u] = IF u = t THEN a ELSE task[u]
  BY <1>1, <1>2, <1>3, <1>4, <1>6, TaskTyped DEF NamedInv
<1>8. KeysFit' /\ RelasFit' /\ ColumnsFit'
  BY <1>1, <1>2 DEF NamedInv, KeysFit, RelasFit, ColumnsFit
<1>9. FlowsFit'
  BY <1>1, <1>2, <1>5, <1>8, FlowTyped, ChainsAssumption DEF NamedInv, KeysFit, FlowsFit
<1>10. PlansFit'
  <2>1. CASE q.plan = Tail(flow[f].plan)
    BY <1>1, <1>3, <1>5, <2>1, NextPlans DEF InFlight
  <2>2. CASE q = Thrown(f)
    BY <1>1, <1>5, <2>2, CaughtFits, PlansStep
  <2>3. QED
    BY <1>5, <2>1, <2>2
<1>11. HeldInv'
  <2>1. \A g \in Posts : flow'[g] = IF g = f THEN q ELSE flow[g]
    BY <1>1, <1>5 DEF SetFlow, NamedInv, FlowsFit
  <2>2. \A u \in DOMAIN task' : TaskFits(task'[u])
    BY <1>1, <1>4, <1>7 DEF HeldInv
  <2>3. ASSUME NEW g \in Posts, flow'[g].task # 0
        PROVE  /\ flow'[g].plan # <<>> /\ Head(flow'[g].plan) \in WorkStages
               /\ flow'[g].task \in DOMAIN task' /\ task'[flow'[g].task].awaited
               /\ \A h \in Posts : flow'[h].task = flow'[g].task => h = g
    <3>1. g # f /\ flow'[g] = flow[g]
      BY <1>5, <2>1, <2>3
    <3>2. /\ flow[g].plan # <<>> /\ Head(flow[g].plan) \in WorkStages
          /\ flow[g].task \in DOMAIN task /\ task[flow[g].task].awaited
          /\ \A h \in Posts : flow[h].task = flow[g].task => h = g
      BY <1>1, <2>3, <3>1 DEF HeldInv
    <3>3. flow[g].task # t
      BY <3>1, <3>2
    <3>4. flow'[g].task \in DOMAIN task' /\ task'[flow'[g].task].awaited
      BY <1>7, <3>1, <3>2, <3>3
    <3>5. \A h \in Posts : flow'[h].task = flow'[g].task => h = g
      BY <1>5, <2>1, <2>3, <3>1, <3>2
    <3>6. QED
      BY <3>1, <3>2, <3>4, <3>5
  <2>4. QED
    BY <2>2, <2>3 DEF HeldInv
<1>12. QED
  BY <1>7, <1>8, <1>9, <1>10, <1>11 DEF BaseInv, NamedInv

LEMMA RestartBase ==
    ASSUME BaseInv, TasksRestart
    PROVE  BaseInv'
<1>1. NamedInv /\ PlansFit /\ HeldInv
  BY DEF BaseInv
<1>2. UNCHANGED <<registered, workspace, used, timeouts, siteStatus, repo, rela>> /\ restarts' = restarts + 1
  BY DEF TasksRestart, ChainsRestart
<1>3. PICK jobs \in [DOMAIN task -> {"none", "waiting"}] :
        /\ \A t \in DOMAIN task : /\ task[t].job = "none" => jobs[t] = "none"
                                  /\ task[t].job = "waiting" => jobs[t] = "waiting"
        /\ task' = AfterRestart(jobs)
  BY DEF TasksRestart, ChainsRestart
<1>4. DOMAIN task' = DOMAIN task
  BY <1>3 DEF AfterRestart
<1>5. ASSUME NEW t \in DOMAIN task
      PROVE  task'[t] \in TaskRow /\ task'[t].workspace \in NamesUpto(used) /\ TaskFits(task'[t])
  <2>1. /\ task[t] \in TaskRow /\ task[t].workspace \in NamesUpto(used) /\ TaskFits(task[t])
        /\ jobs[t] \in {"none", "waiting"} /\ (task[t].job = "none" => jobs[t] = "none")
    BY <1>1, <1>3 DEF NamedInv, ChainsFit, HeldInv
  <2> DEFINE b == task'[t]
             promise == IF task[t].promise = "pending" THEN "lost" ELSE task[t].promise
  <2>2. b = [task[t] EXCEPT !.promise = promise, !.unlock = "no", !.awaited = FALSE, !.job = jobs[t]]
    BY <1>3, <2>1 DEF AfterRestart, TaskRow
  <2>3. promise \in {"pending", "resolved", "rejected", "lost"} /\ (promise = "resolved" => task[t].promise = "resolved")
    BY <2>1 DEF TaskRow
  <2> HIDE DEF b, promise
  <2>4. /\ b \in TaskRow /\ b.workspace = task[t].workspace /\ b.left = task[t].left
        /\ b.job = jobs[t] /\ b.promise = promise
    BY <2>1, <2>2, <2>3 DEF TaskRow
  <2>5. TaskFits(b)
    BY <2>1, <2>3, <2>4 DEF TaskFits
  <2>6. QED
    BY <2>1, <2>4, <2>5 DEF b
<1>6. ChainsFit'
  BY <1>1, <1>2, <1>4, <1>5 DEF NamedInv, ChainsFit
<1>7. ASSUME NEW f \in Posts
      PROVE  /\ flow'[f] \in FlowRow /\ flow'[f].plan = <<>> /\ flow'[f].task = 0
             /\ flow'[f].given = flow[f].given /\ flow'[f].workspace = flow[f].workspace
  <2>1. flow[f] \in FlowRow /\ <<>> \in Seq(Stages)
    BY <1>1, EmptySeq DEF NamedInv, FlowsFit
  <2> DEFINE b == flow'[f]
  <2>2. b = [flow[f] EXCEPT !.plan = <<>>, !.generating = FALSE, !.task = 0]
    BY DEF TasksRestart
  <2> HIDE DEF b
  <2>3. b \in FlowRow /\ b.plan = <<>> /\ b.task = 0 /\ b.given = flow[f].given /\ b.workspace = flow[f].workspace
    BY <2>1, <2>2 DEF FlowRow
  <2>4. QED
    BY <2>3 DEF b
<1>8. flow' = [f \in Posts |-> flow'[f]]
  BY DEF TasksRestart
<1>9. FlowsFit'
  BY <1>1, <1>2, <1>7, <1>8 DEF NamedInv, FlowsFit
<1>10. PlansFit' /\ HeldInv'
  BY <1>4, <1>5, <1>7 DEF PlansFit, PlanFits, HeldInv
<1>11. KeysFit' /\ RelasFit' /\ ColumnsFit'
  BY <1>1, <1>2 DEF NamedInv, KeysFit, RelasFit, ColumnsFit
<1>12. QED
  BY <1>6, <1>9, <1>10, <1>11 DEF BaseInv, NamedInv

\* The other steps of a request: what its row becomes.
LEMMA WaitlessRow ==
    ASSUME BaseInv, NEW f \in Posts,
           GetWorkspace(f) \/ LinkRela(f) \/ BeginPost(f) \/ WriteRelaState(f) \/ Passing(f) \/ StageThrows(f)
    PROVE  /\ flow[f].task = 0 /\ UNCHANGED task
           /\ \E q \in FlowRow : SetFlow(f, q) /\ PlanFits(q) /\ q.task = 0
<1>1. /\ NamedInv /\ PlansFit /\ flow[f] \in FlowRow /\ PlanFits(flow[f])
  BY DEF BaseInv, NamedInv, FlowsFit, PlansFit
<1>2. InFlight(f) /\ flow[f].plan # <<>> /\ flow[f].task = 0
  BY <1>1, PassingRow DEF GetWorkspace, LinkRela, BeginPost, WriteRelaState, StageThrows, At, InFlight
<1>3. ASSUME NEW q \in FlowRow, SetFlow(f, q), Same(q, flow[f]), q.task = 0,
             q.plan = flow[f].plan \/ q.plan = Tail(flow[f].plan)
      PROVE  PlanFits(q)
  <2>1. CASE q.plan = flow[f].plan
    BY <1>1, <1>3, <2>1 DEF PlanFits, Same
  <2>2. CASE q.plan = Tail(flow[f].plan)
    BY <1>1, <1>2, <1>3, <2>2, NextFits
  <2>3. QED
    BY <1>3, <2>1, <2>2
<1>4. CASE GetWorkspace(f)
  <2>1. UNCHANGED task
    BY <1>4 DEF GetWorkspace
  <2>2. PICK q \in FlowRow :
          /\ SetFlow(f, q) /\ Same(q, flow[f]) /\ q.task = flow[f].task
          /\ (q.plan = flow[f].plan \/ q.plan = Tail(flow[f].plan))
    BY <1>1, <1>4, WorkspaceRow
  <2>3. QED
    BY <1>2, <1>3, <2>1, <2>2
<1>5. CASE LinkRela(f) \/ WriteRelaState(f)
  <2>1. UNCHANGED task /\ SetFlow(f, Done(f))
    BY <1>5 DEF LinkRela, WriteRelaState
  <2>2. /\ Done(f) \in FlowRow /\ Same(Done(f), flow[f]) /\ Done(f).plan = Tail(flow[f].plan)
        /\ Done(f).task = 0
    BY <1>1, <1>2, DoneRow
  <2>3. QED
    BY <1>2, <1>3, <2>1, <2>2
<1>6. CASE BeginPost(f)
  <2>1. UNCHANGED task
    BY <1>6 DEF BeginPost
  <2>2. PICK q \in FlowRow :
          SetFlow(f, q) /\ Same(q, flow[f]) /\ q.plan = Tail(flow[f].plan) /\ q.task = flow[f].task
    BY <1>1, <1>6, BeginNamed
  <2>3. QED
    BY <1>2, <1>3, <2>1, <2>2
<1>7. CASE Passing(f)
  <2>1. UNCHANGED task
    BY <1>1, <1>7, PassingRow
  <2>2. PICK q \in FlowRow : SetFlow(f, q) /\ NextRow(q, flow[f])
    BY <1>1, <1>7, PassingRow
  <2>3. Same(q, flow[f]) /\ q.plan = Tail(flow[f].plan) /\ q.task = 0
    BY <1>2, <2>2 DEF NextRow
  <2>4. QED
    BY <1>2, <1>3, <2>1, <2>2, <2>3
<1>8. CASE StageThrows(f)
  BY <1>1, <1>2, <1>8, ThrownRow, CaughtFits DEF StageThrows
<1>9. QED
  BY <1>4, <1>5, <1>6, <1>7, <1>8

LEMMA WaitlessBase ==
    ASSUME BaseInv, NEW f \in Posts,
           GetWorkspace(f) \/ LinkRela(f) \/ BeginPost(f) \/ WriteRelaState(f) \/ Passing(f) \/ StageThrows(f)
    PROVE  BaseInv'
<1>1. NamedInv /\ PlansFit /\ HeldInv
  BY DEF BaseInv
<1>2. NamedInv'
  BY <1>1, WorkspaceNamed, LinkRelaNamed, BeginNamed, WriteRelaNamed, PassingNamed, ThrowsNamed
<1>3. PICK q \in FlowRow : SetFlow(f, q) /\ PlanFits(q) /\ q.task = 0 /\ UNCHANGED task
  BY WaitlessRow
<1>4. PlansFit' /\ HeldInv'
  BY <1>1, <1>3, PlansStep, FlowHeld
<1>5. QED
  BY <1>2, <1>4 DEF BaseInv

\* A new request.
LEMMA RequestBase ==
    ASSUME BaseInv, NEW f \in Posts, NEW s \in Sites, NEW kind \in PostKinds \union SiteKinds,
           Request(f, s, kind)
    PROVE  BaseInv'
<1> DEFINE q == [NoFlow(s) EXCEPT !.kind = kind, !.plan = Plan(kind)]
<1>1. NamedInv /\ PlansFit /\ HeldInv
  BY DEF BaseInv
<1>2. q \in FlowRow /\ q.kind = kind /\ q.plan = Plan(kind) /\ q.task = 0
  BY <1>1, RequestRow, ZenonT(30)
<1>3. SetFlow(f, q) /\ UNCHANGED task
  BY DEF Request
<1> HIDE DEF q
<1>4. PlanFits(q)
  <2>1. Len(Plan(kind)) \in Nat
    BY PlanTyped, LenProperties
  <2>2. Follows(Plan(kind), Plan(kind))
    BY <2>1 DEF Follows
  <2>3. kind # "none"
    BY DEF PostKinds, SiteKinds
  <2>4. QED
    BY <1>2, <2>2, <2>3 DEF PlanFits
<1>5. PlansFit' /\ HeldInv'
  BY <1>1, <1>2, <1>3, <1>4, PlansStep, FlowHeld
<1>6. QED
  BY <1>1, <1>5, RequestNamed DEF BaseInv

LEMMA BaseInit == TasksInit => BaseInv
<1> SUFFICES ASSUME TasksInit PROVE BaseInv
  OBVIOUS
<1>1. NamedInv
  BY NamedInit
<1>2. PICK s \in Sites : flow = [f \in Posts |-> NoFlow(s)]
  BY DEF TasksInit
<1>3. \A f \in Posts : flow[f].plan = <<>> /\ flow[f].task = 0
  BY <1>2 DEF NoFlow
<1>4. DOMAIN task = {}
  BY DEF TasksInit, ChainsInit
<1>5. QED
  BY <1>1, <1>3, <1>4 DEF BaseInv, PlansFit, PlanFits, HeldInv

\* The steps of the tasks and of the keys.
ChainSteps ==
    \/ \E t \in DOMAIN task :
          \/ JobDone(t)
          \/ (JobStep(t) \/ TimerStep(t)) /\ UNCHANGED <<siteStatus, repo, flow, rela>>
    \/ \E s \in Sites : ExpireWorkspace(s) /\ UNCHANGED <<siteStatus, repo, flow, rela>>

LEMMA ChainBase ==
    ASSUME BaseInv, ChainSteps
    PROVE  BaseInv' /\ UNCHANGED <<siteStatus, flow, used, restarts>>
<1>1. NamedInv /\ PlansFit /\ HeldInv
  BY DEF BaseInv
<1>2. ASSUME NEW t \in DOMAIN task, TaskMoves(t), JobDone(t) \/ UNCHANGED <<siteStatus, repo, flow, rela>>
      PROVE  BaseInv' /\ UNCHANGED <<siteStatus, flow, used, restarts>>
  <2>1. NamedInv' /\ HeldInv'
    BY <1>1, <1>2, MovesNamed
  <2>2. UNCHANGED <<siteStatus, flow>>
    BY <1>2 DEF JobDone
  <2>3. UNCHANGED <<used, restarts>>
    BY <1>1, <1>2, TaskRowMoves
  <2>4. PlansFit'
    BY <1>1, <2>2 DEF PlansFit
  <2>5. QED
    BY <2>1, <2>2, <2>3, <2>4 DEF BaseInv
<1>3. ASSUME UNCHANGED <<siteStatus, repo, flow, rela>>,
             \/ \E t \in DOMAIN task : RenewWorkspace(t) \/ Forget(t)
             \/ \E s \in Sites : ExpireWorkspace(s)
      PROVE  BaseInv' /\ UNCHANGED <<siteStatus, flow, used, restarts>>
  <2>1. NamedInv' /\ HeldInv' /\ UNCHANGED <<used, restarts>>
    BY <1>1, <1>3, KeysNamed
  <2>2. PlansFit'
    BY <1>1, <1>3 DEF PlansFit
  <2>3. QED
    BY <1>3, <2>1, <2>2 DEF BaseInv
<1>4. QED
  BY <1>2, <1>3 DEF ChainSteps, JobStep, TimerStep, TaskMoves

LEMMA BaseNext == BaseInv /\ [TasksNext]_taskVars => BaseInv'
<1> SUFFICES ASSUME BaseInv, [TasksNext]_taskVars PROVE BaseInv'
  OBVIOUS
<1>1. ASSUME NEW f \in Posts, NEW s \in Sites, PostRequest(f, s) \/ SiteRequest(f, s)
      PROVE  BaseInv'
  BY <1>1, RequestBase DEF PostRequest, SiteRequest
<1>2. ASSUME NEW f \in Posts, FlowStep(f)
      PROVE  BaseInv'
  BY <1>2, WaitlessBase, DispatchBase, AwaitBase DEF FlowStep, Passing
<1>3. CASE ChainSteps
  BY <1>3, ChainBase
<1>4. CASE TasksRestart
  BY <1>4, RestartBase
<1>5. CASE UNCHANGED taskVars
  BY <1>5 DEF taskVars, BaseInv, NamedInv, KeysFit, ChainsFit, FlowsFit, RelasFit, ColumnsFit, PlansFit, HeldInv
<1>6. QED
  BY <1>1, <1>2, <1>3, <1>4, <1>5 DEF TasksNext, ChainSteps

\* The keys, tasks, requests and rows keep their types, for any number of each; and
\* every request follows the stages of its kind.
THEOREM TasksTypeCorrect == TasksSpec => []TasksTypeOK
<1>1. BaseInv => TasksTypeOK
  BY NamedTypes DEF BaseInv
<1>2. QED
  BY BaseInit, BaseNext, <1>1, PTL DEF TasksSpec

-----------------------------------------------------------------------------
(* What a request that has come to a stage has done. *)

\* A request of a post has at most its last n stages before it.
Upto(q, n) ==
    q.kind \in PostKinds /\ q.plan # <<>> /\ Len(q.plan) <= n /\ Follows(q.plan, PostStages)

Failing(q) == q.kind \in PostKinds /\ q.plan = <<"fail">>

\* Only a request that has linked its row fails with a state to write: its plan is not
\* one of the stages to come.
LEMMA FailPlan == Len(<<"fail">>) = 1 /\ <<"fail">>[1] = "fail" /\ <<"fail">> # <<>> /\ ~Follows(<<"fail">>, PostStages)
<1>1. Len(<<"fail">>) = 1
  OBVIOUS
<1>2. <<"fail">>[1] = "fail"
  OBVIOUS
<1>3. <<"fail">> # <<>>
  OBVIOUS
<1>4. Len(PostStages) = 10 /\ PostStages[10] = "success"
  BY DEF PostStages
<1>5. ~Follows(<<"fail">>, PostStages)
  <2> DEFINE p == <<"fail">>
  <2>1. Len(p) = 1 /\ p[1] = "fail"
    BY <1>1, <1>2
  <2> HIDE DEF p
  <2>2. SUFFICES ASSUME Follows(p, PostStages) PROVE FALSE
    BY DEF p
  <2>3. \A i \in 1..Len(p) : p[i] = PostStages[Len(PostStages) - Len(p) + i]
    BY <2>2 DEF Follows
  <2>4. p[1] = PostStages[10 - 1 + 1]
    BY <1>4, <2>1, <2>3
  <2>5. QED
    BY <1>4, <2>1, <2>4
<1>6. QED
  BY <1>1, <1>2, <1>3, <1>5

\* The request q with the row r, when n names have been given out: what has been given
\* a workspace, linked, edited and pushed.
FlowFits(q, r, n) ==
    /\ Upto(q, 9) => q.given # NoWorkspace
    /\ Upto(q, 8) \/ Failing(q) => r.workspace # NoWorkspace
    /\ Upto(q, 2) => r.edited # NoWorkspace
    /\ Upto(q, 1) /\ n <= 1 => r.pushed

LEMMA NoFlowFits ==
    ASSUME NEW q, NEW r, NEW n, q.plan = <<>>
    PROVE  FlowFits(q, r, n)
<1>1. ~Failing(q)
  BY FailPlan DEF Failing
<1>2. \A k : ~Upto(q, k)
  BY DEF Upto
<1>3. QED
  BY <1>1, <1>2 DEF FlowFits

IsOne(s, methods) == Len(s) = 1 /\ s[1] \in methods

\* The task a that request f waits for at its edit, and at its push.
WaitFits(f, q, a, r, n) ==
    /\ Head(q.plan) = "edit" =>
         /\ a.post = f /\ (a.left = <<>> \/ IsOne(a.left, EditMethods))
         /\ a.left = <<>> => r.edited # NoWorkspace
    /\ Head(q.plan) = "push" =>
         /\ a.left = <<>> \/ IsOne(a.left, {"GIT_COMMIT_PUSH"})
         /\ a.left = <<>> /\ n <= 1 => r.pushed

\* The row of a post whose edit has been pushed.
IsPushed(r) == r.workspace # NoWorkspace /\ r.pushed

PushInv ==
    /\ \A f \in Posts : FlowFits(flow[f], rela[f], used)
    /\ \A f \in Posts :
          flow[f].task # 0 => WaitFits(f, flow[f], task[flow[f].task], rela[f], used)
    /\ \A f \in Posts :
          rela[f].state = "SUCCESS" /\ used <= 1 =>
             rela[f].workspace # NoWorkspace /\ \E g \in Posts : IsPushed(rela[g])

\* What a row of a post never loses.
RelaStays(a, b) ==
    /\ a.workspace # NoWorkspace => b.workspace # NoWorkspace
    /\ a.edited # NoWorkspace => b.edited # NoWorkspace
    /\ a.pushed => b.pushed

LEMMA FitsStill ==
    ASSUME NEW q, NEW a, NEW b, NEW n \in Nat, NEW m \in Nat, FlowFits(q, a, n), RelaStays(a, b), n <= m
    PROVE  FlowFits(q, b, m)
<1>1. m <= 1 => n <= 1
  OBVIOUS
<1>2. QED
  BY <1>1 DEF FlowFits, RelaStays

LEMMA WaitsStill ==
    ASSUME NEW f, NEW q, NEW a, NEW b, NEW r, NEW e, NEW n \in Nat, NEW m \in Nat,
           WaitFits(f, q, a, r, n), RelaStays(r, e), n <= m, b.post = a.post, b.left = a.left
    PROVE  WaitFits(f, q, b, e, m)
<1>1. m <= 1 => n <= 1
  OBVIOUS
<1>2. QED
  BY <1>1 DEF WaitFits, RelaStays

\* A step of one request, which is not waiting after it.
LEMMA PushFlow ==
    ASSUME BaseInv, PushInv, NEW f \in Posts, NEW q, SetFlow(f, q), q.task = 0,
           \A u \in DOMAIN task : task'[u].post = task[u].post /\ task'[u].left = task[u].left,
           \A g \in Posts : RelaStays(rela[g], rela'[g]), used' \in Nat, used <= used',
           FlowFits(q, rela'[f], used'),
           \A g \in Posts :
              rela'[g].state = "SUCCESS" /\ used' <= 1 =>
                 \/ rela[g].state = "SUCCESS"
                 \/ rela'[g].workspace # NoWorkspace /\ \E h \in Posts : IsPushed(rela'[h])
    PROVE  PushInv'
<1>1. \A g \in Posts : flow'[g] = IF g = f THEN q ELSE flow[g]
  BY DEF SetFlow, BaseInv, NamedInv, FlowsFit
<1>2. used \in Nat
  BY ChainsAssumption DEF BaseInv, NamedInv, KeysFit
<1>3. ASSUME NEW g \in Posts
      PROVE  FlowFits(flow'[g], rela'[g], used')
  <2>1. CASE g = f
    BY <1>1, <2>1
  <2>2. CASE g # f
    BY <1>1, <1>2, <2>2, FitsStill DEF PushInv
  <2>3. QED
    BY <2>1, <2>2
<1>4. ASSUME NEW g \in Posts, flow'[g].task # 0
      PROVE  WaitFits(g, flow'[g], task'[flow'[g].task], rela'[g], used')
  <2>1. g # f /\ flow'[g] = flow[g]
    BY <1>1, <1>4
  <2>2. /\ WaitFits(g, flow[g], task[flow[g].task], rela[g], used)
        /\ flow[g].task \in DOMAIN task
    BY <1>4, <2>1 DEF PushInv, BaseInv, HeldInv
  <2>3. QED
    BY <1>2, <2>1, <2>2, WaitsStill
<1>5. ASSUME NEW g \in Posts, rela'[g].state = "SUCCESS", used' <= 1
      PROVE  rela'[g].workspace # NoWorkspace /\ \E h \in Posts : IsPushed(rela'[h])
  <2>1. CASE rela[g].state = "SUCCESS"
    <3>1. used <= 1
      BY <1>2, <1>5
    <3>2. rela[g].workspace # NoWorkspace /\ \E h \in Posts : IsPushed(rela[h])
      BY <2>1, <3>1 DEF PushInv
    <3>3. QED
      BY <3>2 DEF RelaStays, IsPushed
  <2>2. QED
    BY <1>5, <2>1
<1>6. QED
  BY <1>3, <1>4, <1>5 DEF PushInv

\* The next stage of a request.
LEMMA NextFlowFits ==
    ASSUME NEW p \in FlowRow, PlanFits(p), p.plan # <<>>, NEW q, Same(q, p), q.plan = Tail(p.plan),
           NEW r, NEW e, NEW n \in Nat, NEW m \in Nat, n <= m, FlowFits(p, r, n), RelaStays(r, e),
           q.given = p.given \/ q.given # NoWorkspace,
           Head(p.plan) = "workspace" => q.given # NoWorkspace,
           Head(p.plan) = "link" => e.workspace # NoWorkspace,
           Head(p.plan) = "edit" => e.edited # NoWorkspace,
           Head(p.plan) = "push" /\ m <= 1 => e.pushed
    PROVE  FlowFits(q, e, m)
<1>1. CASE p.kind \notin PostKinds
  BY <1>1 DEF FlowFits, Upto, Failing, Same
<1>2. CASE p.kind \in PostKinds /\ q.plan = <<>>
  BY <1>2, NoFlowFits
<1>3. CASE p.kind \in PostKinds /\ q.plan # <<>>
  <2>1. p.plan # <<"fail">>
    <3>1. SUFFICES ASSUME p.plan = <<"fail">> PROVE FALSE
      OBVIOUS
    <3>2. p.plan \in Seq(Stages)
      BY DEF FlowRow
    <3>3. Tail(p.plan) \in Seq(Stages) /\ Len(Tail(p.plan)) = Len(p.plan) - 1
      BY <3>2, HeadTailProperties
    <3>4. Len(p.plan) = 1
      BY <3>1, FailPlan, Zenon
    <3>5. Len(Tail(p.plan)) = 0
      BY <3>3, <3>4
    <3>6. QED
      BY <1>3, <3>3, <3>5, EmptySeq
  <2> DEFINE k == Len(p.plan)
  <2>2. /\ Follows(p.plan, PostStages) /\ k \in 1..10 /\ Head(p.plan) = PostStages[11 - k]
        /\ Len(q.plan) = k - 1 /\ Follows(q.plan, PostStages)
    BY <1>3, <2>1, PostAt
  <2> HIDE DEF k
  <2>3. \A j \in Nat : Upto(q, j) => k <= j + 1
    BY <2>2 DEF Upto
  <2>4. \A j \in Nat : k <= j => Upto(p, j)
    BY <1>3, <2>2 DEF Upto, k
  <2>5. ~Failing(q)
    BY <2>2, FailPlan DEF Failing
  <2>6. /\ k = 10 => Head(p.plan) = "workspace"
        /\ k = 9 => Head(p.plan) = "link"
        /\ k = 3 => Head(p.plan) = "edit"
        /\ k = 2 => Head(p.plan) = "push"
    <3>1. /\ PostStages[1] = "workspace" /\ PostStages[2] = "link"
          /\ PostStages[8] = "edit" /\ PostStages[9] = "push"
      BY DEF PostStages
    <3>2. QED
      BY <2>2, <3>1
  <2>7. Upto(q, 9) => q.given # NoWorkspace
    <3>1. CASE k = 10
      BY <2>6, <3>1
    <3>2. CASE k # 10
      BY <2>2, <2>4, <3>2 DEF FlowFits
    <3>3. QED
      BY <3>1, <3>2
  <2>8. Upto(q, 8) => e.workspace # NoWorkspace
    <3>1. CASE k = 9
      BY <2>6, <3>1
    <3>2. CASE k # 9
      BY <2>2, <2>3, <2>4, <3>2 DEF FlowFits, RelaStays
    <3>3. QED
      BY <3>1, <3>2
  <2>9. Upto(q, 2) => e.edited # NoWorkspace
    <3>1. CASE k = 3
      BY <2>6, <3>1
    <3>2. CASE k # 3
      BY <2>2, <2>3, <2>4, <3>2 DEF FlowFits, RelaStays
    <3>3. QED
      BY <3>1, <3>2
  <2>10. Upto(q, 1) /\ m <= 1 => e.pushed
    <3>1. CASE k = 2
      BY <2>6, <3>1
    <3>2. CASE k # 2
      <4>1. Upto(q, 1) => Upto(p, 1)
        BY <2>2, <2>3, <2>4, <3>2
      <4>2. m <= 1 => n <= 1
        OBVIOUS
      <4>3. QED
        BY <4>1, <4>2 DEF FlowFits, RelaStays
    <3>3. QED
      BY <3>1, <3>2
  <2>11. QED
    BY <2>5, <2>7, <2>8, <2>9, <2>10 DEF FlowFits
<1>4. QED
  BY <1>1, <1>2, <1>3

\* An error: only a request that has been linked catches it with a state to write.
LEMMA ThrownFits ==
    ASSUME BaseInv, PushInv, NEW f \in Posts, InFlight(f), NEW n
    PROVE  FlowFits(Thrown(f), rela[f], n)
<1>1. /\ NamedInv /\ flow[f] \in FlowRow /\ PlanFits(flow[f]) /\ flow[f].plan # <<>>
      /\ FlowFits(flow[f], rela[f], used)
  BY DEF BaseInv, NamedInv, FlowsFit, PlansFit, PushInv, InFlight
<1>2. Thrown(f).plan = Catch(f) /\ Thrown(f).kind = flow[f].kind
  BY <1>1, ThrownRow DEF Same
<1>3. CASE flow[f].kind \notin PostKinds
  BY <1>2, <1>3 DEF FlowFits, Upto, Failing
<1>4. CASE flow[f].kind \in PostKinds /\ Head(flow[f].plan) \in {"config", "checkout", "postConfig", "edit", "push"}
  <2>1. Catch(f) = <<"fail">>
    BY <1>4 DEF Catch, PostKinds
  <2>2. Thrown(f).plan = <<"fail">> /\ ~Follows(Thrown(f).plan, PostStages)
    BY <1>2, <2>1, FailPlan, Zenon
  <2>3. rela[f].workspace # NoWorkspace
    <3>1. /\ Follows(flow[f].plan, PostStages) /\ Len(flow[f].plan) \in 1..10
          /\ Head(flow[f].plan) = PostStages[11 - Len(flow[f].plan)]
      BY <1>1, <1>4, PostAt
    <3>2. PostStages[1] = "workspace" /\ PostStages[2] = "link"
      BY DEF PostStages
    <3>3. Len(flow[f].plan) <= 8
      <4> DEFINE k == Len(flow[f].plan)
                 h == Head(flow[f].plan)
      <4>1. k \in 1..10 /\ h = PostStages[11 - k] /\ h # "workspace" /\ h # "link"
        BY <1>4, <3>1
      <4> HIDE DEF k, h
      <4>2. k # 10 /\ k # 9
        BY <3>2, <4>1
      <4>3. k <= 8
        BY <4>1, <4>2
      <4>4. QED
        BY <4>3 DEF k
    <3>4. QED
      BY <1>1, <1>4, <3>1, <3>3 DEF FlowFits, Upto
  <2>4. QED
    BY <2>2, <2>3 DEF FlowFits, Upto
<1>5. CASE flow[f].kind \in PostKinds /\ Head(flow[f].plan) \notin {"config", "checkout", "postConfig", "edit", "push"}
  <2>1. Thrown(f).plan = <<>>
    BY <1>2, <1>5 DEF Catch, PostKinds
  <2>2. QED
    BY <2>1, NoFlowFits
<1>6. QED
  BY <1>3, <1>4, <1>5

\* Where in its stages a request of a post is.
LEMMA PostLen ==
    ASSUME NEW q \in FlowRow, PlanFits(q), q.plan # <<>>, NEW i \in {2, 3, 4, 8, 9, 10},
           Head(q.plan) = PostStages[i]
    PROVE  q.kind \in PostKinds /\ Len(q.plan) = 11 - i /\ Follows(q.plan, PostStages)
<1>1. PostStages[i] \in {"link", "begin", "doing", "edit", "push", "success"} /\ PostStages[i] # "fail"
  BY DEF PostStages
<1>2. q.kind \in PostKinds
  BY <1>1, PostStage
<1>3. \A j \in 1..10 : PostStages[j] = PostStages[i] => j = i
  BY DEF PostStages
<1>4. /\ Follows(q.plan, PostStages) /\ Len(q.plan) \in 1..10
      /\ Head(q.plan) = PostStages[11 - Len(q.plan)]
  BY <1>1, <1>2, PostAt
<1>5. 11 - Len(q.plan) \in 1..10
  <2>1. \A k \in 1..10 : 11 - k \in 1..10
    OBVIOUS
  <2>2. QED
    BY <1>4, <2>1
<1>6. 11 - Len(q.plan) = i
  BY <1>3, <1>4, <1>5
<1>7. QED
  BY <1>2, <1>4, <1>6

LEMMA PostUpto ==
    ASSUME NEW q \in FlowRow, PlanFits(q), q.plan # <<>>
    PROVE  /\ Head(q.plan) = "link" => Upto(q, 9)
           /\ Head(q.plan) = "push" => Upto(q, 2)
           /\ Head(q.plan) = "success" => Upto(q, 8) /\ Upto(q, 1)
<1>1. PostStages[2] = "link" /\ PostStages[9] = "push" /\ PostStages[10] = "success"
  BY DEF PostStages
<1>2. CASE Head(q.plan) = "link"
  <2>1. q.kind \in PostKinds /\ Len(q.plan) = 11 - 2 /\ Follows(q.plan, PostStages)
    BY <1>1, <1>2, PostLen
  <2>2. QED
    BY <1>2, <2>1 DEF Upto
<1>3. CASE Head(q.plan) = "push"
  <2>1. q.kind \in PostKinds /\ Len(q.plan) = 11 - 9 /\ Follows(q.plan, PostStages)
    BY <1>1, <1>3, PostLen
  <2>2. QED
    BY <1>3, <2>1 DEF Upto
<1>4. CASE Head(q.plan) = "success"
  <2>1. q.kind \in PostKinds /\ Len(q.plan) = 11 - 10 /\ Follows(q.plan, PostStages)
    BY <1>1, <1>4, PostLen
  <2>2. QED
    BY <1>4, <2>1 DEF Upto
<1>5. QED
  BY <1>2, <1>3, <1>4

LEMMA RequestPush ==
    ASSUME BaseInv, PushInv, NEW f \in Posts, NEW s \in Sites, NEW kind \in PostKinds \union SiteKinds,
           Request(f, s, kind)
    PROVE  PushInv'
<1> DEFINE q == [NoFlow(s) EXCEPT !.kind = kind, !.plan = Plan(kind)]
<1>1. q.kind = kind /\ q.plan = Plan(kind) /\ q.task = 0
  BY RequestRow, ZenonT(30) DEF BaseInv
<1>2. SetFlow(f, q) /\ UNCHANGED <<task, rela, used>>
  BY DEF Request
<1>3. used \in Nat
  BY ChainsAssumption DEF BaseInv, NamedInv, KeysFit
<1> HIDE DEF q
<1>4. FlowFits(q, rela[f], used)
  <2>1. CASE kind \in PostKinds
    <3>1. q.plan = PostStages
      BY <1>1, <2>1, PlanIs
    <3>2. Len(PostStages) = 10
      BY DEF PostStages
    <3>3. Len(q.plan) = 10
      BY <3>1, <3>2
    <3>4. q.plan # <<"fail">>
      BY <3>3, FailPlan
    <3>5. QED
      BY <3>3, <3>4 DEF FlowFits, Upto, Failing
  <2>2. CASE kind \notin PostKinds
    BY <1>1, <2>2 DEF FlowFits, Upto, Failing
  <2>3. QED
    BY <2>1, <2>2
<1>5. \A g \in Posts : RelaStays(rela[g], rela'[g])
  BY <1>2 DEF RelaStays
<1>6. FlowFits(q, rela'[f], used')
  BY <1>2, <1>4
<1>7. QED
  BY <1>1, <1>2, <1>3, <1>5, <1>6, PushFlow

\* A step to the next stage that leaves the tasks alone.
LEMMA NextPush ==
    ASSUME BaseInv, PushInv, NEW f \in Posts, InFlight(f), NEW q, SetFlow(f, q), UNCHANGED task,
           Same(q, flow[f]), q.plan = Tail(flow[f].plan), q.task = 0,
           \A g \in Posts : RelaStays(rela[g], rela'[g]), used' \in Nat, used <= used',
           q.given = flow[f].given \/ q.given # NoWorkspace,
           Head(flow[f].plan) = "workspace" => q.given # NoWorkspace,
           Head(flow[f].plan) = "link" => rela'[f].workspace # NoWorkspace,
           Head(flow[f].plan) \notin {"edit", "push"},
           \A g \in Posts :
              rela'[g].state = "SUCCESS" /\ used' <= 1 =>
                 \/ rela[g].state = "SUCCESS"
                 \/ rela'[g].workspace # NoWorkspace /\ \E h \in Posts : IsPushed(rela'[h])
    PROVE  PushInv'
<1>1. /\ flow[f] \in FlowRow /\ PlanFits(flow[f]) /\ flow[f].plan # <<>>
      /\ FlowFits(flow[f], rela[f], used) /\ used \in Nat
  BY ChainsAssumption DEF BaseInv, NamedInv, FlowsFit, PlansFit, PushInv, InFlight, KeysFit
<1>2. FlowFits(q, rela'[f], used')
  BY <1>1, NextFlowFits
<1>3. QED
  BY <1>2, PushFlow

LEMMA WorkspacePush ==
    ASSUME BaseInv, PushInv, NEW f \in Posts, GetWorkspace(f)
    PROVE  PushInv'
<1>1. /\ NamedInv /\ InFlight(f) /\ Head(flow[f].plan) = "workspace" /\ flow[f].task = 0
      /\ UNCHANGED <<task, rela>>
  BY DEF BaseInv, GetWorkspace, At
<1>2. used \in Nat /\ used' \in Nat /\ used <= used'
  <2>1. used \in Nat
    BY <1>1, ChainsAssumption DEF NamedInv, KeysFit
  <2>2. used' = used \/ used' = used + 1
    BY DEF GetWorkspace, GenerateWorkspace
  <2>3. QED
    BY <2>1, <2>2
<1>3. \A g \in Posts : RelaStays(rela[g], rela'[g])
  BY <1>1 DEF RelaStays
<1>4. PICK q \in FlowRow :
        /\ SetFlow(f, q) /\ Same(q, flow[f]) /\ q.task = flow[f].task
        /\ \/ q.plan = flow[f].plan /\ q.given = flow[f].given
           \/ q.plan = Tail(flow[f].plan) /\ q.given # NoWorkspace
  BY <1>1, WorkspaceRow
<1>5. CASE q.plan = flow[f].plan /\ q.given = flow[f].given
  <2>1. FlowFits(flow[f], rela[f], used)
    BY DEF PushInv
  <2>2. FlowFits(q, rela[f], used)
    BY <1>4, <1>5, <2>1 DEF FlowFits, Upto, Failing, Same
  <2>3. FlowFits(q, rela'[f], used')
    BY <1>2, <1>3, <2>2, FitsStill
  <2>4. QED
    BY <1>1, <1>2, <1>3, <1>4, <2>3, PushFlow
<1>6. CASE q.plan = Tail(flow[f].plan) /\ q.given # NoWorkspace
  <2>1. \A g \in Posts : rela'[g].state = rela[g].state
    BY <1>1
  <2>2. QED
    BY <1>1, <1>2, <1>3, <1>4, <1>6, <2>1, NextPush
<1>7. QED
  BY <1>4, <1>5, <1>6

LEMMA LinkPush ==
    ASSUME BaseInv, PushInv, NEW f \in Posts, LinkRela(f)
    PROVE  PushInv'
<1>1. /\ NamedInv /\ InFlight(f) /\ Head(flow[f].plan) = "link" /\ flow[f].task = 0
      /\ UNCHANGED <<task, used>> /\ SetFlow(f, Done(f))
  BY DEF BaseInv, LinkRela, At
<1>2. flow[f] \in FlowRow /\ PlanFits(flow[f]) /\ flow[f].plan # <<>> /\ FlowFits(flow[f], rela[f], used)
  BY <1>1 DEF BaseInv, NamedInv, FlowsFit, PlansFit, PushInv, InFlight
<1>3. flow[f].given # NoWorkspace /\ flow[f].kind \in PostKinds
  BY <1>1, <1>2, PostUpto DEF FlowFits, Upto
<1>4. ASSUME NEW g \in Posts
      PROVE  /\ RelaStays(rela[g], rela'[g]) /\ rela'[g].state = rela[g].state
             /\ g = f => rela'[g].workspace # NoWorkspace
  <2>1. rela[g] \in RelaRow
    BY <1>1 DEF NamedInv, RelasFit
  <2>2. CASE flow[g].kind \in PostKinds /\ flow[g].site = flow[f].site /\ TitleOf[g] = TitleOf[f]
    <3> DEFINE r == [rela[g] EXCEPT !.workspace = flow[f].given]
    <3>1. rela'[g] = r
      BY <2>2 DEF LinkRela
    <3>2. r.workspace = flow[f].given /\ r.state = rela[g].state /\ r.edited = rela[g].edited /\ r.pushed = rela[g].pushed
      BY <2>1 DEF RelaRow
    <3> HIDE DEF r
    <3>3. QED
      BY <1>3, <3>1, <3>2 DEF RelaStays
  <2>3. CASE ~(flow[g].kind \in PostKinds /\ flow[g].site = flow[f].site /\ TitleOf[g] = TitleOf[f])
    <3>1. rela'[g] = rela[g]
      BY <2>3 DEF LinkRela
    <3>2. g # f
      BY <1>3, <2>3
    <3>3. QED
      BY <3>1, <3>2 DEF RelaStays
  <2>4. QED
    BY <2>2, <2>3
<1>5. Same(Done(f), flow[f]) /\ Done(f).plan = Tail(flow[f].plan) /\ Done(f).task = 0 /\ Done(f).given = flow[f].given
  BY <1>1, DoneRow
<1>6. used \in Nat
  BY <1>1, ChainsAssumption DEF NamedInv, KeysFit
<1>7. QED
  BY <1>1, <1>4, <1>5, <1>6, NextPush

LEMMA PassPush ==
    ASSUME BaseInv, PushInv, NEW f \in Posts, BeginPost(f) \/ Passing(f)
    PROVE  PushInv'
<1>1. NamedInv /\ used \in Nat
  BY ChainsAssumption DEF BaseInv, NamedInv, KeysFit
<1>2. /\ InFlight(f) /\ Head(flow[f].plan) \notin {"workspace", "link", "edit", "push"} /\ flow[f].task = 0
      /\ UNCHANGED <<task, used, rela>>
  BY <1>1, PassingRow DEF BeginPost, At, PassedAt
<1>3. PICK q \in FlowRow :
        SetFlow(f, q) /\ Same(q, flow[f]) /\ q.plan = Tail(flow[f].plan) /\ q.task = flow[f].task
        /\ q.given = flow[f].given
  BY <1>1, BeginNamed, PassingRow DEF NextRow
<1>4. \A g \in Posts : RelaStays(rela[g], rela'[g]) /\ rela'[g].state = rela[g].state
  BY <1>2 DEF RelaStays
<1>5. QED
  BY <1>1, <1>2, <1>3, <1>4, NextPush

\* The state SUCCESS is written by a request that has linked and pushed.
LEMMA WritePush ==
    ASSUME BaseInv, PushInv, NEW f \in Posts, WriteRelaState(f)
    PROVE  PushInv'
<1>1. PICK stage \in {"doing", "success", "fail"} :
         /\ At(f, stage) /\ rela' = RelaWith(f, StateAtStage[stage]) /\ SetFlow(f, Done(f))
         /\ UNCHANGED <<registered, workspace, used, task, timeouts, restarts, siteStatus, repo>>
  BY DEF WriteRelaState, StateAtStage
<1>2. /\ NamedInv /\ InFlight(f) /\ Head(flow[f].plan) = stage /\ flow[f].task = 0
      /\ flow[f] \in FlowRow /\ PlanFits(flow[f]) /\ flow[f].plan # <<>> /\ FlowFits(flow[f], rela[f], used)
      /\ used \in Nat
  BY <1>1, ChainsAssumption DEF BaseInv, NamedInv, FlowsFit, PlansFit, PushInv, InFlight, At, KeysFit
<1>3. ASSUME NEW g \in Posts
      PROVE  /\ rela'[g].workspace = rela[g].workspace /\ rela'[g].edited = rela[g].edited
             /\ rela'[g].pushed = rela[g].pushed
             /\ rela'[g].state # rela[g].state =>
                  rela'[g].state = StateAtStage[stage] /\ rela[g].workspace # NoWorkspace
  <2>1. rela[g] \in RelaRow
    BY <1>2 DEF NamedInv, RelasFit
  <2>2. CASE /\ flow[f].workspace # NoWorkspace /\ rela[g].workspace = flow[f].workspace
             /\ flow[g].site = flow[f].site
    <3> DEFINE r == [rela[g] EXCEPT !.state = StateAtStage[stage]]
    <3>1. rela'[g] = r
      BY <1>1, <2>2 DEF RelaWith
    <3>2. /\ r.workspace = rela[g].workspace /\ r.state = StateAtStage[stage] /\ r.edited = rela[g].edited
          /\ r.pushed = rela[g].pushed
      BY <2>1 DEF RelaRow
    <3> HIDE DEF r
    <3>3. QED
      BY <2>2, <3>1, <3>2
  <2>3. CASE ~(/\ flow[f].workspace # NoWorkspace /\ rela[g].workspace = flow[f].workspace
               /\ flow[g].site = flow[f].site)
    BY <1>1, <2>3 DEF RelaWith
  <2>4. QED
    BY <2>2, <2>3
<1>4. \A g \in Posts : RelaStays(rela[g], rela'[g])
  BY <1>3 DEF RelaStays
<1>5. ASSUME NEW g \in Posts, rela'[g].state = "SUCCESS", used' <= 1, rela[g].state # "SUCCESS"
      PROVE  rela'[g].workspace # NoWorkspace /\ \E h \in Posts : IsPushed(rela'[h])
  <2>1. rela'[g].state = StateAtStage[stage] /\ rela'[g].workspace # NoWorkspace
    BY <1>3, <1>5
  <2>2. stage = "success"
    BY <1>5, <2>1 DEF StateAtStage
  <2>3. Upto(flow[f], 8) /\ Upto(flow[f], 1)
    BY <1>2, <2>2, PostUpto
  <2>4. rela[f].workspace # NoWorkspace /\ rela[f].pushed
    BY <1>1, <1>2, <1>5, <2>3 DEF FlowFits
  <2>5. IsPushed(rela'[f])
    BY <1>3, <2>4 DEF IsPushed
  <2>6. QED
    BY <2>1, <2>5
<1>6. Same(Done(f), flow[f]) /\ Done(f).plan = Tail(flow[f].plan) /\ Done(f).task = 0 /\ Done(f).given = flow[f].given
  BY <1>2, DoneRow
<1>7. Head(flow[f].plan) \notin {"workspace", "link", "edit", "push"}
  BY <1>2
<1>8. QED
  BY <1>1, <1>2, <1>4, <1>5, <1>6, <1>7, NextPush

\* The steps a task is dispatched with for the edit and for the push.
LEMMA EditAndPush ==
    ASSUME NEW f \in Posts, NEW stage \in {"edit", "push"},
           stage = "edit" => flow[f].kind \in PostKinds \ {"deleteDraft"},
           NEW left \in StepsAtStage(f, stage)
    PROVE  left # <<>> /\ IsOne(left, IF stage = "edit" THEN EditMethods ELSE {"GIT_COMMIT_PUSH"})
<1>1. \A m \in Methods : <<m>> # <<>> /\ Len(<<m>>) = 1 /\ <<m>>[1] = m
  OBVIOUS
<1>2. EditMethods \subseteq Methods /\ "GIT_COMMIT_PUSH" \in Methods
  BY DEF EditMethods, Methods, HexoMethods, GitMethods
<1>3. \E m \in (IF stage = "edit" THEN EditMethods ELSE {"GIT_COMMIT_PUSH"}) : left = <<m>>
  <2>1. CASE stage = "edit"
    <3>1. left = EditSteps(flow[f].kind)
      BY <2>1 DEF StepsAtStage
    <3>2. \E m \in EditMethods : EditSteps(flow[f].kind) = <<m>>
      BY <2>1 DEF EditSteps, EditMethods, PostKinds
    <3>3. QED
      BY <2>1, <3>1, <3>2
  <2>2. CASE stage = "push"
    BY <2>2 DEF StepsAtStage
  <2>3. QED
    BY <2>1, <2>2
<1>4. PICK m \in (IF stage = "edit" THEN EditMethods ELSE {"GIT_COMMIT_PUSH"}) : left = <<m>>
  BY <1>3
<1>5. m \in Methods
  BY <1>2, <1>4
<1>6. left # <<>> /\ Len(left) = 1 /\ left[1] = m
  BY <1>1, <1>4, <1>5, Zenon
<1>7. QED
  BY <1>4, <1>6 DEF IsOne

LEMMA ThrownPush ==
    ASSUME BaseInv, PushInv, NEW f \in Posts, InFlight(f), SetFlow(f, Thrown(f)), UNCHANGED <<rela, used>>,
           \A u \in DOMAIN task : task'[u].post = task[u].post /\ task'[u].left = task[u].left
    PROVE  PushInv'
<1>1. used \in Nat /\ NamedInv
  BY ChainsAssumption DEF BaseInv, NamedInv, KeysFit
<1>2. \A g \in Posts : RelaStays(rela[g], rela'[g]) /\ rela'[g].state = rela[g].state
  BY DEF RelaStays
<1>3. FlowFits(Thrown(f), rela'[f], used') /\ Thrown(f).task = 0
  BY <1>1, ThrownFits, ThrownRow
<1>4. QED
  BY <1>1, <1>2, <1>3, PushFlow

LEMMA DispatchPush ==
    ASSUME BaseInv, PushInv, NEW f \in Posts, Dispatch(f)
    PROVE  PushInv'
<1>1. NamedInv /\ PlansFit /\ HeldInv /\ UNCHANGED <<rela, used>>
  BY DEF BaseInv, Dispatch
<1>2. PICK stage \in WorkStages :
        /\ At(f, stage)
        /\ stage = "edit" => flow[f].kind \in PostKinds \ {"deleteDraft"}
        /\ \/ SetFlow(f, Thrown(f)) /\ UNCHANGED task
           \/ \E t \in Tasks \ DOMAIN task, a \in TaskRow :
                /\ SetTask(t, a) /\ SetFlow(f, [flow[f] EXCEPT !.task = t])
                /\ a.workspace \in NamesUpto(used) /\ a.awaited /\ TaskFits(a)
                /\ a.post = (IF stage = "edit" THEN f ELSE NoPost)
                /\ a.left \in StepsAtStage(f, stage)
  BY <1>1, DispatchRow
<1>3. InFlight(f) /\ Head(flow[f].plan) = stage
  BY <1>2 DEF At
<1>4. CASE SetFlow(f, Thrown(f)) /\ UNCHANGED task
  BY <1>1, <1>3, <1>4, ThrownPush
<1>5. ASSUME NEW t \in Tasks \ DOMAIN task, NEW a \in TaskRow,
             SetTask(t, a), SetFlow(f, [flow[f] EXCEPT !.task = t]),
             a.post = (IF stage = "edit" THEN f ELSE NoPost), a.left \in StepsAtStage(f, stage)
      PROVE  PushInv'
  <2> DEFINE q == [flow[f] EXCEPT !.task = t]
  <2>1. flow[f] \in FlowRow
    BY <1>1 DEF NamedInv, FlowsFit
  <2>2. q.kind = flow[f].kind /\ q.plan = flow[f].plan /\ q.given = flow[f].given /\ q.task = t
    BY <2>1 DEF FlowRow
  <2>3. \A g \in Posts : flow'[g] = IF g = f THEN q ELSE flow[g]
    BY <1>1, <1>5 DEF SetFlow, NamedInv, FlowsFit
  <2> HIDE DEF q
  <2>4. \A u \in DOMAIN task \union {t} : task'[u] = IF u = t THEN a ELSE task[u]
    BY <1>5 DEF SetTask
  <2>5. ASSUME NEW g \in Posts
        PROVE  FlowFits(flow'[g], rela'[g], used')
    <3>1. FlowFits(flow[g], rela[g], used)
      BY DEF PushInv
    <3>2. FlowFits(flow'[g], rela[g], used)
      BY <2>2, <2>3, <3>1 DEF FlowFits, Upto, Failing
    <3>3. QED
      BY <1>1, <3>2
  <2>6. ASSUME NEW g \in Posts, flow'[g].task # 0
        PROVE  WaitFits(g, flow'[g], task'[flow'[g].task], rela'[g], used')
    <3>1. CASE g = f
      <4>1. flow'[g] = q /\ task'[t] = a
        BY <2>3, <2>4, <3>1
      <4>2. Head(q.plan) = stage
        BY <1>3, <2>2
      <4>3. stage \in {"edit", "push"} =>
              a.left # <<>> /\ IsOne(a.left, IF stage = "edit" THEN EditMethods ELSE {"GIT_COMMIT_PUSH"})
        BY <1>2, <1>5, EditAndPush
      <4>4. WaitFits(f, q, a, rela[f], used)
        BY <1>5, <4>2, <4>3 DEF WaitFits
      <4>5. QED
        BY <1>1, <2>2, <3>1, <4>1, <4>4
    <3>2. CASE g # f
      <4>1. flow'[g] = flow[g]
        BY <2>3, <3>2
      <4>2. flow[g].task \in DOMAIN task /\ WaitFits(g, flow[g], task[flow[g].task], rela[g], used)
        BY <1>1, <2>6, <4>1 DEF HeldInv, PushInv
      <4>3. task'[flow[g].task] = task[flow[g].task]
        BY <1>5, <2>4, <4>2
      <4>4. QED
        BY <1>1, <4>1, <4>2, <4>3
    <3>3. QED
      BY <3>1, <3>2
  <2>7. \A g \in Posts : rela'[g].state = "SUCCESS" /\ used' <= 1 =>
             rela'[g].workspace # NoWorkspace /\ \E h \in Posts : IsPushed(rela'[h])
    BY <1>1 DEF PushInv
  <2>8. QED
    BY <2>5, <2>6, <2>7 DEF PushInv
<1>6. QED
  BY <1>2, <1>4, <1>5

\* A request whose edit or push has come to its end has edited, or pushed.
LEMMA AwaitPush ==
    ASSUME BaseInv, PushInv, NEW f \in Posts, Await(f)
    PROVE  PushInv'
<1> DEFINE t == flow[f].task
<1>1. NamedInv /\ PlansFit /\ HeldInv /\ t # 0 /\ UNCHANGED <<rela, used>>
  BY DEF BaseInv, Await
<1>2. t \in DOMAIN task /\ InFlight(f) /\ Head(flow[f].plan) \in WorkStages
  BY AwaitRow
<1>3. PICK a \in TaskRow : SetTask(t, a) /\ SameTask(a, task[t]) /\ a.left = task[t].left
  BY AwaitRow
<1>4. \A u \in DOMAIN task : task'[u].post = task[u].post /\ task'[u].left = task[u].left
  BY <1>3 DEF SetTask, SameTask
<1>5. CASE SetFlow(f, Thrown(f))
  BY <1>1, <1>2, <1>4, <1>5, ThrownPush
<1>6. ASSUME NEW q \in FlowRow, SetFlow(f, q), Same(q, flow[f]), q.given = flow[f].given, q.task = 0,
             task[t].promise = "resolved", q.plan = Tail(flow[f].plan)
      PROVE  PushInv'
  <2>1. /\ flow[f] \in FlowRow /\ PlanFits(flow[f]) /\ flow[f].plan # <<>>
        /\ FlowFits(flow[f], rela[f], used) /\ WaitFits(f, flow[f], task[t], rela[f], used) /\ used \in Nat
    BY <1>1, <1>2, ChainsAssumption DEF NamedInv, FlowsFit, PlansFit, PushInv, InFlight, KeysFit
  <2>2. task[t].left = <<>>
    BY <1>1, <1>2, <1>6 DEF HeldInv, TaskFits
  <2>3. /\ Head(flow[f].plan) = "edit" => rela[f].edited # NoWorkspace
        /\ Head(flow[f].plan) = "push" /\ used <= 1 => rela[f].pushed
    BY <2>1, <2>2 DEF WaitFits
  <2>4. Head(flow[f].plan) # "workspace" /\ Head(flow[f].plan) # "link"
    BY <1>2 DEF WorkStages
  <2>5. RelaStays(rela[f], rela[f]) /\ used <= used
    BY <2>1 DEF RelaStays
  <2>6. FlowFits(q, rela[f], used)
    BY <1>6, <2>1, <2>3, <2>4, <2>5, NextFlowFits
  <2>7. \A g \in Posts : RelaStays(rela[g], rela'[g]) /\ rela'[g].state = rela[g].state
    BY <1>1 DEF RelaStays
  <2>8. FlowFits(q, rela'[f], used') /\ used' \in Nat /\ used <= used'
    BY <1>1, <2>1, <2>5, <2>6
  <2>9. QED
    BY <1>4, <1>6, <2>7, <2>8, PushFlow
<1>7. QED
  BY <1>5, <1>6, AwaitRow

\* A job that is done only adds to the rows.
LEMMA MovesPush ==
    ASSUME BaseInv, PushInv, NEW t \in DOMAIN task, TaskMoves(t),
           JobDone(t) \/ UNCHANGED <<siteStatus, repo, flow, rela>>
    PROVE  PushInv'
<1>1. NamedInv /\ PlansFit /\ HeldInv
  BY DEF BaseInv
<1>2. UNCHANGED <<flow, used>>
  BY <1>1, TaskRowMoves DEF JobDone
<1>3. PICK a \in TaskRow :
        /\ SetTask(t, a) /\ SameTask(a, task[t])
        /\ \/ a.left = task[t].left
           \/ JobDone(t) /\ task[t].left # <<>> /\ a.left = Tail(task[t].left)
  BY <1>1, TaskRowMoves
<1>4. \A u \in DOMAIN task : task'[u] = IF u = t THEN a ELSE task[u]
  BY <1>3 DEF SetTask
<1>5. task[t] \in TaskRow /\ task[t].workspace \in NamesUpto(used) /\ used \in Nat
  BY <1>1, ChainsAssumption DEF NamedInv, ChainsFit, KeysFit
<1>6. task[t].workspace # NoWorkspace
  BY <1>5 DEF TaskRow, Workspaces, NoWorkspace
<1>7. ASSUME NEW g \in Posts
      PROVE  /\ RelaStays(rela[g], rela'[g]) /\ rela'[g].state = rela[g].state
             /\ rela'[g].workspace = rela[g].workspace
  <2>1. CASE JobDone(t)
    BY <1>1, <1>6, <2>1, JobRela DEF RelaStays
  <2>2. CASE UNCHANGED rela
    BY <2>2 DEF RelaStays
  <2>3. QED
    BY <2>1, <2>2
<1>8. ASSUME NEW g \in Posts
      PROVE  FlowFits(flow'[g], rela'[g], used')
  <2>1. FlowFits(flow[g], rela[g], used) /\ used <= used
    BY <1>5 DEF PushInv
  <2>2. FlowFits(flow[g], rela'[g], used)
    BY <1>5, <1>7, <2>1, FitsStill
  <2>3. QED
    BY <1>2, <2>2
<1>9. ASSUME NEW g \in Posts, flow[g].task = t, t # 0, JobDone(t), task[t].left # <<>>, a.left = Tail(task[t].left)
      PROVE  WaitFits(g, flow[g], a, rela'[g], used)
  <2>1. /\ WaitFits(g, flow[g], task[t], rela[g], used) /\ FlowFits(flow[g], rela[g], used)
        /\ flow[g] \in FlowRow /\ PlanFits(flow[g]) /\ flow[g].plan # <<>>
    BY <1>1, <1>9 DEF PushInv, HeldInv, NamedInv, FlowsFit, PlansFit
  <2>2. ASSUME NEW methods, IsOne(task[t].left, methods)
        PROVE  Head(task[t].left) \in methods /\ a.left = <<>>
    <3>1. task[t].left \in Seq(Methods)
      BY <1>5 DEF TaskRow
    <3>2. Head(task[t].left) = task[t].left[1]
      BY <3>1
    <3>3. Tail(task[t].left) \in Seq(Methods) /\ Len(Tail(task[t].left)) = Len(task[t].left) - 1
      BY <1>9, <3>1, HeadTailProperties
    <3>4. Len(Tail(task[t].left)) = 0
      BY <2>2, <3>3 DEF IsOne
    <3>5. Tail(task[t].left) = <<>>
      BY <3>3, <3>4, EmptySeq
    <3>6. QED
      BY <1>9, <2>2, <3>2, <3>5 DEF IsOne
  <2>3. ASSUME Head(flow[g].plan) = "edit"
        PROVE  a.post = g /\ a.left = <<>> /\ rela'[g].edited # NoWorkspace
    <3>1. task[t].post = g /\ IsOne(task[t].left, EditMethods)
      BY <1>9, <2>1, <2>3 DEF WaitFits
    <3>2. Head(task[t].left) \in EditMethods /\ a.left = <<>>
      BY <2>2, <3>1
    <3>3. rela'[g].edited = task[t].workspace
      BY <1>1, <1>9, <3>1, <3>2, JobRela
    <3>4. QED
      BY <1>3, <1>6, <3>1, <3>2, <3>3 DEF SameTask
  <2>4. ASSUME Head(flow[g].plan) = "push"
        PROVE  a.left = <<>> /\ (used <= 1 => rela'[g].pushed)
    <3>1. IsOne(task[t].left, {"GIT_COMMIT_PUSH"})
      BY <1>9, <2>1, <2>4 DEF WaitFits
    <3>2. Head(task[t].left) = "GIT_COMMIT_PUSH" /\ a.left = <<>>
      BY <2>2, <3>1
    <3>3. rela[g].edited # NoWorkspace
      BY <2>1, <2>4, PostUpto DEF FlowFits
    <3>4. ASSUME used <= 1
          PROVE  rela'[g].pushed
      <4>1. rela[g].edited \in NamesUpto(used)
        BY <1>1 DEF NamedInv, RelasFit
      <4>2. rela[g].edited = task[t].workspace
        BY <1>5, <1>6, <3>3, <3>4, <4>1 DEF NamesUpto, NoWorkspace, Workspaces
      <4>3. rela'[g].pushed = (rela[g].pushed \/ (/\ Head(task[t].left) \in {"GIT_INIT_PUSH", "GIT_COMMIT_PUSH"}
                                                  /\ rela[g].edited = task[t].workspace))
        BY <1>1, <1>9, JobRela
      <4>4. QED
        BY <3>2, <4>2, <4>3, Zenon
    <3>5. QED
      BY <3>2, <3>4
  <2>5. QED
    BY <2>3, <2>4 DEF WaitFits
<1>10. ASSUME NEW g \in Posts, flow'[g].task # 0
       PROVE  WaitFits(g, flow'[g], task'[flow'[g].task], rela'[g], used')
  <2>1. /\ flow'[g] = flow[g] /\ flow[g].task \in DOMAIN task /\ used <= used
        /\ WaitFits(g, flow[g], task[flow[g].task], rela[g], used)
    BY <1>1, <1>2, <1>5, <1>10 DEF HeldInv, PushInv
  <2> DEFINE b == task'[flow[g].task]
  <2>2. CASE flow[g].task = t /\ a.left # task[t].left
    <3>1. b = a
      BY <1>4, <2>2
    <3>2. WaitFits(g, flow[g], a, rela'[g], used)
      BY <1>3, <1>9, <1>10, <2>1, <2>2
    <3>3. QED
      BY <1>2, <2>1, <3>1, <3>2
  <2>3. CASE ~(flow[g].task = t /\ a.left # task[t].left)
    <3>1. b.post = task[flow[g].task].post /\ b.left = task[flow[g].task].left
      BY <1>3, <1>4, <2>1, <2>3 DEF SameTask
    <3> HIDE DEF b
    <3>2. WaitFits(g, flow[g], b, rela'[g], used)
      BY <1>5, <1>7, <2>1, <3>1, WaitsStill
    <3>3. QED
      BY <1>2, <2>1, <3>2 DEF b
  <2>4. QED
    BY <2>2, <2>3
<1>11. ASSUME NEW g \in Posts, rela'[g].state = "SUCCESS", used' <= 1
       PROVE  rela'[g].workspace # NoWorkspace /\ \E h \in Posts : IsPushed(rela'[h])
  <2>1. rela[g].workspace # NoWorkspace /\ \E h \in Posts : IsPushed(rela[h])
    BY <1>2, <1>7, <1>11 DEF PushInv
  <2>2. QED
    BY <1>7, <2>1 DEF IsPushed, RelaStays
<1>12. QED
  BY <1>8, <1>10, <1>11 DEF PushInv

LEMMA KeysPush ==
    ASSUME BaseInv, PushInv, UNCHANGED <<siteStatus, repo, flow, rela>>,
           \/ \E t \in DOMAIN task : RenewWorkspace(t) \/ Forget(t)
           \/ \E s \in Sites : ExpireWorkspace(s)
    PROVE  PushInv'
<1>1. NamedInv /\ HeldInv /\ UNCHANGED used
  BY KeysNamed DEF BaseInv
<1>2. \A u \in DOMAIN task : task[u].awaited => task'[u] = task[u]
  BY DEF RenewWorkspace, Forget, Without, ExpireWorkspace
<1>3. \A g \in Posts : flow[g].task # 0 => task'[flow[g].task] = task[flow[g].task]
  BY <1>1, <1>2 DEF HeldInv
<1>4. QED
  BY <1>1, <1>3 DEF PushInv

LEMMA RestartPush ==
    ASSUME BaseInv, PushInv, TasksRestart
    PROVE  PushInv'
<1>1. UNCHANGED <<rela, used>>
  BY DEF TasksRestart, ChainsRestart
<1>2. \A g \in Posts : flow'[g].plan = <<>> /\ flow'[g].task = 0
  <2>1. \A g \in Posts : flow[g] \in FlowRow
    BY DEF BaseInv, NamedInv, FlowsFit
  <2>2. \A g \in Posts : flow'[g] = [flow[g] EXCEPT !.plan = <<>>, !.generating = FALSE, !.task = 0]
    BY DEF TasksRestart
  <2>3. QED
    BY <2>1, <2>2 DEF FlowRow
<1>3. \A g \in Posts : FlowFits(flow'[g], rela'[g], used')
  BY <1>2, NoFlowFits
<1>4. QED
  BY <1>1, <1>2, <1>3 DEF PushInv

LEMMA PushNext == BaseInv /\ PushInv /\ [TasksNext]_taskVars => PushInv'
<1> SUFFICES ASSUME BaseInv, PushInv, [TasksNext]_taskVars PROVE PushInv'
  OBVIOUS
<1>1. ASSUME NEW f \in Posts, NEW s \in Sites, PostRequest(f, s) \/ SiteRequest(f, s)
      PROVE  PushInv'
  BY <1>1, RequestPush DEF PostRequest, SiteRequest
<1>2. ASSUME NEW f \in Posts, FlowStep(f)
      PROVE  PushInv'
  <2>1. CASE StageThrows(f)
    <3>1. InFlight(f) /\ SetFlow(f, Thrown(f)) /\ UNCHANGED <<task, rela, used>>
      BY <2>1 DEF StageThrows, At
    <3>2. QED
      BY <3>1, ThrownPush
  <2>2. QED
    BY <1>2, <2>1, WorkspacePush, LinkPush, PassPush, WritePush, DispatchPush, AwaitPush DEF FlowStep, Passing
<1>3. ASSUME NEW t \in DOMAIN task, JobDone(t) \/ ((JobStep(t) \/ TimerStep(t)) /\ UNCHANGED <<siteStatus, repo, flow, rela>>)
      PROVE  PushInv'
  BY <1>3, MovesPush, KeysPush DEF JobStep, TimerStep, TaskMoves
<1>4. ASSUME NEW s \in Sites, ExpireWorkspace(s), UNCHANGED <<siteStatus, repo, flow, rela>>
      PROVE  PushInv'
  BY <1>4, KeysPush
<1>5. CASE TasksRestart
  BY <1>5, RestartPush
<1>6. CASE UNCHANGED taskVars
  BY <1>6 DEF taskVars, PushInv
<1>7. QED
  BY <1>1, <1>2, <1>3, <1>4, <1>5, <1>6 DEF TasksNext

LEMMA PushInit == TasksInit => PushInv
<1> SUFFICES ASSUME TasksInit PROVE PushInv
  OBVIOUS
<1>1. PICK s \in Sites : flow = [f \in Posts |-> NoFlow(s)]
  BY DEF TasksInit
<1>2. \A f \in Posts : flow[f].plan = <<>> /\ flow[f].task = 0
  BY <1>1 DEF NoFlow
<1>3. \A f \in Posts : rela[f].state = "TODO"
  BY DEF TasksInit, NoRela
<1>4. \A f \in Posts : FlowFits(flow[f], rela[f], used)
  BY <1>2, NoFlowFits
<1>5. QED
  BY <1>2, <1>3, <1>4 DEF PushInv

\* A row of a post that shares its workspace with no other is SUCCESS only if its own
\* edit has been written and pushed, as long as the site has had one working directory:
\* for any number of posts, sites, tasks and restarts.
THEOREM SuccessPushed == TasksSpec => []SuccessIsPushed
<1>1. BaseInv /\ PushInv => SuccessIsPushed
  <2> SUFFICES ASSUME BaseInv, PushInv, NEW f \in Posts, rela[f].state = "SUCCESS", Alone(f), used <= 1
               PROVE  rela[f].pushed
    BY DEF SuccessIsPushed
  <2>1. rela[f].workspace # NoWorkspace
    BY DEF PushInv
  <2>2. PICK g \in Posts : rela[g].workspace # NoWorkspace /\ rela[g].pushed
    BY DEF PushInv, IsPushed
  <2>3. /\ used \in Nat /\ rela[f].workspace \in NamesUpto(used) /\ rela[g].workspace \in NamesUpto(used)
    BY ChainsAssumption DEF BaseInv, NamedInv, RelasFit, KeysFit
  <2>4. rela[f].workspace = rela[g].workspace
    BY <2>1, <2>2, <2>3 DEF NamesUpto, NoWorkspace, Workspaces
  <2>5. g = f
    BY <2>4 DEF Alone
  <2>6. QED
    BY <2>2, <2>5
<1>2. QED
  BY BaseInit, BaseNext, PushInit, PushNext, <1>1, PTL DEF TasksSpec

-----------------------------------------------------------------------------
(* Whose work the rows and the sites are marked with. *)

\* A request that has read the workspace for its states.
Past(q) == q.kind \in PostKinds /\ (q.plan = <<>> \/ Failing(q) \/ Upto(q, 7))

\* It was linked to another one.
LostNow(q) == Past(q) /\ q.given # q.workspace

\* The request q will write the state of the rows of site s with the workspace w, or
\* will lose them.
Owns(q, s, w) ==
    /\ q.site = s /\ q.given = w
    /\ Upto(q, 8) \/ Failing(q)
    /\ Past(q) => q.workspace = w

Owned(r, s, flows) ==
    r.state = "DOING" =>
        /\ r.workspace # NoWorkspace
        /\ \/ \E g \in Posts : Owns(flows[g], s, r.workspace)
           \/ \E g \in Posts : LostNow(flows[g])

OwnInv ==
    /\ \A f \in Posts : rela[f].workspace # NoWorkspace => flow[f].kind \in PostKinds
    /\ restarts = 0 => \A f \in Posts : Owned(rela[f], flow[f].site, flow)

\* What a step of one request leaves to the owners of the other rows.
KeepsOwned(q, p) ==
    /\ LostNow(p) => LostNow(q)
    /\ \A s \in Sites, w \in Workspaces : Owns(p, s, w) => Owns(q, s, w) \/ LostNow(q)

LEMMA OwnedStill ==
    ASSUME NamedInv, NEW f \in Posts, NEW q, SetFlow(f, q), KeepsOwned(q, flow[f]), NEW r \in RelaRow, NEW s \in Sites,
           Owned(r, s, flow)
    PROVE  Owned(r, s, flow')
<1>1. \A g \in Posts : flow'[g] = IF g = f THEN q ELSE flow[g]
  BY DEF SetFlow, NamedInv, FlowsFit
<1>2. SUFFICES ASSUME r.state = "DOING"
               PROVE  \/ \E g \in Posts : Owns(flow'[g], s, r.workspace)
                      \/ \E g \in Posts : LostNow(flow'[g])
  BY DEF Owned
<1>3. r.workspace \in Workspaces
  BY <1>2 DEF Owned, RelaRow
<1>4. CASE \E g \in Posts : LostNow(flow[g])
  BY <1>1, <1>4 DEF KeepsOwned
<1>5. CASE \E g \in Posts : Owns(flow[g], s, r.workspace)
  BY <1>1, <1>3, <1>5 DEF KeepsOwned
<1>6. QED
  BY <1>2, <1>4, <1>5 DEF Owned

\* A step of one request that leaves the rows alone.
LEMMA OwnFlow ==
    ASSUME BaseInv, OwnInv, NEW f \in Posts, NEW q, SetFlow(f, q), Same(q, flow[f]), KeepsOwned(q, flow[f]),
           UNCHANGED <<rela, restarts>>
    PROVE  OwnInv'
<1>1. NamedInv /\ \A g \in Posts : flow'[g] = IF g = f THEN q ELSE flow[g]
  BY DEF SetFlow, BaseInv, NamedInv, FlowsFit
<1>2. \A g \in Posts : Same(flow'[g], flow[g]) /\ rela[g] \in RelaRow /\ flow[g].site \in Sites
  BY <1>1 DEF Same, NamedInv, RelasFit, FlowsFit, FlowRow
<1>3. ASSUME NEW g \in Posts, restarts = 0
      PROVE  Owned(rela[g], flow[g].site, flow')
  BY <1>1, <1>2, <1>3, OwnedStill DEF OwnInv
<1>4. QED
  BY <1>2, <1>3 DEF OwnInv, Same

\* A request that goes on, but not from its last state.
LEMMA NextOwns ==
    ASSUME NEW p \in FlowRow, PlanFits(p), p.plan # <<>>, NEW q, Same(q, p), q.plan = Tail(p.plan),
           Head(p.plan) \notin {"success", "fail"},
           q.given = p.given \/ Head(p.plan) = "workspace",
           q.workspace = p.workspace \/ Head(p.plan) = "begin"
    PROVE  KeepsOwned(q, p)
<1>1. CASE p.kind \notin PostKinds
  BY <1>1 DEF KeepsOwned, LostNow, Past, Owns, Upto, Failing
<1>2. CASE p.kind \in PostKinds
  <2> DEFINE k == Len(p.plan)
  <2>1. /\ Follows(p.plan, PostStages) /\ k \in 1..10 /\ Head(p.plan) = PostStages[11 - k]
        /\ Tail(p.plan) \in Seq(Stages)
        /\ Len(q.plan) = k - 1 /\ Follows(q.plan, PostStages)
    BY <1>2, PostAt
  <2> HIDE DEF k
  <2>2. k = 1 => Head(p.plan) = "success"
    <3>1. PostStages[10] = "success"
      BY DEF PostStages
    <3>2. QED
      BY <2>1, <3>1
  <2>3. k \in 2..10 /\ q.plan # <<>>
    <3>1. k # 1
      BY <2>2
    <3>2. \A j \in 1..10 : j # 1 => j \in 2..10 /\ j - 1 # 0
      OBVIOUS
    <3>3. k \in 2..10 /\ Len(q.plan) # 0
      <4>1. k \in 1..10 /\ Len(q.plan) = k - 1
        BY <2>1
      <4>2. QED
        BY <3>1, <3>2, <4>1
    <3>4. Len(<<>>) = 0
      OBVIOUS
    <3>5. QED
      BY <3>3, <3>4
  <2>4. ~Failing(p) /\ ~Failing(q)
    BY <2>1, FailPlan DEF Failing
  <2>5. \A j \in Nat : (Upto(p, j) <=> k <= j) /\ (Upto(q, j) <=> k - 1 <= j)
    BY <1>2, <2>1, <2>3 DEF Upto, Same, k
  <2>6. (Past(p) <=> k <= 7) /\ (Past(q) <=> k <= 8)
    <3>1. Past(p) <=> Upto(p, 7)
      BY <1>2, <2>4 DEF Past
    <3>2. Past(q) <=> Upto(q, 7)
      BY <1>2, <2>3, <2>4 DEF Past, Same
    <3>3. k - 1 <= 7 <=> k <= 8
      BY <2>3
    <3>4. QED
      BY <2>5, <3>1, <3>2, <3>3
  <2>7. k # 10 => q.given = p.given
    <3>1. \A j \in 2..9 : PostStages[11 - j] # "workspace"
      BY DEF PostStages
    <3>2. ASSUME k # 10
          PROVE  q.given = p.given
      <4>1. k \in 2..9
        BY <2>3, <3>2
      <4>2. Head(p.plan) # "workspace"
        BY <2>1, <3>1, <4>1
      <4>3. QED
        BY <4>2
    <3>3. QED
      BY <3>2
  <2>8. k # 8 => q.workspace = p.workspace
    <3>1. \A j \in 1..10 : j # 8 => PostStages[11 - j] # "begin"
      BY DEF PostStages
    <3>2. QED
      BY <2>1, <3>1
  <2>9. LostNow(p) => LostNow(q)
    BY <2>3, <2>6, <2>7, <2>8 DEF LostNow
  <2>10. ASSUME NEW s \in Sites, NEW w \in Workspaces, Owns(p, s, w), ~LostNow(q)
         PROVE  Owns(q, s, w)
    <3>1. Upto(p, 8)
      BY <2>4, <2>10 DEF Owns
    <3>2. k <= 8
      BY <2>5, <3>1
    <3>3. Past(q) /\ q.given = p.given
      BY <2>6, <2>7, <3>2
    <3>4. Upto(q, 8)
      BY <2>3, <2>5, <3>2
    <3>5. q.workspace = q.given
      BY <2>10, <3>3 DEF LostNow
    <3>6. QED
      BY <2>10, <3>3, <3>4, <3>5 DEF Owns, Same
  <2>11. QED
    BY <2>9, <2>10 DEF KeepsOwned
<1>3. QED
  BY <1>1, <1>2

\* A request that has thrown.
LEMMA ThrownOwns ==
    ASSUME NamedInv, PlansFit, NEW f \in Posts, InFlight(f),
           Head(flow[f].plan) \in {"config", "postConfig", "publishConfig", "metadata", "dns"} \union WorkStages
    PROVE  KeepsOwned(Thrown(f), flow[f])
<1>1. flow[f] \in FlowRow /\ PlanFits(flow[f]) /\ flow[f].plan # <<>>
  BY DEF NamedInv, FlowsFit, PlansFit, InFlight
<1>2. /\ Thrown(f).plan = Catch(f) /\ Same(Thrown(f), flow[f]) /\ Thrown(f).given = flow[f].given
      /\ Thrown(f).workspace = flow[f].workspace
  BY ThrownRow
<1>3. CASE flow[f].kind \notin PostKinds
  BY <1>2, <1>3 DEF KeepsOwned, LostNow, Past, Owns, Upto, Failing, Same
<1>4. CASE flow[f].kind \in PostKinds
  <2> DEFINE p == flow[f]
             k == Len(p.plan)
  <2>1. Head(p.plan) # "fail"
    BY DEF WorkStages
  <2>2. Follows(p.plan, PostStages) /\ k \in 1..10 /\ Head(p.plan) = PostStages[11 - k]
    BY <1>1, <1>4, <2>1, PostAt
  <2> HIDE DEF p, k
  <2>3. \A j \in 1..10 :
          PostStages[11 - j] \in {"config", "postConfig", "publishConfig", "metadata", "dns"} \union WorkStages =>
             /\ PostStages[11 - j] \in {"config", "checkout", "postConfig", "edit", "push"}
             /\ j <= 7
    BY DEF PostStages, WorkStages
  <2>4. Head(p.plan) \in {"config", "checkout", "postConfig", "edit", "push"} /\ k <= 7
    BY <2>2, <2>3 DEF p
  <2>5. Catch(f) = <<"fail">>
    BY <1>4, <2>4 DEF Catch, PostKinds, p
  <2>6. Thrown(f).plan = <<"fail">>
    BY <1>2, <2>5, Zenon
  <2>7. Failing(Thrown(f)) /\ Past(Thrown(f))
    BY <1>2, <1>4, <2>6 DEF Failing, Past, Same
  <2>8. Past(p)
    BY <1>1, <1>4, <2>2, <2>4 DEF Past, Upto, p, k
  <2>9. QED
    BY <1>2, <2>7, <2>8 DEF KeepsOwned, LostNow, Owns, Same, p
<1>5. QED
  BY <1>3, <1>4

LEMMA RequestOwn ==
    ASSUME BaseInv, OwnInv, NEW f \in Posts, NEW s \in Sites, NEW kind \in PostKinds \union SiteKinds,
           Request(f, s, kind)
    PROVE  OwnInv'
<1> DEFINE q == [NoFlow(s) EXCEPT !.kind = kind, !.plan = Plan(kind)]
<1>1. NamedInv /\ SetFlow(f, q) /\ UNCHANGED <<rela, restarts>> /\ flow[f].kind = "none"
  BY DEF Request, BaseInv
<1> HIDE DEF q
<1>2. "none" \notin PostKinds
  BY DEF PostKinds
<1>3. KeepsOwned(q, flow[f]) /\ rela[f].workspace = NoWorkspace
  BY <1>1, <1>2 DEF KeepsOwned, LostNow, Past, Owns, Upto, Failing, OwnInv
<1>4. \A g \in Posts : flow'[g] = IF g = f THEN q ELSE flow[g]
  BY <1>1 DEF SetFlow, NamedInv, FlowsFit
<1>5. ASSUME NEW g \in Posts, restarts = 0
      PROVE  Owned(rela[g], flow'[g].site, flow')
  <2>1. rela[g] \in RelaRow /\ flow[g].site \in Sites /\ Owned(rela[g], flow[g].site, flow)
    BY <1>1, <1>5 DEF NamedInv, RelasFit, FlowsFit, FlowRow, OwnInv
  <2>2. CASE g = f
    BY <1>3, <2>1, <2>2 DEF Owned
  <2>3. CASE g # f
    BY <1>1, <1>3, <1>4, <2>1, <2>3, OwnedStill
  <2>4. QED
    BY <2>2, <2>3
<1>6. QED
  BY <1>1, <1>3, <1>4, <1>5 DEF OwnInv

\* The steps of a request that leave the rows alone.
LEMMA QuietOwn ==
    ASSUME BaseInv, OwnInv, NEW f \in Posts,
           GetWorkspace(f) \/ BeginPost(f) \/ Passing(f) \/ StageThrows(f) \/ Dispatch(f) \/ Await(f)
    PROVE  OwnInv'
<1>1. NamedInv /\ PlansFit /\ UNCHANGED <<rela, restarts>>
  BY PassingRow DEF BaseInv, GetWorkspace, BeginPost, StageThrows, Dispatch, Await
<1>2. flow[f] \in FlowRow /\ PlanFits(flow[f])
  BY <1>1 DEF NamedInv, FlowsFit, PlansFit
<1>3. CASE GetWorkspace(f)
  <2>1. flow[f].plan # <<>> /\ Head(flow[f].plan) = "workspace"
    BY <1>3 DEF GetWorkspace, At, InFlight
  <2>2. PICK q \in FlowRow :
          /\ SetFlow(f, q) /\ Same(q, flow[f]) /\ q.workspace = flow[f].workspace
          /\ \/ q.plan = flow[f].plan /\ q.given = flow[f].given
             \/ q.plan = Tail(flow[f].plan)
    BY <1>1, <1>3, WorkspaceRow
  <2>3. CASE q.plan = flow[f].plan /\ q.given = flow[f].given
    <3>1. KeepsOwned(q, flow[f])
      BY <2>2, <2>3 DEF KeepsOwned, LostNow, Past, Owns, Upto, Failing, Same
    <3>2. QED
      BY <1>1, <2>2, <3>1, OwnFlow
  <2>4. CASE q.plan = Tail(flow[f].plan)
    <3>1. KeepsOwned(q, flow[f])
      BY <1>2, <2>1, <2>2, <2>4, NextOwns
    <3>2. QED
      BY <1>1, <2>2, <3>1, OwnFlow
  <2>5. QED
    BY <2>2, <2>3, <2>4
<1>4. CASE BeginPost(f)
  <2>1. flow[f].plan # <<>> /\ Head(flow[f].plan) = "begin"
    BY <1>4 DEF BeginPost, At, InFlight
  <2>2. PICK q \in FlowRow :
          SetFlow(f, q) /\ Same(q, flow[f]) /\ q.plan = Tail(flow[f].plan) /\ q.given = flow[f].given
    BY <1>1, <1>4, BeginNamed
  <2>3. KeepsOwned(q, flow[f])
    BY <1>2, <2>1, <2>2, NextOwns
  <2>4. QED
    BY <1>1, <2>2, <2>3, OwnFlow
<1>5. CASE Passing(f)
  <2>1. flow[f].plan # <<>> /\ Head(flow[f].plan) \notin {"success", "fail"}
    BY <1>1, <1>5, PassingRow DEF PassedAt, InFlight
  <2>2. PICK q \in FlowRow : SetFlow(f, q) /\ NextRow(q, flow[f])
    BY <1>1, <1>5, PassingRow
  <2>3. KeepsOwned(q, flow[f])
    BY <1>2, <2>1, <2>2, NextOwns DEF NextRow
  <2>4. QED
    BY <1>1, <2>2, <2>3, OwnFlow DEF NextRow
<1>6. CASE SetFlow(f, Thrown(f)) /\ (StageThrows(f) \/ Dispatch(f) \/ Await(f))
  <2>1. /\ InFlight(f)
        /\ Head(flow[f].plan) \in {"config", "postConfig", "publishConfig", "metadata", "dns"} \union WorkStages
    BY <1>6, AwaitRow DEF StageThrows, Dispatch, At, WorkStages
  <2>2. KeepsOwned(Thrown(f), flow[f]) /\ Same(Thrown(f), flow[f])
    BY <1>1, <2>1, ThrownOwns, ThrownRow
  <2>3. QED
    BY <1>1, <1>6, <2>2, OwnFlow
<1>7. CASE Dispatch(f) /\ ~SetFlow(f, Thrown(f))
  <2>1. PICK t : SetFlow(f, [flow[f] EXCEPT !.task = t])
    BY <1>1, <1>7, DispatchRow
  <2> DEFINE q == [flow[f] EXCEPT !.task = t]
  <2>2. /\ Same(q, flow[f]) /\ q.plan = flow[f].plan /\ q.given = flow[f].given
        /\ q.workspace = flow[f].workspace
    BY <1>2 DEF FlowRow, Same
  <2>3. SetFlow(f, q)
    BY <2>1
  <2> HIDE DEF q
  <2>4. KeepsOwned(q, flow[f])
    BY <2>2 DEF KeepsOwned, LostNow, Past, Owns, Upto, Failing, Same
  <2>5. QED
    BY <1>1, <2>2, <2>3, <2>4, OwnFlow
<1>8. CASE Await(f) /\ ~SetFlow(f, Thrown(f))
  <2>1. flow[f].plan # <<>> /\ Head(flow[f].plan) \notin {"success", "fail", "workspace", "begin"}
    BY <1>8, AwaitRow DEF WorkStages, InFlight
  <2>2. PICK q \in FlowRow :
          /\ SetFlow(f, q) /\ Same(q, flow[f]) /\ q.given = flow[f].given
          /\ q.workspace = flow[f].workspace /\ q.plan = Tail(flow[f].plan)
    BY <1>8, AwaitRow
  <2>3. KeepsOwned(q, flow[f])
    BY <1>2, <2>1, <2>2, NextOwns
  <2>4. QED
    BY <1>1, <2>2, <2>3, OwnFlow
<1>9. QED
  BY <1>3, <1>4, <1>5, <1>6, <1>7, <1>8 DEF StageThrows

\* The rows that a request links to its workspace are its own from then on.
LEMMA LinkOwn ==
    ASSUME BaseInv, PushInv, OwnInv, NEW f \in Posts, LinkRela(f)
    PROVE  OwnInv'
<1>1. /\ NamedInv /\ InFlight(f) /\ Head(flow[f].plan) = "link" /\ UNCHANGED restarts /\ SetFlow(f, Done(f))
  BY DEF BaseInv, LinkRela, At
<1>2. flow[f] \in FlowRow /\ PlanFits(flow[f]) /\ flow[f].plan # <<>> /\ FlowFits(flow[f], rela[f], used)
  BY <1>1 DEF BaseInv, NamedInv, FlowsFit, PlansFit, PushInv, InFlight
<1>3. flow[f].given # NoWorkspace /\ flow[f].kind \in PostKinds
  BY <1>1, <1>2, PostUpto DEF FlowFits, Upto
<1> DEFINE q == Done(f)
<1>4. /\ q \in FlowRow /\ Same(q, flow[f]) /\ q.plan = Tail(flow[f].plan) /\ q.given = flow[f].given
      /\ q.workspace = flow[f].workspace
  BY <1>1, DoneRow
<1>5. SetFlow(f, q)
  BY <1>1
<1> HIDE DEF q
<1>6. KeepsOwned(q, flow[f])
  BY <1>1, <1>2, <1>4, NextOwns
<1>7. Upto(q, 8) /\ ~Past(q)
  <2>1. PostStages[2] = "link"
    BY DEF PostStages
  <2>2. Len(flow[f].plan) = 11 - 2
    BY <1>1, <1>2, <2>1, PostLen
  <2>3. Len(q.plan) = 8 /\ Follows(q.plan, PostStages)
    <3>1. flow[f].plan # <<"fail">>
      BY <2>2, FailPlan
    <3>2. Len(Tail(flow[f].plan)) = Len(flow[f].plan) - 1 /\ Follows(Tail(flow[f].plan), PostStages)
      BY <1>2, <1>3, <3>1, PostAt
    <3>3. QED
      BY <1>4, <2>2, <3>2
  <2>4. Len(<<>>) = 0
    OBVIOUS
  <2>5. q.plan # <<>> /\ ~Failing(q)
    BY <2>3, <2>4, FailPlan DEF Failing
  <2>6. Len(q.plan) <= 8 /\ ~ Len(q.plan) <= 7
    BY <2>3
  <2>7. QED
    BY <1>3, <1>4, <2>3, <2>5, <2>6, Zenon DEF Upto, Past, Same
<1>8. \A g \in Posts : flow'[g] = IF g = f THEN q ELSE flow[g]
  BY <1>1, <1>5 DEF SetFlow, NamedInv, FlowsFit
<1>9. \A g \in Posts : Same(flow'[g], flow[g]) /\ rela[g] \in RelaRow /\ flow[g].site \in Sites
  BY <1>1, <1>4, <1>8 DEF Same, NamedInv, RelasFit, FlowsFit, FlowRow
<1>10. ASSUME NEW g \in Posts
       PROVE  /\ rela'[g].workspace # NoWorkspace => flow'[g].kind \in PostKinds
              /\ restarts = 0 => Owned(rela'[g], flow'[g].site, flow')
  <2>1. flow'[g].kind = flow[g].kind /\ flow'[g].site = flow[g].site
    BY <1>9 DEF Same
  <2>2. CASE flow[g].kind \in PostKinds /\ flow[g].site = flow[f].site /\ TitleOf[g] = TitleOf[f]
    <3> DEFINE r == [rela[g] EXCEPT !.workspace = flow[f].given]
    <3>1. rela'[g] = r
      BY <2>2 DEF LinkRela
    <3>2. r.workspace = flow[f].given
      BY <1>9 DEF RelaRow
    <3> HIDE DEF r
    <3>3. Owns(q, flow[g].site, r.workspace)
      BY <1>4, <1>7, <2>2, <3>2 DEF Owns, Same
    <3>4. flow'[f] = q
      BY <1>8
    <3>5. Owned(r, flow[g].site, flow')
      BY <1>3, <3>2, <3>3, <3>4 DEF Owned
    <3>6. QED
      BY <2>1, <2>2, <3>1, <3>5
  <2>3. CASE ~(flow[g].kind \in PostKinds /\ flow[g].site = flow[f].site /\ TitleOf[g] = TitleOf[f])
    <3>1. rela'[g] = rela[g]
      BY <2>3 DEF LinkRela
    <3>2. restarts = 0 => Owned(rela[g], flow[g].site, flow')
      BY <1>1, <1>5, <1>6, <1>9, OwnedStill DEF OwnInv
    <3>3. QED
      BY <2>1, <3>1, <3>2 DEF OwnInv
  <2>4. QED
    BY <2>2, <2>3
<1>11. QED
  BY <1>1, <1>10 DEF OwnInv

\* The rows that a request writes DOING are its own, or it has lost its workspace; the
\* rows it gives up are not DOING any more.
LEMMA WriteOwn ==
    ASSUME BaseInv, OwnInv, NEW f \in Posts, WriteRelaState(f)
    PROVE  OwnInv'
<1>1. PICK stage \in {"doing", "success", "fail"} :
         /\ At(f, stage) /\ rela' = RelaWith(f, StateAtStage[stage]) /\ SetFlow(f, Done(f))
         /\ UNCHANGED restarts
  BY DEF WriteRelaState, StateAtStage
<1>2. /\ NamedInv /\ InFlight(f) /\ Head(flow[f].plan) = stage
      /\ flow[f] \in FlowRow /\ PlanFits(flow[f]) /\ flow[f].plan # <<>>
  BY <1>1 DEF BaseInv, NamedInv, FlowsFit, PlansFit, InFlight, At
<1> DEFINE q == Done(f)
<1>3. /\ q \in FlowRow /\ Same(q, flow[f]) /\ q.plan = Tail(flow[f].plan) /\ q.given = flow[f].given
      /\ q.workspace = flow[f].workspace
  BY <1>2, DoneRow
<1>4. SetFlow(f, q)
  BY <1>1
<1> HIDE DEF q
<1>5. \A g \in Posts : flow'[g] = IF g = f THEN q ELSE flow[g]
  BY <1>2, <1>4 DEF SetFlow, NamedInv, FlowsFit
<1>6. \A g \in Posts : /\ flow'[g].kind = flow[g].kind /\ flow'[g].site = flow[g].site
                       /\ rela[g] \in RelaRow /\ flow[g].site \in Sites
  BY <1>2, <1>3, <1>5 DEF Same, NamedInv, RelasFit, FlowsFit, FlowRow
<1> DEFINE Written(g) == /\ flow[f].workspace # NoWorkspace /\ rela[g].workspace = flow[f].workspace
                         /\ flow[g].site = flow[f].site
<1>7. ASSUME NEW g \in Posts
      PROVE  /\ rela'[g].workspace = rela[g].workspace
             /\ Written(g) => rela'[g].state = StateAtStage[stage]
             /\ ~Written(g) => rela'[g] = rela[g]
  <2>1. CASE Written(g)
    <3> DEFINE r == [rela[g] EXCEPT !.state = StateAtStage[stage]]
    <3>1. rela'[g] = r
      BY <1>1, <2>1 DEF RelaWith
    <3>2. r.workspace = rela[g].workspace /\ r.state = StateAtStage[stage]
      BY <1>6 DEF RelaRow
    <3> HIDE DEF r
    <3>3. QED
      BY <2>1, <3>1, <3>2
  <2>2. CASE ~Written(g)
    BY <1>1, <2>2 DEF RelaWith
  <2>3. QED
    BY <2>1, <2>2
<1>8. \A g \in Posts : rela'[g].workspace # NoWorkspace => flow'[g].kind \in PostKinds
  BY <1>6, <1>7 DEF OwnInv
<1>9. CASE stage = "doing"
  <2>1. PostStages[4] = "doing"
    BY DEF PostStages
  <2>2. Len(flow[f].plan) = 11 - 4 /\ flow[f].kind \in PostKinds
    BY <1>2, <1>9, <2>1, PostLen
  <2>3. KeepsOwned(q, flow[f])
    BY <1>2, <1>3, <1>9, NextOwns
  <2>4. Upto(q, 7) /\ Upto(q, 8)
    <3>1. flow[f].plan # <<"fail">>
      BY <2>2, FailPlan
    <3>2. Len(Tail(flow[f].plan)) = Len(flow[f].plan) - 1 /\ Follows(Tail(flow[f].plan), PostStages)
      BY <1>2, <2>2, <3>1, PostAt
    <3>3. Len(q.plan) = 6 /\ Follows(q.plan, PostStages)
      BY <1>3, <2>2, <3>2
    <3>4. Len(q.plan) # 0 /\ Len(q.plan) <= 7 /\ Len(q.plan) <= 8
      BY <3>3
    <3>5. Len(<<>>) = 0
      OBVIOUS
    <3>6. q.plan # <<>>
      BY <3>4, <3>5
    <3>7. QED
      BY <1>3, <2>2, <3>3, <3>4, <3>6, Zenon DEF Upto, Same
  <2>5. Past(q)
    BY <1>3, <2>2, <2>4 DEF Past, Same
  <2>6. ASSUME NEW g \in Posts, restarts = 0
        PROVE  Owned(rela'[g], flow'[g].site, flow')
    <3>1. CASE Written(g)
      <4>1. flow'[f] = q /\ rela'[g].workspace = q.workspace /\ q.workspace # NoWorkspace /\ flow'[g].site = q.site
        BY <1>3, <1>5, <1>6, <1>7, <3>1 DEF Same
      <4>2. CASE q.given = q.workspace
        <5>1. Owns(q, q.site, q.workspace)
          BY <2>4, <4>2 DEF Owns
        <5>2. QED
          BY <4>1, <5>1 DEF Owned
      <4>3. CASE q.given # q.workspace
        <5>1. LostNow(q)
          BY <2>5, <4>3 DEF LostNow
        <5>2. QED
          BY <4>1, <5>1 DEF Owned
      <4>4. QED
        BY <4>2, <4>3
    <3>2. CASE ~Written(g)
      <4>1. Owned(rela[g], flow[g].site, flow')
        BY <1>2, <1>4, <1>6, <2>3, <2>6, OwnedStill DEF OwnInv
      <4>2. QED
        BY <1>6, <1>7, <3>2, <4>1
    <3>3. QED
      BY <3>1, <3>2
  <2>7. QED
    BY <1>1, <1>8, <2>6 DEF OwnInv
<1>10. CASE stage \in {"success", "fail"}
  <2>1. flow[f].kind \in PostKinds /\ Past(flow[f]) /\ q.plan = <<>>
    <3>1. flow[f].plan \in Seq(Stages)
      BY <1>2 DEF FlowRow
    <3>2. flow[f].kind \in PostKinds
      BY <1>2, <1>10, PostStage
    <3>3. Len(flow[f].plan) = 1 /\ Past(flow[f])
      <4>1. CASE flow[f].plan = <<"fail">>
        <5>1. Len(flow[f].plan) = 1
          BY <4>1, FailPlan, Zenon
        <5>2. QED
          BY <3>2, <4>1, <5>1 DEF Past, Failing
      <4>2. CASE flow[f].plan # <<"fail">>
        <5>1. PostStages[10] = "success" /\ \A i \in 1..10 : PostStages[i] # "fail"
          BY DEF PostStages
        <5>2. /\ Len(flow[f].plan) \in 1..10 /\ Head(flow[f].plan) = PostStages[11 - Len(flow[f].plan)]
          BY <1>2, <3>2, <4>2, PostAt
        <5>3. \A j \in 1..10 : 11 - j \in 1..10
          OBVIOUS
        <5>4. Head(flow[f].plan) # "fail"
          BY <5>1, <5>2, <5>3
        <5>5. Head(flow[f].plan) = PostStages[10]
          BY <1>2, <1>10, <5>1, <5>4
        <5>6. Len(flow[f].plan) = 11 - 10 /\ Follows(flow[f].plan, PostStages)
          BY <1>2, <5>5, PostLen
        <5>7. QED
          BY <1>2, <3>2, <5>6 DEF Past, Upto
      <4>3. QED
        BY <4>1, <4>2
    <3>4. Tail(flow[f].plan) \in Seq(Stages) /\ Len(Tail(flow[f].plan)) = Len(flow[f].plan) - 1
      BY <1>2, <3>1, HeadTailProperties
    <3>5. Len(Tail(flow[f].plan)) = 0
      BY <3>3, <3>4
    <3>6. QED
      BY <1>3, <3>2, <3>3, <3>4, <3>5, EmptySeq
  <2>2. LostNow(flow[f]) => LostNow(q)
    BY <1>3, <2>1 DEF LostNow, Past, Same
  <2>3. StateAtStage[stage] # "DOING"
    BY <1>10 DEF StateAtStage
  <2>4. ASSUME NEW g \in Posts, restarts = 0, rela'[g].state = "DOING"
        PROVE  /\ rela'[g].workspace # NoWorkspace
               /\ \/ \E h \in Posts : Owns(flow'[h], flow'[g].site, rela'[g].workspace)
                  \/ \E h \in Posts : LostNow(flow'[h])
    <3>1. ~Written(g) /\ rela'[g] = rela[g]
      BY <1>7, <2>3, <2>4
    <3>2. /\ rela[g].workspace # NoWorkspace
          /\ \/ \E h \in Posts : Owns(flow[h], flow[g].site, rela[g].workspace)
             \/ \E h \in Posts : LostNow(flow[h])
      BY <2>4, <3>1 DEF OwnInv, Owned
    <3>3. CASE \E h \in Posts : LostNow(flow[h])
      BY <1>5, <2>2, <3>1, <3>2, <3>3
    <3>4. CASE \E h \in Posts : Owns(flow[h], flow[g].site, rela[g].workspace)
      <4>1. PICK h \in Posts : Owns(flow[h], flow[g].site, rela[g].workspace)
        BY <3>4
      <4>2. h # f
        BY <2>1, <3>1, <3>2, <4>1 DEF Owns
      <4>3. QED
        BY <1>5, <1>6, <3>1, <3>2, <4>1, <4>2
    <3>5. QED
      BY <3>2, <3>3, <3>4
  <2>5. \A g \in Posts : restarts = 0 => Owned(rela'[g], flow'[g].site, flow')
    BY <2>4 DEF Owned
  <2>6. QED
    BY <1>1, <1>8, <2>5 DEF OwnInv
<1>11. QED
  BY <1>9, <1>10

LEMMA ChainOwn ==
    ASSUME BaseInv, OwnInv, ChainSteps
    PROVE  OwnInv'
<1>1. NamedInv /\ UNCHANGED <<flow, restarts>>
  BY ChainBase DEF BaseInv
<1>2. \A g \in Posts : rela'[g].state = rela[g].state /\ rela'[g].workspace = rela[g].workspace
  <2>1. CASE UNCHANGED rela
    BY <2>1
  <2>2. CASE \E t \in DOMAIN task : JobDone(t)
    BY <1>1, <2>2, JobRela
  <2>3. QED
    BY <2>1, <2>2 DEF ChainSteps
<1>3. QED
  BY <1>1, <1>2 DEF OwnInv, Owned

LEMMA RestartOwn ==
    ASSUME BaseInv, OwnInv, TasksRestart
    PROVE  OwnInv'
<1>1. UNCHANGED rela /\ restarts' # 0
  <2>1. restarts \in Nat /\ restarts' = restarts + 1 /\ UNCHANGED rela
    BY DEF BaseInv, NamedInv, ColumnsFit, TasksRestart, ChainsRestart
  <2>2. QED
    BY <2>1
<1>2. \A g \in Posts : flow'[g].kind = flow[g].kind
  <2>1. \A g \in Posts : flow[g] \in FlowRow
    BY DEF BaseInv, NamedInv, FlowsFit
  <2>2. \A g \in Posts : flow'[g] = [flow[g] EXCEPT !.plan = <<>>, !.generating = FALSE, !.task = 0]
    BY DEF TasksRestart
  <2>3. QED
    BY <2>1, <2>2 DEF FlowRow
<1>3. QED
  BY <1>1, <1>2 DEF OwnInv

LEMMA OwnNext == BaseInv /\ PushInv /\ OwnInv /\ [TasksNext]_taskVars => OwnInv'
<1> SUFFICES ASSUME BaseInv, PushInv, OwnInv, [TasksNext]_taskVars PROVE OwnInv'
  OBVIOUS
<1>1. ASSUME NEW f \in Posts, NEW s \in Sites, PostRequest(f, s) \/ SiteRequest(f, s)
      PROVE  OwnInv'
  BY <1>1, RequestOwn DEF PostRequest, SiteRequest
<1>2. ASSUME NEW f \in Posts, FlowStep(f)
      PROVE  OwnInv'
  BY <1>2, QuietOwn, LinkOwn, WriteOwn DEF FlowStep, Passing
<1>3. CASE ChainSteps
  BY <1>3, ChainOwn
<1>4. CASE TasksRestart
  BY <1>4, RestartOwn
<1>5. CASE UNCHANGED taskVars
  BY <1>5 DEF taskVars, OwnInv
<1>6. QED
  BY <1>1, <1>2, <1>3, <1>4, <1>5 DEF TasksNext, ChainSteps

LEMMA OwnInit == TasksInit => OwnInv
  BY DEF TasksInit, NoRela, OwnInv, Owned

Contains(plan, stage) == \E i \in 1..Len(plan) : plan[i] = stage

\* The only deployment of a site with the status e: it stored another one, and has the
\* stages before it that take the site out of DEPLOYING.
StatusFits(q, e) ==
    /\ q.original # "DEPLOYING"
    /\ e = "DEPLOYING" =>
         \/ q.plan = <<"rollback">>
         \/ Contains(q.plan, "deployed") /\ ~Contains(q.plan, "deploying")

DeploysOf(q, s) == q.site = s /\ q.kind \in DeployKinds

SiteFits(s, e, flows) ==
    /\ e = "DEPLOYING" => \E f \in Posts : DeploysOf(flows[f], s)
    /\ \A f \in Posts :
          DeploysOf(flows[f], s) /\ (\A g \in Posts \ {f} : ~DeploysOf(flows[g], s)) => StatusFits(flows[f], e)

RolledInv == restarts = 0 => \A s \in Sites : SiteFits(s, siteStatus[s], flow)

\* A step of one request, which writes the status of its site or leaves it.
LEMMA SiteStill ==
    ASSUME NamedInv, NEW f \in Posts, NEW q, SetFlow(f, q), Same(q, flow[f]), NEW s \in Sites, NEW d, NEW e,
           SiteFits(s, d, flow),
           e = d \/ (flow[f].site = s /\ (e = "DEPLOYING" => flow[f].kind \in DeployKinds)),
           DeploysOf(flow[f], s) /\ StatusFits(flow[f], d) => StatusFits(q, e)
    PROVE  SiteFits(s, e, flow')
<1>1. \A g \in Posts : flow'[g] = IF g = f THEN q ELSE flow[g]
  BY DEF SetFlow, NamedInv, FlowsFit
<1>2. \A g \in Posts : DeploysOf(flow'[g], s) <=> DeploysOf(flow[g], s)
  BY <1>1 DEF DeploysOf, Same
<1>3. ASSUME e = "DEPLOYING"
      PROVE  \E g \in Posts : DeploysOf(flow'[g], s)
  BY <1>2, <1>3 DEF SiteFits, DeploysOf
<1>4. ASSUME NEW g \in Posts, DeploysOf(flow'[g], s), \A h \in Posts \ {g} : ~DeploysOf(flow'[h], s)
      PROVE  StatusFits(flow'[g], e)
  <2>1. StatusFits(flow[g], d) /\ DeploysOf(flow[g], s)
    BY <1>2, <1>4 DEF SiteFits
  <2>2. CASE g = f
    BY <1>1, <2>1, <2>2
  <2>3. CASE g # f
    <3>1. ~DeploysOf(flow[f], s) /\ flow'[g] = flow[g]
      BY <1>1, <1>2, <1>4, <2>3
    <3>2. e = "DEPLOYING" => e = d
      BY <3>1 DEF DeploysOf
    <3>3. QED
      BY <2>1, <3>1, <3>2 DEF StatusFits
  <2>4. QED
    BY <2>2, <2>3
<1>5. QED
  BY <1>3, <1>4 DEF SiteFits

\* Such a step, if it leaves the status.
LEMMA RolledFlow ==
    ASSUME BaseInv, RolledInv, NEW f \in Posts, NEW q, SetFlow(f, q), Same(q, flow[f]),
           UNCHANGED <<siteStatus, restarts>>,
           flow[f].kind \in DeployKinds /\ StatusFits(flow[f], siteStatus[flow[f].site]) =>
              StatusFits(q, siteStatus[flow[f].site])
    PROVE  RolledInv'
<1>1. ASSUME NEW s \in Sites, SiteFits(s, siteStatus[s], flow)
      PROVE  SiteFits(s, siteStatus[s], flow')
  <2>1. DeploysOf(flow[f], s) /\ StatusFits(flow[f], siteStatus[s]) => StatusFits(q, siteStatus[s])
    BY DEF DeploysOf
  <2>2. NamedInv
    BY DEF BaseInv
  <2>3. QED
    BY <1>1, <2>1, <2>2, SiteStill
<1>2. QED
  BY <1>1 DEF RolledInv

\* What is left of a plan after its first stage.
LEMMA ContainsTail ==
    ASSUME NEW plan \in Seq(Stages), plan # <<>>, NEW stage
    PROVE  Contains(plan, stage) <=> Head(plan) = stage \/ Contains(Tail(plan), stage)
<1>1. /\ Len(plan) \in Nat \ {0} /\ Len(Tail(plan)) = Len(plan) - 1
      /\ \A i \in 1..Len(Tail(plan)) : Tail(plan)[i] = plan[i + 1]
      /\ Head(plan) = plan[1]
  BY EmptySeq, HeadTailProperties, LenProperties
<1> DEFINE n == Len(plan)
           t == Tail(plan)
<1>2. n \in Nat \ {0} /\ Len(t) = n - 1 /\ \A i \in 1..Len(t) : t[i] = plan[i + 1]
  BY <1>1
<1>3. Contains(plan, stage) <=> \E i \in 1..n : plan[i] = stage
  BY DEF Contains
<1>4. Contains(t, stage) <=> \E i \in 1..Len(t) : t[i] = stage
  BY DEF Contains
<1> HIDE DEF n, t
<1>5. ASSUME NEW i \in 1..n, plan[i] = stage, i # 1
      PROVE  \E j \in 1..Len(t) : t[j] = stage
  <2>1. i - 1 \in 1..Len(t) /\ (i - 1) + 1 = i
    BY <1>2, <1>5
  <2>2. t[i - 1] = plan[i]
    BY <1>2, <2>1
  <2>3. QED
    BY <1>5, <2>1, <2>2
<1>6. ASSUME NEW i \in 1..Len(t), t[i] = stage
      PROVE  \E j \in 1..n : plan[j] = stage
  <2>1. i + 1 \in 1..n /\ t[i] = plan[i + 1]
    BY <1>2
  <2>2. QED
    BY <1>6, <2>1
<1>7. 1 \in 1..n
  BY <1>2
<1>8. QED
  BY <1>1, <1>3, <1>4, <1>5, <1>6, <1>7 DEF t

LEMMA RollbackPlan == Head(<<"rollback">>) = "rollback" /\ <<"rollback">> # <<>>
<1>1. Head(<<"rollback">>) = "rollback"
  OBVIOUS
<1>2. <<"rollback">> # <<>>
  OBVIOUS
<1>3. QED
  BY <1>1, <1>2

\* Where the status is read and written.
LEMMA StatusAt ==
    ASSUME NEW q \in FlowRow, PlanFits(q), q.plan # <<>>
    PROVE  /\ Head(q.plan) \in {"metadata", "status"} => Contains(q.plan, "deploying")
           /\ Head(q.plan) = "deploying" =>
                /\ q.kind \in DeployKinds
                /\ Contains(Tail(q.plan), "deployed") /\ ~Contains(Tail(q.plan), "deploying")
           /\ Head(q.plan) = "rollback" => q.kind \in DeployKinds
<1>1. CASE q.plan = <<"rollback">>
  <2>1. Head(q.plan) = "rollback"
    BY <1>1, RollbackPlan, Zenon
  <2>2. q.kind \in DeployKinds
    <3>1. CASE q.kind \in PostKinds
      <4>1. \A i \in 1..10 : PostStages[i] # "rollback"
        BY DEF PostStages
      <4>2. \A k \in 1..10 : 11 - k \in 1..10
        OBVIOUS
      <4>3. QED
        BY <2>1, <3>1, <4>1, <4>2, PostAt
    <3>2. CASE q.kind = "publish"
      <4>1. Len(PublishPlan) = 9 /\ \A i \in 1..9 : PublishPlan[i] # "rollback"
        BY DEF PublishPlan
      <4>2. q.kind \in SiteKinds /\ q.kind \notin DeployKinds
        BY <3>2 DEF SiteKinds, DeployKinds
      <4>3. \E i \in 1..9 : Head(q.plan) = PublishPlan[i]
        BY <3>2, <4>1, <4>2, SiteAt, PlanIs
      <4>4. QED
        BY <2>1, <4>1, <4>3
    <3>3. q.kind # "none"
      BY DEF PlanFits, PostKinds, DeployKinds
    <3>4. QED
      BY <3>1, <3>2, <3>3 DEF FlowRow, SiteKinds, DeployKinds
  <2>3. QED
    BY <2>1, <2>2
<1>2. CASE q.plan # <<"rollback">> /\ q.kind \notin DeployKinds
  <2>1. CASE q.kind \in PostKinds
    <3>1. \A i \in 1..10 : PostStages[i] \notin {"metadata", "status", "deploying", "rollback"}
      BY DEF PostStages
    <3>2. \A k \in 1..10 : 11 - k \in 1..10
      OBVIOUS
    <3>3. Head(q.plan) \notin {"metadata", "status", "deploying", "rollback"}
      BY <2>1, <3>1, <3>2, PostAt
    <3>4. QED
      BY <3>3
  <2>2. CASE q.kind = "publish"
    <3>1. Len(PublishPlan) = 9 /\ \A i \in 1..9 : PublishPlan[i] \notin {"metadata", "status", "deploying", "rollback"}
      BY DEF PublishPlan
    <3>2. q.kind \in SiteKinds
      BY <2>2 DEF SiteKinds
    <3>3. \E i \in 1..9 : Head(q.plan) = PublishPlan[i]
      BY <1>2, <2>2, <3>1, <3>2, SiteAt, PlanIs
    <3>4. QED
      BY <3>1, <3>3
  <2>3. q.kind # "none"
    BY <1>2 DEF PlanFits, PostKinds, DeployKinds
  <2>4. QED
    BY <1>2, <2>1, <2>2, <2>3 DEF FlowRow, SiteKinds, DeployKinds
<1>3. CASE q.plan # <<"rollback">> /\ q.kind = "deploy"
  <2>1. Len(DeployStages) = 6 /\ q.kind \in SiteKinds /\ Plan(q.kind) = DeployStages
    BY <1>3, PlanIs DEF DeployStages, SiteKinds
  <2> DEFINE n == Len(q.plan)
             t == Tail(q.plan)
             p == q.plan
  <2>2. /\ Follows(p, DeployStages) /\ n \in 1..6 /\ Head(p) = DeployStages[6 - n + 1]
        /\ Len(t) = n - 1 /\ Follows(t, DeployStages)
    BY <1>3, <2>1, SiteAt
  <2>3. n = Len(p)
    OBVIOUS
  <2> HIDE DEF n, t, p
  <2>4. \A j \in 1..6 : /\ DeployStages[6 - j + 1] = "status" => j = 6
                        /\ DeployStages[6 - j + 1] # "metadata"
                        /\ DeployStages[6 - j + 1] = "deploying" => j = 4
                        /\ DeployStages[6 - j + 1] # "rollback"
    BY DEF DeployStages
  <2>5. ASSUME Head(p) \in {"metadata", "status"}
        PROVE  Contains(p, "deploying")
    <3>1. Len(p) = 6
      BY <2>2, <2>3, <2>4, <2>5
    <3>2. \A i \in 1..6 : p[i] = DeployStages[i]
      <4>1. \A i \in 1..6 : p[i] = DeployStages[6 - 6 + i]
        BY <2>1, <2>2, <3>1 DEF Follows
      <4>2. \A i \in 1..6 : 6 - 6 + i = i
        OBVIOUS
      <4>3. QED
        BY <4>1, <4>2
    <3>3. DeployStages[3] = "deploying"
      BY DEF DeployStages
    <3>4. p[3] = "deploying"
      BY <3>2, <3>3
    <3>5. QED
      BY <3>1, <3>4 DEF Contains
  <2>6. ASSUME Head(p) = "deploying"
        PROVE  Contains(t, "deployed") /\ ~Contains(t, "deploying")
    <3>1. Len(t) = 3
      BY <2>2, <2>3, <2>4, <2>6
    <3>2. \A i \in 1..3 : t[i] = DeployStages[3 + i]
      <4>1. \A i \in 1..3 : t[i] = DeployStages[6 - 3 + i]
        BY <2>1, <2>2, <3>1 DEF Follows
      <4>2. \A i \in 1..3 : 6 - 3 + i = 3 + i
        OBVIOUS
      <4>3. QED
        BY <4>1, <4>2
    <3>3. DeployStages[6] = "deployed" /\ \A i \in 1..3 : DeployStages[3 + i] # "deploying"
      BY DEF DeployStages
    <3>4. t[3] = "deployed" /\ \A i \in 1..3 : t[i] # "deploying"
      BY <3>2, <3>3
    <3>5. QED
      BY <3>1, <3>4 DEF Contains
  <2>7. q.kind \in DeployKinds
    BY <1>3 DEF DeployKinds
  <2>8. QED
    BY <2>5, <2>6, <2>7 DEF p, t
<1>4. CASE q.plan # <<"rollback">> /\ q.kind = "deployAndPublish"
  <2>1. Len(BothPlan) = 13 /\ q.kind \in SiteKinds /\ Plan(q.kind) = BothPlan
    BY <1>4, PlanIs DEF BothPlan, SiteKinds
  <2> DEFINE n == Len(q.plan)
             t == Tail(q.plan)
             p == q.plan
  <2>2. /\ Follows(p, BothPlan) /\ n \in 1..13 /\ Head(p) = BothPlan[13 - n + 1]
        /\ Len(t) = n - 1 /\ Follows(t, BothPlan)
    BY <1>4, <2>1, SiteAt
  <2>3. n = Len(p)
    OBVIOUS
  <2> HIDE DEF n, t, p
  <2>4. \A j \in 1..13 : /\ BothPlan[13 - j + 1] = "metadata" => j = 13
                         /\ BothPlan[13 - j + 1] = "status" => j = 12
                         /\ BothPlan[13 - j + 1] = "deploying" => j = 10
                         /\ BothPlan[13 - j + 1] # "rollback"
    BY DEF BothPlan
  <2>5. ASSUME Head(p) \in {"metadata", "status"}
        PROVE  Contains(p, "deploying")
    <3>1. BothPlan[4] = "deploying"
      BY DEF BothPlan
    <3>2. Len(p) \in {12, 13}
      BY <2>2, <2>3, <2>4, <2>5
    <3>3. CASE Len(p) = 13
      <4>1. \A i \in 1..13 : p[i] = BothPlan[13 - 13 + i]
        BY <2>1, <2>2, <3>3 DEF Follows
      <4>2. 13 - 13 + 4 = 4 /\ 4 \in 1..13
        OBVIOUS
      <4>3. p[4] = "deploying"
        BY <3>1, <4>1, <4>2
      <4>4. QED
        BY <3>3, <4>2, <4>3 DEF Contains
    <3>4. CASE Len(p) = 12
      <4>1. \A i \in 1..12 : p[i] = BothPlan[13 - 12 + i]
        BY <2>1, <2>2, <3>4 DEF Follows
      <4>2. 13 - 12 + 3 = 4 /\ 3 \in 1..12
        OBVIOUS
      <4>3. p[3] = "deploying"
        BY <3>1, <4>1, <4>2
      <4>4. QED
        BY <3>4, <4>2, <4>3 DEF Contains
    <3>5. QED
      BY <3>2, <3>3, <3>4
  <2>6. ASSUME Head(p) = "deploying"
        PROVE  Contains(t, "deployed") /\ ~Contains(t, "deploying")
    <3>1. Len(t) = 9
      <4>1. n \in 1..13 /\ BothPlan[13 - n + 1] = "deploying"
        BY <2>2, <2>6
      <4>2. n = 10
        BY <2>4, <4>1
      <4>3. QED
        BY <2>2, <4>2
    <3>2. \A i \in 1..9 : t[i] = BothPlan[4 + i]
      <4>1. \A i \in 1..9 : t[i] = BothPlan[13 - 9 + i]
        BY <2>1, <2>2, <3>1 DEF Follows
      <4>2. \A i \in 1..9 : 13 - 9 + i = 4 + i
        OBVIOUS
      <4>3. QED
        BY <4>1, <4>2
    <3>3. BothPlan[7] = "deployed" /\ \A i \in 1..9 : BothPlan[4 + i] # "deploying"
      BY DEF BothPlan
    <3>4. t[3] = "deployed" /\ \A i \in 1..9 : t[i] # "deploying"
      BY <3>2, <3>3
    <3>5. QED
      BY <3>1, <3>4 DEF Contains
  <2>7. q.kind \in DeployKinds
    BY <1>4 DEF DeployKinds
  <2>8. QED
    BY <2>5, <2>6, <2>7 DEF p, t
<1>5. QED
  BY <1>1, <1>2, <1>3, <1>4 DEF DeployKinds

\* A request that goes on, but not by writing a status.
LEMMA NextStatus ==
    ASSUME NEW p \in FlowRow, p.plan # <<>>, NEW q, q.plan = Tail(p.plan), q.original = p.original,
           Head(p.plan) \notin {"deployed", "rollback"}, NEW e, StatusFits(p, e)
    PROVE  StatusFits(q, e)
<1>1. p.plan \in Seq(Stages)
  BY DEF FlowRow
<1>2. p.plan # <<"rollback">>
  BY RollbackPlan, Zenon
<1>3. ASSUME Contains(p.plan, "deployed"), ~Contains(p.plan, "deploying")
      PROVE  Contains(q.plan, "deployed") /\ ~Contains(q.plan, "deploying")
  <2>1. Contains(p.plan, "deployed") <=> Head(p.plan) = "deployed" \/ Contains(Tail(p.plan), "deployed")
    BY <1>1, ContainsTail
  <2>2. Contains(p.plan, "deploying") <=> Head(p.plan) = "deploying" \/ Contains(Tail(p.plan), "deploying")
    BY <1>1, ContainsTail
  <2>3. QED
    BY <1>3, <2>1, <2>2
<1>4. QED
  BY <1>2, <1>3 DEF StatusFits

LEMMA ThrownRolled ==
    ASSUME BaseInv, RolledInv, NEW f \in Posts, InFlight(f), SetFlow(f, Thrown(f)), UNCHANGED <<siteStatus, restarts>>,
           Head(flow[f].plan) \in {"config", "postConfig", "publishConfig", "metadata", "dns"} \union WorkStages
    PROVE  RolledInv'
<1>1. NamedInv /\ flow[f] \in FlowRow /\ PlanFits(flow[f]) /\ flow[f].plan # <<>>
  BY DEF BaseInv, NamedInv, FlowsFit, PlansFit, InFlight
<1>2. /\ Thrown(f).plan = Catch(f) /\ Same(Thrown(f), flow[f])
      /\ Thrown(f).original = flow[f].original
  BY <1>1, ThrownRow
<1>3. Head(flow[f].plan) \notin {"rollback", "status"}
  BY DEF WorkStages
<1>4. ASSUME flow[f].kind \in DeployKinds, NEW e, StatusFits(flow[f], e)
      PROVE  StatusFits(Thrown(f), e)
  <2>1. flow[f].plan # <<"rollback">>
    BY <1>3, RollbackPlan, Zenon
  <2>2. ASSUME e = "DEPLOYING"
        PROVE  Thrown(f).plan = <<"rollback">>
    <3>1. Contains(flow[f].plan, "deployed") /\ ~Contains(flow[f].plan, "deploying")
      BY <1>4, <2>1, <2>2 DEF StatusFits
    <3>2. Head(flow[f].plan) \notin {"metadata", "status"}
      BY <1>1, <3>1, StatusAt
    <3>3. \E i \in 1..Len(flow[f].plan) : flow[f].plan[i] = "deployed" /\ Head(flow[f].plan) \notin {"metadata", "status"}
      BY <3>1, <3>2 DEF Contains
    <3>4. flow[f].kind \in {"deploy", "deployAndPublish"} /\ flow[f].kind \notin PostKinds
      BY <1>4 DEF DeployKinds, PostKinds
    <3>5. Catch(f) = <<"rollback">>
      BY <3>3, <3>4 DEF Catch
    <3>6. QED
      BY <1>2, <3>5, Zenon
  <2>3. QED
    BY <1>2, <1>4, <2>2 DEF StatusFits
<1>5. QED
  BY <1>2, <1>4, RolledFlow

LEMMA NextRolled ==
    ASSUME BaseInv, RolledInv, NEW f \in Posts, InFlight(f), NEW q, SetFlow(f, q), Same(q, flow[f]),
           q.plan = flow[f].plan \/ q.plan = Tail(flow[f].plan), q.original = flow[f].original,
           Head(flow[f].plan) \notin {"deployed", "rollback"}, UNCHANGED <<siteStatus, restarts>>
    PROVE  RolledInv'
<1>1. flow[f] \in FlowRow /\ flow[f].plan # <<>>
  BY DEF BaseInv, NamedInv, FlowsFit, InFlight
<1>2. ASSUME NEW e, StatusFits(flow[f], e)
      PROVE  StatusFits(q, e)
  <2>1. CASE q.plan = flow[f].plan
    BY <1>2, <2>1 DEF StatusFits
  <2>2. CASE q.plan = Tail(flow[f].plan)
    BY <1>1, <1>2, <2>2, NextStatus
  <2>3. QED
    BY <2>1, <2>2
<1>3. QED
  BY <1>2, RolledFlow

\* The status is stored, by a deployment that is the only one, before it is DEPLOYING.
LEMMA ReadRolled ==
    ASSUME BaseInv, RolledInv, NEW f \in Posts, ReadStatus(f)
    PROVE  RolledInv'
<1> DEFINE d == Done(f)
           e == siteStatus[flow[f].site]
           q == [d EXCEPT !.original = e]
<1>1. /\ NamedInv /\ InFlight(f) /\ Head(flow[f].plan) = "status" /\ UNCHANGED <<siteStatus, restarts>>
      /\ SetFlow(f, q)
  BY DEF BaseInv, ReadStatus, At
<1>2. flow[f] \in FlowRow /\ PlanFits(flow[f]) /\ flow[f].plan # <<>>
  BY <1>1 DEF BaseInv, NamedInv, FlowsFit, PlansFit, InFlight
<1>3. d \in FlowRow /\ Same(d, flow[f])
  BY <1>1, DoneRow
<1> HIDE DEF d, e
<1>4. q.original = e /\ Same(q, flow[f])
  BY <1>3 DEF FlowRow, Same
<1> HIDE DEF q
<1>5. ASSUME StatusFits(flow[f], e)
      PROVE  StatusFits(q, e)
  <2>1. Contains(flow[f].plan, "deploying")
    BY <1>1, <1>2, StatusAt
  <2>2. flow[f].plan # <<"rollback">>
    BY <1>1, RollbackPlan, Zenon
  <2>3. e # "DEPLOYING"
    BY <1>5, <2>1, <2>2 DEF StatusFits
  <2>4. QED
    BY <1>4, <2>3 DEF StatusFits
<1>6. QED
  BY <1>1, <1>4, <1>5, RolledFlow DEF e

\* The status is written.
LEMMA WriteRolled ==
    ASSUME BaseInv, RolledInv, NEW f \in Posts, WriteStatus(f)
    PROVE  RolledInv'
<1> DEFINE q == Done(f)
           s == flow[f].site
<1>1. /\ NamedInv /\ InFlight(f) /\ UNCHANGED restarts /\ SetFlow(f, q)
  BY DEF BaseInv, WriteStatus, At
<1>2. flow[f] \in FlowRow /\ PlanFits(flow[f]) /\ flow[f].plan # <<>> /\ s \in Sites
  BY <1>1 DEF BaseInv, NamedInv, FlowsFit, PlansFit, InFlight, FlowRow
<1>3. Same(q, flow[f]) /\ q.plan = Tail(flow[f].plan) /\ q.original = flow[f].original
  BY <1>1, DoneRow
<1>4. PICK e :
        /\ siteStatus' = [siteStatus EXCEPT ![s] = e]
        /\ \/ Head(flow[f].plan) = "deploying"
           \/ Head(flow[f].plan) = "rollback" /\ e = flow[f].original
           \/ e # "DEPLOYING"
  <2>1. CASE \E stage \in DOMAIN StatusAtStage :
                At(f, stage) /\ siteStatus' = [siteStatus EXCEPT ![s] = StatusAtStage[stage]]
    <3>1. \A stage \in DOMAIN StatusAtStage : stage = "deploying" \/ StatusAtStage[stage] # "DEPLOYING"
      BY DEF StatusAtStage
    <3>2. QED
      BY <2>1, <3>1 DEF At
  <2>2. CASE At(f, "rollback") /\ siteStatus' = [siteStatus EXCEPT ![s] = flow[f].original]
    BY <2>2 DEF At
  <2>3. QED
    BY <2>1, <2>2 DEF WriteStatus
<1> HIDE DEF q, s
<1>5. siteStatus \in [Sites -> SiteStates]
  BY <1>1 DEF NamedInv, ColumnsFit
<1>6. e = "DEPLOYING" => flow[f].kind \in DeployKinds \/ flow[f].original = "DEPLOYING"
  BY <1>2, <1>4, StatusAt
<1>7. e = "DEPLOYING" => flow[f].kind \in DeployKinds
  BY <1>2, <1>4, StatusAt
<1>8. ASSUME NEW d, StatusFits(flow[f], d)
      PROVE  StatusFits(q, e)
  <2>1. q.original # "DEPLOYING"
    BY <1>3, <1>8 DEF StatusFits
  <2>2. e = "DEPLOYING" => Contains(q.plan, "deployed") /\ ~Contains(q.plan, "deploying")
    BY <1>2, <1>3, <1>4, <2>1, StatusAt
  <2>3. QED
    BY <2>1, <2>2 DEF StatusFits
<1>9. ASSUME NEW u \in Sites, SiteFits(u, siteStatus[u], flow)
      PROVE  SiteFits(u, siteStatus'[u], flow')
  <2>1. CASE u = s
    <3>1. siteStatus'[u] = e /\ flow[f].site = u
      BY <1>2, <1>4, <1>5, <2>1 DEF s
    <3>2. SiteFits(u, e, flow')
      BY <1>1, <1>3, <1>7, <1>8, <1>9, <3>1, SiteStill
    <3>3. QED
      BY <3>1, <3>2
  <2>2. CASE u # s
    <3>1. siteStatus'[u] = siteStatus[u] /\ ~DeploysOf(flow[f], u)
      BY <1>4, <1>5, <2>2 DEF s, DeploysOf
    <3>2. SiteFits(u, siteStatus[u], flow')
      BY <1>1, <1>3, <1>9, <3>1, SiteStill
    <3>3. QED
      BY <3>1, <3>2
  <2>3. QED
    BY <2>1, <2>2
<1>10. QED
  BY <1>1, <1>9 DEF RolledInv

LEMMA FlowRolled ==
    ASSUME BaseInv, RolledInv, NEW f \in Posts, FlowStep(f)
    PROVE  RolledInv'
<1>1. NamedInv
  BY DEF BaseInv
<1>2. flow[f] \in FlowRow
  BY <1>1 DEF NamedInv, FlowsFit
<1>3. CASE GetWorkspace(f)
  <2>1. InFlight(f) /\ Head(flow[f].plan) = "workspace" /\ UNCHANGED <<siteStatus, restarts>>
    BY <1>3 DEF GetWorkspace, At
  <2>2. PICK q \in FlowRow :
          /\ SetFlow(f, q) /\ Same(q, flow[f]) /\ q.original = flow[f].original
          /\ (q.plan = flow[f].plan \/ q.plan = Tail(flow[f].plan))
    BY <1>1, <1>3, WorkspaceRow
  <2>3. QED
    BY <2>1, <2>2, NextRolled
<1>4. CASE LinkRela(f) \/ WriteRelaState(f)
  <2>1. /\ InFlight(f) /\ Head(flow[f].plan) \notin {"deployed", "rollback"}
        /\ UNCHANGED <<siteStatus, restarts>> /\ SetFlow(f, Done(f))
    BY <1>4 DEF LinkRela, WriteRelaState, At, StateAtStage
  <2>2. Same(Done(f), flow[f]) /\ Done(f).plan = Tail(flow[f].plan) /\ Done(f).original = flow[f].original
    BY <1>1, <2>1, DoneRow
  <2>3. QED
    BY <2>1, <2>2, NextRolled
<1>5. CASE BeginPost(f)
  <2>1. InFlight(f) /\ Head(flow[f].plan) = "begin" /\ UNCHANGED <<siteStatus, restarts>>
    BY <1>5 DEF BeginPost, At
  <2>2. PICK q \in FlowRow :
          SetFlow(f, q) /\ Same(q, flow[f]) /\ q.plan = Tail(flow[f].plan) /\ q.original = flow[f].original
    BY <1>1, <1>5, BeginNamed
  <2>3. QED
    BY <2>1, <2>2, NextRolled
<1>6. CASE GenerateDeployConfig(f) \/ GeneratePostConfig(f) \/ GeneratePublishConfig(f) \/ UploadMetadata(f)
           \/ UpdateDomain(f)
  <2>1. /\ Head(flow[f].plan) \in {"config", "postConfig", "publishConfig", "metadata", "dns"}
        /\ UNCHANGED <<siteStatus, restarts>>
    BY <1>6 DEF GenerateDeployConfig, GeneratePostConfig, WithStorage, GeneratePublishConfig, UploadMetadata,
       UpdateDomain, At
  <2>2. /\ InFlight(f)
        /\ \E q \in FlowRow : /\ SetFlow(f, q) /\ NextRow(q, flow[f])
                              /\ q.original = IF Head(flow[f].plan) = "status" THEN siteStatus[flow[f].site]
                                              ELSE flow[f].original
    BY <1>1, <1>6, PassingRow DEF Passing
  <2>3. PICK q \in FlowRow : SetFlow(f, q) /\ NextRow(q, flow[f]) /\ q.original = flow[f].original
    BY <2>1, <2>2
  <2>4. QED
    BY <2>1, <2>2, <2>3, NextRolled DEF NextRow
<1>7. CASE SetFlow(f, Thrown(f)) /\ (StageThrows(f) \/ Dispatch(f) \/ Await(f))
  <2>1. /\ InFlight(f) /\ UNCHANGED <<siteStatus, restarts>>
        /\ Head(flow[f].plan) \in {"config", "postConfig", "publishConfig", "metadata", "dns"} \union WorkStages
    BY <1>7, AwaitRow DEF StageThrows, Dispatch, Await, At, WorkStages
  <2>2. QED
    BY <1>7, <2>1, ThrownRolled
<1>8. CASE Dispatch(f) /\ ~SetFlow(f, Thrown(f))
  <2>1. PICK stage \in WorkStages, t \in Tasks :
          At(f, stage) /\ SetFlow(f, [flow[f] EXCEPT !.task = t])
    BY <1>1, <1>8, DispatchRow DEF BaseInv
  <2> DEFINE q == [flow[f] EXCEPT !.task = t]
  <2>2. Same(q, flow[f]) /\ q.plan = flow[f].plan /\ q.original = flow[f].original
    BY <1>2 DEF FlowRow, Same
  <2>3. SetFlow(f, q)
    BY <2>1
  <2> HIDE DEF q
  <2>4. InFlight(f) /\ Head(flow[f].plan) \notin {"deployed", "rollback"} /\ UNCHANGED <<siteStatus, restarts>>
    BY <1>8, <2>1 DEF At, WorkStages, Dispatch
  <2>5. QED
    BY <2>2, <2>3, <2>4, NextRolled
<1>9. CASE Await(f) /\ ~SetFlow(f, Thrown(f))
  <2>1. InFlight(f) /\ Head(flow[f].plan) \notin {"deployed", "rollback"} /\ UNCHANGED <<siteStatus, restarts>>
    BY <1>9, AwaitRow DEF WorkStages, Await
  <2>2. PICK q \in FlowRow :
          /\ SetFlow(f, q) /\ Same(q, flow[f]) /\ q.original = flow[f].original
          /\ q.plan = Tail(flow[f].plan)
    BY <1>9, AwaitRow
  <2>3. QED
    BY <2>1, <2>2, NextRolled
<1>10. QED
  BY <1>3, <1>4, <1>5, <1>6, <1>7, <1>8, <1>9, ReadRolled, WriteRolled DEF FlowStep, StageThrows

LEMMA RequestRolled ==
    ASSUME BaseInv, RolledInv, NEW f \in Posts, NEW s \in Sites, NEW kind \in PostKinds \union SiteKinds,
           Request(f, s, kind)
    PROVE  RolledInv'
<1> DEFINE q == [NoFlow(s) EXCEPT !.kind = kind, !.plan = Plan(kind)]
<1>1. NamedInv /\ SetFlow(f, q) /\ UNCHANGED <<siteStatus, restarts>> /\ flow[f].kind = "none"
  BY DEF Request, BaseInv
<1>2. q.original = "CONFIGURED"
  BY DEF NoFlow
<1> HIDE DEF q
<1>3. \A u \in Sites : ~DeploysOf(flow[f], u)
  BY <1>1 DEF DeploysOf, DeployKinds
<1>4. \A g \in Posts : flow'[g] = IF g = f THEN q ELSE flow[g]
  BY <1>1 DEF SetFlow, NamedInv, FlowsFit
<1>5. ASSUME NEW u \in Sites, SiteFits(u, siteStatus[u], flow)
      PROVE  SiteFits(u, siteStatus[u], flow')
  <2> DEFINE e == siteStatus[u]
  <2> HIDE DEF e
  <2>0. SiteFits(u, e, flow)
    BY <1>5 DEF e
  <2>1. ASSUME e = "DEPLOYING"
        PROVE  \E g \in Posts \ {f} : DeploysOf(flow'[g], u)
    <3>1. PICK g \in Posts : DeploysOf(flow[g], u)
      BY <2>0, <2>1 DEF SiteFits
    <3>2. g # f
      BY <1>3, <3>1
    <3>3. QED
      BY <1>4, <3>1, <3>2
  <2>2. ASSUME NEW g \in Posts, DeploysOf(flow'[g], u), \A h \in Posts \ {g} : ~DeploysOf(flow'[h], u)
        PROVE  StatusFits(flow'[g], e)
    <3>1. CASE g = f
      <4>1. e # "DEPLOYING"
        BY <2>1, <2>2, <3>1
      <4>2. QED
        BY <1>2, <1>4, <3>1, <4>1 DEF StatusFits
    <3>2. CASE g # f
      <4>1. flow'[g] = flow[g] /\ \A h \in Posts \ {g} : ~DeploysOf(flow[h], u)
        BY <1>3, <1>4, <2>2, <3>2
      <4>2. QED
        BY <2>0, <2>2, <4>1 DEF SiteFits
    <3>3. QED
      BY <3>1, <3>2
  <2>3. SiteFits(u, e, flow')
    BY <2>1, <2>2 DEF SiteFits
  <2>4. QED
    BY <2>3 DEF e
<1>6. QED
  BY <1>1, <1>5 DEF RolledInv

LEMMA RolledNext == BaseInv /\ RolledInv /\ [TasksNext]_taskVars => RolledInv'
<1> SUFFICES ASSUME BaseInv, RolledInv, [TasksNext]_taskVars PROVE RolledInv'
  OBVIOUS
<1>1. ASSUME NEW f \in Posts, NEW s \in Sites, PostRequest(f, s) \/ SiteRequest(f, s)
      PROVE  RolledInv'
  BY <1>1, RequestRolled DEF PostRequest, SiteRequest
<1>2. ASSUME NEW f \in Posts, FlowStep(f)
      PROVE  RolledInv'
  BY <1>2, FlowRolled
<1>3. CASE ChainSteps
  BY <1>3, ChainBase DEF RolledInv
<1>4. CASE TasksRestart
  <2>1. restarts \in Nat /\ restarts' = restarts + 1
    BY <1>4 DEF BaseInv, NamedInv, ColumnsFit, TasksRestart, ChainsRestart
  <2>2. restarts' # 0
    BY <2>1
  <2>3. QED
    BY <2>2 DEF RolledInv
<1>5. CASE UNCHANGED taskVars
  BY <1>5 DEF taskVars, RolledInv
<1>6. QED
  BY <1>1, <1>2, <1>3, <1>4, <1>5 DEF TasksNext, ChainSteps

LEMMA RolledInit == TasksInit => RolledInv
<1> SUFFICES ASSUME TasksInit PROVE RolledInv
  OBVIOUS
<1>1. \A f \in Posts : flow[f].kind = "none"
  BY DEF TasksInit, NoFlow
<1>2. \A f \in Posts, s \in Sites : ~DeploysOf(flow[f], s)
  BY <1>1 DEF DeploysOf, DeployKinds
<1>3. \A s \in Sites : siteStatus[s] \in {"CONFIGURED", "DEPLOYED", "PUBLISHED"}
  BY DEF TasksInit
<1>4. QED
  BY <1>2, <1>3 DEF RolledInv, SiteFits

\* A row is DOING only while a request of its workspace is in flight, or after one has
\* lost its workspace; a site is DEPLOYING only while a deployment is in flight, or after
\* two: for any number of each, as long as the backend has not restarted.
THEOREM WorkOwned == TasksSpec => []WorkIsOwned
<1>1. BaseInv /\ OwnInv /\ RolledInv => WorkIsOwned
  <2> SUFFICES ASSUME BaseInv, OwnInv, RolledInv, ~ restarts > 0 PROVE WorkIsOwned
    BY DEF WorkIsOwned
  <2>1. restarts = 0
    <3>1. restarts \in Nat
      BY DEF BaseInv, NamedInv, ColumnsFit
    <3>2. QED
      BY <3>1
  <2>2. ASSUME NEW f \in Posts, rela[f].state = "DOING"
        PROVE  \/ \E g \in Posts : InFlight(g) /\ rela[f].workspace \in {flow[g].given, flow[g].workspace}
               \/ \E g \in Posts : HasLostWorkspace(g)
    <3>1. \/ \E g \in Posts : Owns(flow[g], flow[f].site, rela[f].workspace)
          \/ \E g \in Posts : LostNow(flow[g])
      BY <2>1, <2>2 DEF OwnInv, Owned
    <3>2. CASE \E g \in Posts : Owns(flow[g], flow[f].site, rela[f].workspace)
      BY <3>2, FailPlan DEF Owns, Upto, Failing, InFlight
    <3>3. CASE \E g \in Posts : LostNow(flow[g])
      <4>1. PICK g \in Posts : LostNow(flow[g])
        BY <3>3
      <4> DEFINE p == flow[g].plan
      <4>2. \A i \in 1..Len(p) : p[i] # "begin"
        <5>1. CASE p = <<>>
          <6>1. Len(<<>>) = 0
            OBVIOUS
          <6>2. QED
            BY <5>1, <6>1
        <5>2. CASE p = <<"fail">>
          <6> DEFINE a == <<"fail">>
          <6>1. Len(a) = 1 /\ a[1] = "fail"
            BY FailPlan
          <6> HIDE DEF a
          <6>2. \A i \in 1..Len(a) : a[i] # "begin"
            BY <6>1
          <6>3. QED
            BY <5>2, <6>2 DEF a
        <5>3. CASE Upto(flow[g], 7)
          <6>1. Follows(p, PostStages) /\ Len(p) <= 7 /\ Len(p) \in Nat
            <7>1. p \in Seq(Stages)
              BY DEF BaseInv, NamedInv, FlowsFit, FlowRow
            <7>2. QED
              BY <5>3, <7>1, LenProperties DEF Upto
          <6> HIDE DEF p
          <6>2. Len(PostStages) = 10 /\ \A j \in 4..10 : PostStages[j] # "begin"
            BY DEF PostStages
          <6>3. ASSUME NEW i \in 1..Len(p) PROVE p[i] # "begin"
            <7>1. 10 - Len(p) + i \in 4..10
              BY <6>1
            <7>2. p[i] = PostStages[10 - Len(p) + i]
              BY <6>1, <6>2 DEF Follows
            <7>3. QED
              BY <6>2, <7>1, <7>2
          <6>4. QED
            BY <6>3
        <5>4. QED
          BY <4>1, <5>1, <5>2, <5>3 DEF LostNow, Past, Failing
      <4>3. HasLostWorkspace(g)
        BY <4>1, <4>2 DEF LostNow, Past, HasLostWorkspace
      <4>4. QED
        BY <4>3
    <3>4. QED
      BY <3>1, <3>2, <3>3
  <2>3. ASSUME NEW s \in Sites, siteStatus[s] = "DEPLOYING"
        PROVE  \/ \E f \in Posts : InFlight(f) /\ Deploys(f, s)
               \/ \E f, g \in Posts : f # g /\ Deploys(f, s) /\ Deploys(g, s)
    <3>1. SiteFits(s, siteStatus[s], flow)
      BY <2>1 DEF RolledInv
    <3>2. PICK f \in Posts : DeploysOf(flow[f], s)
      BY <2>3, <3>1 DEF SiteFits
    <3>3. \A g \in Posts : DeploysOf(flow[g], s) <=> Deploys(g, s)
      BY DEF DeploysOf, DeployKinds, Deploys
    <3>4. CASE \E g \in Posts \ {f} : DeploysOf(flow[g], s)
      BY <3>2, <3>3, <3>4
    <3>5. CASE \A g \in Posts \ {f} : ~DeploysOf(flow[g], s)
      <4>1. StatusFits(flow[f], siteStatus[s])
        BY <3>1, <3>2, <3>5 DEF SiteFits
      <4>2. flow[f].plan = <<"rollback">> \/ Contains(flow[f].plan, "deployed")
        BY <2>3, <4>1 DEF StatusFits
      <4>3. flow[f].plan # <<>>
        <5>1. CASE flow[f].plan = <<"rollback">>
          BY <5>1, RollbackPlan, Zenon
        <5>2. CASE Contains(flow[f].plan, "deployed")
          <6>1. Len(<<>>) = 0
            OBVIOUS
          <6>2. ~Contains(<<>>, "deployed")
            BY <6>1 DEF Contains
          <6>3. QED
            BY <5>2, <6>2
        <5>3. QED
          BY <4>2, <5>1, <5>2
      <4>4. QED
        BY <3>2, <3>3, <4>3 DEF InFlight
    <3>6. QED
      BY <3>4, <3>5
  <2>4. QED
    BY <2>2, <2>3 DEF WorkIsOwned
<1>2. QED
  BY BaseInit, BaseNext, PushInit, PushNext, OwnInit, OwnNext, RolledInit, RolledNext, <1>1, PTL DEF TasksSpec

(***************************************************************************)
(* The behaviours of the run.                                              *)
(***************************************************************************)

\* A behaviour of the run is one of each component, of which all but one stutter: what
\* is proved of each of them holds of it.
THEOREM AllSubjects ==
    Spec => /\ TasksSpec /\ PostsSpec /\ SynchronizerSpec
            /\ RealTimeSpec /\ MigrationSpec /\ ListingsSpec
<1>1. Init => /\ TasksInit /\ PostsInit /\ SynchronizerInit
              /\ RealTimeInit /\ MigrationInit /\ ListingsInit
  BY DEF Init
<1>2. [Next]_<<subjectVars, subject>> =>
        /\ [TasksNext]_taskVars /\ [PostsNext]_postsVars /\ [SynchronizerNext]_synchronizerVars
        /\ [RealTimeNext]_realTimeVars /\ [MigrationNext]_migrationVars /\ [ListingsNext]_listingVars
  BY DEF Next, subjectVars
<1> QED
  BY <1>1, <1>2, PTL
    DEF Spec, TasksSpec, PostsSpec, SynchronizerSpec, RealTimeSpec, MigrationSpec, ListingsSpec

\* Types of all of the variables of the run.
THEOREM RunTypeCorrect == Spec => []TypeOK
<1>1. TasksTypeOK /\ PostsTypeOK /\ SynchronizerTypeOK /\ RealTimeTypeOK /\ MigrationTypeOK /\ ListingsTypeOK => TypeOK
  BY DEF TypeOK
<1> QED
  BY <1>1, AllSubjects, TasksTypeCorrect, PostsTypeCorrect, SynchronizerTypeCorrect,
    RealTimeTypeCorrect, MigrationTypeCorrect, ListingsTypeCorrect, PTL
=============================================================================
