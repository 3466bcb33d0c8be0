---------------------------- MODULE Sites_proofs ----------------------------
(***************************************************************************)
(* The rows of sites and their names in the world. What each promises      *)
(* holds for any number of sites, providers, requests and publications,    *)
(* and for all that may go wrong; and so for the behaviours that are       *)
(* checked, each of which is about the rows or about the names.            *)
(***************************************************************************)
EXTENDS MCSites, FiniteSetTheorems, TLAPS

(***************************************************************************)
(* Domains.                                                                *)
(***************************************************************************)

\* Types of what the proofs need; the timers are counted without their bound.
DomainsTyped ==
    /\ prefix \in [Spaces -> Names]
    /\ \A i \in DOMAIN zone : zone[i] \in Records
    /\ page \in [Spaces -> [built: BOOLEAN, cname: Names \union {NoName}]]
    /\ call \in [Calls -> CallRow]
    /\ recorded \in [Spaces -> Names \union {NoName}]
    /\ refused \in [Spaces -> BOOLEAN] /\ crossed \in [Spaces -> BOOLEAN]

\* The ids of the records are numbers in a row.
ZoneFits == \E n \in 0..MaxRecords : DOMAIN zone = 1..n

\* What is known of a call: whose it is, and whose record it is going to rename.
CallFits(c, records) ==
    /\ c.pc # "idle" => c.space \in Spaces /\ c.name \in Names
    /\ c.pc = "patch" => c.record \in DOMAIN records /\ records[c.record].content = OwnerOf[c.space]

\* A timer that is going to set the domain has found the record of its name.
Checked(c) == c.pc = "update" \/ (c.pc = "info" /\ c.valid)

\* What is known of a site that is published by one call at a time, and of whose
\* checked records none is renamed.
SpaceFits(s) ==
    ~crossed[s] =>
        /\ \A k, l \in Publishing(s) : k = l
        /\ \A k \in Calls : call[k].space = s /\ Checked(call[k]) => Resolves(s, call[k].name)
        /\ OnlySpaceOfOwner(s) =>
             /\ \A i, j \in Matching(s) : i = j
             /\ \A k \in Publishing(s) : call[k].pc = "post" => Matching(s) = {}

\* The inductive invariant of the domains.
DomainsInv ==
    /\ DomainsTyped
    /\ ZoneFits
    /\ \A k \in Calls : CallFits(call[k], zone)
    /\ \A s \in Spaces : SpaceFits(s)
    /\ RecordFollowsSite

\* One call moves on, or starts, and the zone stays as it is.
LEMMA OneCall ==
    ASSUME DomainsInv, NEW k \in Calls, NEW row \in CallRow,
           call' = [call EXCEPT ![k] = row],
           zone' = zone, recorded' = recorded, refused' = refused,
           crossed' \in [Spaces -> BOOLEAN], \A s \in Spaces : crossed[s] => crossed'[s],
           CallFits(row, zone),
           Checked(row) => Resolves(row.space, row.name) \/ crossed'[row.space],
           row.pc \in {"list", "patch", "post"} =>
               \/ row.space = call[k].space /\ call[k].pc \in {"list", "patch", "post"}
               \/ Publishing(row.space) = {} \/ crossed'[row.space],
           row.pc = "post" =>
               \/ Matching(row.space) = {}
    PROVE  /\ call' \in [Calls -> CallRow]
           /\ ZoneFits'
           /\ \A l \in Calls : CallFits(call'[l], zone')
           /\ \A s \in Spaces : SpaceFits(s)'
           /\ RecordFollowsSite'
<1>1. call' \in [Calls -> CallRow] /\ \A l \in Calls : call'[l] = IF l = k THEN row ELSE call[l]
  BY DEF DomainsInv, DomainsTyped
<1>2. ZoneFits' BY DEF DomainsInv, ZoneFits
<1>3. \A l \in Calls : CallFits(call'[l], zone') BY <1>1 DEF DomainsInv
<1>4. \A s \in Spaces : Matching(s)' = Matching(s) BY DEF Matching
<1>5. RecordFollowsSite'
  BY <1>4, SMTT(30) DEF DomainsInv, RecordFollowsSite, OnlySpaceOfOwner
<1>6. ASSUME NEW s \in Spaces PROVE SpaceFits(s)'
  <2> SUFFICES ASSUME ~crossed'[s]
               PROVE  /\ \A j, l \in Publishing(s)' : j = l
                      /\ \A l \in Calls : call'[l].space = s /\ Checked(call'[l]) => Resolves(s, call'[l].name)
                      /\ OnlySpaceOfOwner(s) =>
                           /\ \A i, j \in Matching(s)' : i = j
                           /\ \A l \in Publishing(s)' : call'[l].pc = "post" => Matching(s)' = {}
    BY DEF SpaceFits, OnlySpaceOfOwner, Resolves
  <2>1. ~crossed[s] OBVIOUS
  <2>2. SpaceFits(s) BY DEF DomainsInv
  <2>3. /\ \A l \in Publishing(s)' : l # k => l \in Publishing(s) /\ call'[l] = call[l]
        /\ k \in Publishing(s)' =>
             call'[k] = row /\ row.space = s /\ row.pc \in {"list", "patch", "post"}
    <3>1. \A l \in Calls : l \in Publishing(s)' <=> call'[l].space = s /\ call'[l].pc \in {"list", "patch", "post"}
      BY DEF Publishing
    <3> QED BY <1>1, <3>1 DEF Publishing
  <2>4. k \in Publishing(s)' => k \in Publishing(s) \/ Publishing(s) = {}
    BY <2>3 DEF Publishing
  <2>5. \A j, l \in Publishing(s)' : j = l
    BY <2>1, <2>2, <2>3, <2>4 DEF SpaceFits
  <2>6. ASSUME NEW l \in Calls, call'[l].space = s, Checked(call'[l]) PROVE Resolves(s, call'[l].name)
    <3>1. CASE l = k BY <1>1, <2>6, <3>1
    <3>2. CASE l # k BY <1>1, <2>1, <2>2, <2>6, <3>2 DEF SpaceFits
    <3> QED BY <3>1, <3>2
  <2>7. ASSUME OnlySpaceOfOwner(s)
        PROVE  /\ \A i, j \in Matching(s)' : i = j
               /\ \A l \in Publishing(s)' : call'[l].pc = "post" => Matching(s)' = {}
    BY <1>1, <1>4, <2>1, <2>2, <2>3, <2>7 DEF SpaceFits
  <2> QED BY <2>5, <2>6, <2>7
<1> QED BY <1>1, <1>2, <1>3, <1>5, <1>6

\* A call that is over.
LEMMA CallEnds ==
    ASSUME DomainsInv, NEW k \in Calls,
           call' = [call EXCEPT ![k] = NoCall],
           zone' = zone, recorded' = recorded, refused' = refused, crossed' = crossed
    PROVE  /\ call' \in [Calls -> CallRow]
           /\ ZoneFits'
           /\ \A l \in Calls : CallFits(call'[l], zone')
           /\ \A s \in Spaces : SpaceFits(s)'
           /\ RecordFollowsSite'
<1>1. NoCall \in CallRow BY DomainsAssumption DEF NoCall, CallRow
<1>2. CallFits(NoCall, zone) /\ ~Checked(NoCall) /\ NoCall.pc = "idle" BY DEF CallFits, NoCall, Checked
<1>3. crossed \in [Spaces -> BOOLEAN] BY DEF DomainsInv, DomainsTyped
<1> QED BY <1>1, <1>2, <1>3, OneCall

\* What a publication, its timers and its lookups do keeps the invariant.
LEMMA CallsKeep ==
    ASSUME DomainsInv, NEW k \in Calls, NEW s \in Spaces, NEW name \in Names,
           \/ Publish(k, s) \/ TimerFires(k, s, name) \/ ListRecords(k) \/ ListFails(k)
           \/ ScheduleUpdates(k) \/ CheckHealth(k) \/ HealthFails(k) \/ GetInfo(k)
           \/ CreatePages(k) \/ UpdatePages(k)
    PROVE  DomainsInv'
<1>1. call[k] \in CallRow /\ CallFits(call[k], zone) /\ crossed \in [Spaces -> BOOLEAN]
  BY DEF DomainsInv, DomainsTyped
<1>2. ASSUME call' \in [Calls -> CallRow], prefix' = prefix, page' = page, zone' = zone,
             recorded' = recorded, refused' = refused, crossed' \in [Spaces -> BOOLEAN]
      PROVE  DomainsTyped'
  BY <1>2 DEF DomainsInv, DomainsTyped
<1>3. NoCall \in CallRow BY DomainsAssumption DEF NoCall, CallRow
<1>4. CASE Publish(k, s)
  <2> DEFINE row == [NoCall EXCEPT !.pc = "list", !.space = s, !.name = prefix[s]]
  <2>1. row \in CallRow /\ row.pc = "list" /\ row.space = s /\ row.name = prefix[s] /\ prefix[s] \in Names
    BY <1>3 DEF NoCall, CallRow, DomainsInv, DomainsTyped
  <2>2. CallFits(row, zone) /\ ~Checked(row) BY <2>1 DEF CallFits, Checked
  <2>3. call' = [call EXCEPT ![k] = row] BY <1>4 DEF Publish
  <2> HIDE DEF row
  <2>4. /\ crossed' \in [Spaces -> BOOLEAN] /\ \A u \in Spaces : crossed[u] => crossed'[u]
        /\ Publishing(s) = {} \/ crossed'[s]
    BY <1>1, <1>4 DEF Publish
  <2>5. UNCHANGED <<prefix, zone, page, recorded, refused>> BY <1>4 DEF Publish
  <2> QED BY <1>2, <2>1, <2>2, <2>3, <2>4, <2>5, OneCall DEF DomainsInv
<1>5. CASE TimerFires(k, s, name)
  <2> DEFINE row == [NoCall EXCEPT !.pc = "health", !.space = s, !.name = name]
  <2>1. row \in CallRow /\ row.pc = "health" /\ row.space = s /\ row.name = name
    BY <1>3 DEF NoCall, CallRow
  <2>2. CallFits(row, zone) /\ ~Checked(row) BY <2>1 DEF CallFits, Checked
  <2>3. call' = [call EXCEPT ![k] = row] BY <1>5 DEF TimerFires
  <2> HIDE DEF row
  <2>5. UNCHANGED <<prefix, zone, page, recorded, refused, crossed>> BY <1>5 DEF TimerFires
  <2> QED BY <1>1, <1>2, <2>1, <2>2, <2>3, <2>5, OneCall DEF DomainsInv
<1>6. CASE ListRecords(k)
  <2>1. call[k].pc = "list" /\ UNCHANGED <<prefix, zone, page, recorded, refused, crossed>>
    BY <1>6 DEF ListRecords
  <2>2. CASE Matching(call[k].space) = {} /\ GoOn(k, "post")
    <3> DEFINE row == [call[k] EXCEPT !.pc = "post"]
    <3>1. row \in CallRow /\ row.pc = "post" /\ row.space = call[k].space /\ row.name = call[k].name
      BY <1>1 DEF CallRow
    <3>2. CallFits(row, zone) /\ ~Checked(row) BY <1>1, <2>1, <3>1 DEF CallFits, Checked
    <3>3. call' = [call EXCEPT ![k] = row] BY <2>2 DEF GoOn
    <3> HIDE DEF row
    <3> QED BY <1>1, <1>2, <2>1, <2>2, <3>1, <3>2, <3>3, OneCall DEF DomainsInv
  <2>3. CASE \E i \in Matching(call[k].space) : call' = [call EXCEPT ![k].pc = "patch", ![k].record = i]
    <3>0. PICK i \in Matching(call[k].space) : call' = [call EXCEPT ![k].pc = "patch", ![k].record = i]
      BY <2>3
    <3> DEFINE row == [call[k] EXCEPT !.pc = "patch", !.record = i]
    <3>1. /\ row.pc = "patch" /\ row.space = call[k].space /\ row.name = call[k].name /\ row.record = i
          /\ row \in [pc: {"patch"}, space: Spaces \union {NoSpace}, name: Names \union {NoName},
                      record: {i}, valid: BOOLEAN]
      BY <1>1 DEF CallRow
    <3>2. i \in 0..MaxRecords
      BY DomainsAssumption DEF DomainsInv, ZoneFits, Matching
    <3>3. row \in CallRow BY <3>1, <3>2 DEF CallRow
    <3>4. CallFits(row, zone) /\ ~Checked(row) BY <1>1, <2>1, <3>1 DEF CallFits, Checked, Matching
    <3>5. call' = [call EXCEPT ![k] = row]
      <4>1. call \in [Calls -> CallRow] BY DEF DomainsInv, DomainsTyped
      <4> QED BY <1>1, <3>0, <4>1 DEF CallRow
    <3> HIDE DEF row
    <3> QED BY <1>1, <1>2, <2>1, <3>1, <3>3, <3>4, <3>5, OneCall DEF DomainsInv
  <2> QED BY <1>6, <2>2, <2>3 DEF ListRecords
<1>7. CASE \/ ListFails(k) \/ ScheduleUpdates(k)
           \/ GetInfo(k) /\ page[call[k].space].built /\ ~call[k].valid
  <2>1. /\ call' = [call EXCEPT ![k] = NoCall]
        /\ UNCHANGED <<prefix, zone, page, recorded, refused, crossed>>
    BY <1>7 DEF ListFails, ScheduleUpdates, GetInfo
  <2> QED BY <1>1, <1>2, <2>1, CallEnds DEF DomainsInv
<1>8. CASE CreatePages(k) \/ UpdatePages(k)
  <2>1. /\ call' = [call EXCEPT ![k] = NoCall]
        /\ UNCHANGED <<prefix, zone, recorded, refused, crossed>>
    BY <1>8 DEF CreatePages, UpdatePages
  <2>2. page' \in [Spaces -> [built: BOOLEAN, cname: Names \union {NoName}]]
    <3>1. CASE CreatePages(k) BY <3>1 DEF CreatePages, DomainsInv, DomainsTyped
    <3>2. CASE UpdatePages(k)
      <4>1. call[k].name \in Names BY <1>1, <3>2 DEF UpdatePages, CallFits
      <4> QED BY <3>2, <4>1 DEF UpdatePages, DomainsInv, DomainsTyped
    <3> QED BY <1>8, <3>1, <3>2
  <2>3. /\ call' \in [Calls -> CallRow] /\ ZoneFits' /\ \A l \in Calls : CallFits(call'[l], zone')
        /\ \A u \in Spaces : SpaceFits(u)' /\ RecordFollowsSite'
    BY <2>1, CallEnds
  <2> QED BY <2>1, <2>2, <2>3 DEF DomainsInv, DomainsTyped
<1>9. CASE CheckHealth(k)
  <2>1. PICK domain \in {n \in Names : Resolves(call[k].space, n)} \union {NoName} :
            call' = [call EXCEPT ![k].pc = "info", ![k].valid = (domain = call[k].name)]
    BY <1>9 DEF CheckHealth
  <2> DEFINE row == [call[k] EXCEPT !.pc = "info", !.valid = (domain = call[k].name)]
  <2>2. /\ row.pc = "info" /\ row.space = call[k].space /\ row.name = call[k].name
        /\ row.valid = (domain = call[k].name) /\ row \in CallRow
    BY <1>1 DEF CallRow
  <2>3. /\ call[k].pc = "health" /\ call[k].name \in Names
        /\ UNCHANGED <<prefix, zone, page, recorded, refused, crossed>>
    BY <1>1, <1>9 DEF CheckHealth, CallFits
  <2>4. CallFits(row, zone) BY <1>1, <2>2, <2>3 DEF CallFits
  <2>5. Checked(row) => Resolves(row.space, row.name)
    BY <2>2, <2>3, DomainsAssumption DEF Checked
  <2>6. call' = [call EXCEPT ![k] = row]
    <3>1. call \in [Calls -> CallRow] BY DEF DomainsInv, DomainsTyped
    <3> QED BY <1>1, <2>1, <3>1 DEF CallRow
  <2> HIDE DEF row
  <2> QED BY <1>1, <1>2, <2>2, <2>3, <2>4, <2>5, <2>6, OneCall DEF DomainsInv
<1>10. CASE HealthFails(k) \/ (GetInfo(k) /\ ~page[call[k].space].built)
  <2> DEFINE row == [call[k] EXCEPT !.pc = "create"]
  <2>1. row \in CallRow /\ row.pc = "create" /\ row.space = call[k].space /\ row.name = call[k].name
    BY <1>1 DEF CallRow
  <2>2. /\ call[k].pc # "idle" /\ call' = [call EXCEPT ![k] = row]
        /\ UNCHANGED <<prefix, zone, page, recorded, refused, crossed>>
    BY <1>10 DEF HealthFails, GetInfo, GoOn
  <2>3. CallFits(row, zone) /\ ~Checked(row) BY <1>1, <2>1, <2>2 DEF CallFits, Checked
  <2> HIDE DEF row
  <2> QED BY <1>1, <1>2, <2>1, <2>2, <2>3, OneCall DEF DomainsInv
<1>11. CASE GetInfo(k) /\ page[call[k].space].built /\ call[k].valid
  <2> DEFINE row == [call[k] EXCEPT !.pc = "update"]
  <2>1. row \in CallRow /\ row.pc = "update" /\ row.space = call[k].space /\ row.name = call[k].name
    BY <1>1 DEF CallRow
  <2>2. /\ call[k].pc = "info" /\ call[k].valid /\ call' = [call EXCEPT ![k] = row]
        /\ UNCHANGED <<prefix, zone, page, recorded, refused, crossed>>
    BY <1>11 DEF GetInfo
  <2>3. CallFits(row, zone) /\ call[k].space \in Spaces BY <1>1, <2>1, <2>2 DEF CallFits
  <2>4. Resolves(row.space, row.name) \/ crossed[row.space]
    BY <2>1, <2>2, <2>3 DEF DomainsInv, SpaceFits, Checked
  <2> HIDE DEF row
  <2> QED BY <1>1, <1>2, <2>1, <2>2, <2>3, <2>4, OneCall DEF DomainsInv
<1> QED BY <1>4, <1>5, <1>6, <1>7, <1>8, <1>9, <1>10, <1>11

\* A publication has written the zone, or has not been able to: it may have added a
\* record of its owner, or named one, and it waits for nothing more of the zone.
LEMMA WriteKeeps ==
    ASSUME DomainsInv, NEW k \in Calls, NEW s \in Spaces, call[k].space = s,
           NEW taken \in BOOLEAN, Recorded(k, taken),
           call[k].pc \in {"patch", "post"}, UNCHANGED <<prefix, page>>,
           crossed' \in [Spaces -> BOOLEAN], \A u \in Spaces : crossed[u] => crossed'[u],
           ZoneFits', \A i \in DOMAIN zone' : zone'[i] \in Records,
           \A i \in DOMAIN zone : i \in DOMAIN zone' /\ zone'[i].content = zone[i].content,
           \A i \in DOMAIN zone' \ DOMAIN zone : zone'[i].content = OwnerOf[s],
           \A i \in DOMAIN zone :
               zone[i].content # OwnerOf[s] => zone'[i] = zone[i],
           \/ \A i \in DOMAIN zone : zone'[i] = zone[i]
           \/ \A u \in Spaces : OwnerOf[u] = OwnerOf[s] /\ Updating(u) => crossed'[u],
           OnlySpaceOfOwner(s) /\ ~crossed[s] =>
               /\ \A i, j \in Matching(s)' : i = j
               /\ taken => Matching(s)' # {} /\ \A i \in Matching(s)' : zone'[i].name = call[k].name
    PROVE  DomainsInv'
<1>1. /\ call[k].name \in Names /\ call[k] \in CallRow
      /\ call \in [Calls -> CallRow] /\ crossed \in [Spaces -> BOOLEAN]
  BY DEF DomainsInv, DomainsTyped, CallFits
<1>2. /\ \A l \in Calls : l # k => call'[l] = call[l]
      /\ call'[k] = [call[k] EXCEPT !.pc = "schedule"]
      /\ call' \in [Calls -> CallRow]
  BY <1>1 DEF Recorded, GoOn, CallRow
<1>3. /\ \A u \in Spaces : recorded'[u] = IF u = s THEN call[k].name ELSE recorded[u]
      /\ \A u \in Spaces : refused'[u] = IF u = s THEN ~taken ELSE refused[u]
      /\ recorded' \in [Spaces -> Names \union {NoName}] /\ refused' \in [Spaces -> BOOLEAN]
  BY <1>1 DEF Recorded, DomainsInv, DomainsTyped
<1>4. DomainsTyped' BY <1>2, <1>3 DEF DomainsInv, DomainsTyped
<1>5. call'[k].pc = "schedule" /\ call'[k].space = s /\ call'[k].name = call[k].name
  BY <1>1, <1>2 DEF CallRow
<1>6. ASSUME NEW l \in Calls PROVE CallFits(call'[l], zone')
  <2>1. CallFits(call[l], zone) BY DEF DomainsInv
  <2>2. CASE l = k BY <1>1, <1>5, <2>2 DEF CallFits
  <2>3. CASE l # k BY <1>2, <2>1, <2>3 DEF CallFits
  <2> QED BY <2>2, <2>3
<1>7. ASSUME NEW u \in Spaces, u # s, OnlySpaceOfOwner(u)
      PROVE  Matching(u)' = Matching(u) /\ \A i \in Matching(u) : zone'[i] = zone[i]
  <2>1. OwnerOf[s] # OwnerOf[u] BY <1>1, <1>7 DEF OnlySpaceOfOwner
  <2>2. \A i \in DOMAIN zone' : i \in Matching(u)' <=> zone'[i].content = OwnerOf[u] BY DEF Matching
  <2>3. \A i \in DOMAIN zone : i \in Matching(u) <=> zone[i].content = OwnerOf[u] BY DEF Matching
  <2>4. Matching(u)' \subseteq DOMAIN zone' /\ Matching(u) \subseteq DOMAIN zone BY DEF Matching
  <2>5. \A i \in DOMAIN zone : zone[i].content = OwnerOf[u] => zone'[i] = zone[i] BY <2>1
  <2>6. \A i \in DOMAIN zone' : zone'[i].content = OwnerOf[u] => i \in DOMAIN zone BY <2>1
  <2>7. \A i : i \in Matching(u)' <=> i \in Matching(u)
    BY <2>2, <2>3, <2>4, <2>5, <2>6
  <2> QED BY <2>3, <2>4, <2>5, <2>7
<1>8. ASSUME NEW u \in Spaces PROVE SpaceFits(u)'
  <2> SUFFICES ASSUME ~crossed'[u]
               PROVE  /\ \A j, l \in Publishing(u)' : j = l
                      /\ \A l \in Calls : (call[l].space = u /\ Checked(call[l]) => Resolves(u, call[l].name))'
                      /\ OnlySpaceOfOwner(u) =>
                           /\ \A i, j \in Matching(u)' : i = j
                           /\ \A l \in Publishing(u)' : call'[l].pc = "post" => Matching(u)' = {}
    BY DEF SpaceFits, OnlySpaceOfOwner
  <2>1. ~crossed[u] /\ SpaceFits(u) BY DEF DomainsInv
  <2>2. /\ k \notin Publishing(u)' /\ (u = s => k \in Publishing(u))
        /\ \A l \in Publishing(u)' : l # k /\ l \in Publishing(u) /\ call'[l] = call[l]
    <3>1. \A l \in Calls : l \in Publishing(u)' <=> call'[l].space = u /\ call'[l].pc \in {"list", "patch", "post"}
      BY DEF Publishing
    <3>2. Publishing(u)' \subseteq Calls BY DEF Publishing
    <3> QED BY <1>2, <1>5, <3>1, <3>2 DEF Publishing
  <2>3. \A j, l \in Publishing(u)' : j = l BY <2>1, <2>2 DEF SpaceFits
  <2>4. ASSUME NEW l \in Calls PROVE (call[l].space = u /\ Checked(call[l]) => Resolves(u, call[l].name))'
    <3> SUFFICES ASSUME call'[l].space = u, Checked(call'[l])
                 PROVE  \E i \in DOMAIN zone' : zone'[i].name = call'[l].name /\ zone'[i].content = OwnerOf[u]
      BY DEF Resolves, Checked
    <3>1. l # k BY <1>5 DEF Checked
    <3>2. call'[l] = call[l] /\ Resolves(u, call[l].name) BY <1>2, <2>1, <3>1 DEF SpaceFits
    <3>3. PICK i \in DOMAIN zone : zone[i].name = call[l].name /\ zone[i].content = OwnerOf[u]
      BY <3>2 DEF Resolves
    <3>4. Updating(u) BY <3>2 DEF Updating, Checked
    <3>5. zone'[i] = zone[i]
      <4>1. CASE OwnerOf[u] = OwnerOf[s] BY <3>3, <3>4, <4>1
      <4>2. CASE OwnerOf[u] # OwnerOf[s] BY <3>3, <4>2
      <4> QED BY <4>1, <4>2
    <3> QED BY <3>2, <3>3, <3>5
  <2>5. ASSUME OnlySpaceOfOwner(u)
        PROVE  /\ \A i, j \in Matching(u)' : i = j
               /\ \A l \in Publishing(u)' : call'[l].pc = "post" => Matching(u)' = {}
    <3>1. CASE u = s
      <4>1. Publishing(u)' = {} BY <2>1, <2>2, <3>1 DEF SpaceFits
      <4> QED BY <2>1, <2>5, <3>1, <4>1
    <3>2. CASE u # s BY <1>7, <2>1, <2>2, <2>5, <3>2 DEF SpaceFits
    <3> QED BY <3>1, <3>2
  <2> QED BY <2>3, <2>4, <2>5
<1>9. RecordFollowsSite'
  <2> SUFFICES ASSUME NEW u \in Spaces, recorded'[u] # NoName, OnlySpaceOfOwner(u), ~refused'[u], ~crossed'[u]
               PROVE  {zone'[i].name : i \in Matching(u)'} = {recorded'[u]}
    BY DEF RecordFollowsSite, OnlySpaceOfOwner
  <2>1. CASE u = s
    <3>1. taken /\ recorded'[u] = call[k].name /\ ~crossed[s] BY <1>3, <2>1
    <3>2. Matching(u)' # {} /\ \A i \in Matching(u)' : zone'[i].name = call[k].name BY <2>1, <3>1
    <3> QED BY <3>1, <3>2
  <2>2. CASE u # s
    <3>1. Matching(u)' = Matching(u) /\ \A i \in Matching(u) : zone'[i] = zone[i] BY <1>7, <2>2
    <3>2. {zone[i].name : i \in Matching(u)} = {recorded[u]} BY <1>3, <2>2 DEF DomainsInv, RecordFollowsSite
    <3>3. Matching(u) # {} /\ \A i \in Matching(u) : zone[i].name = recorded[u] BY <3>2
    <3>4. Matching(u)' # {} /\ \A i \in Matching(u)' : zone'[i].name = recorded'[u]
      BY <1>3, <2>2, <3>1, <3>3
    <3> QED BY <3>4
  <2> QED BY <2>1, <2>2
<1> QED BY <1>4, <1>6, <1>8, <1>9 DEF DomainsInv

\* A record that is renamed.
LEMMA PatchRecordKeeps == ASSUME DomainsInv, NEW k \in Calls, PatchRecord(k) PROVE DomainsInv'
<1> DEFINE c == call[k]
           taken == \A i \in DOMAIN zone \ {c.record} : zone[i].name # c.name
<1>1. /\ c.pc = "patch" /\ UNCHANGED <<prefix, page>> /\ Recorded(k, taken)
      /\ zone' = IF taken THEN [zone EXCEPT ![c.record].name = c.name] ELSE zone
      /\ crossed' = [s \in Spaces |-> crossed[s] \/ (OwnerOf[s] = OwnerOf[c.space] /\ Updating(s))]
  BY DEF PatchRecord
<1> PICK s \in Spaces : s = c.space BY <1>1 DEF DomainsInv, CallFits
<1>2. /\ c.name \in Names
      /\ c.record \in DOMAIN zone /\ zone[c.record].content = OwnerOf[c.space]
      /\ crossed \in [Spaces -> BOOLEAN]
  BY <1>1 DEF DomainsInv, DomainsTyped, CallFits
<1>3. \A i \in DOMAIN zone : zone[i] \in Records BY DEF DomainsInv, DomainsTyped
<1>4. taken \in BOOLEAN OBVIOUS
<1>5. /\ crossed' \in [Spaces -> BOOLEAN] /\ \A u \in Spaces : crossed[u] => crossed'[u]
      /\ \A u \in Spaces : OwnerOf[u] = OwnerOf[c.space] /\ Updating(u) => crossed'[u]
  <2>1. \A u \in Spaces : Updating(u) \in BOOLEAN BY DEF Updating
  <2> QED BY <1>1, <1>2, <2>1
<1>6. /\ DOMAIN zone' = DOMAIN zone
      /\ \A i \in DOMAIN zone :
            /\ zone'[i] \in Records /\ zone'[i].content = zone[i].content
            /\ i # c.record => zone'[i] = zone[i]
      /\ taken => zone'[c.record].name = c.name
  BY <1>1, <1>2, <1>3 DEF Records
<1>7. ZoneFits' BY <1>6 DEF DomainsInv, ZoneFits
<1>8. ASSUME OnlySpaceOfOwner(s), ~crossed[s]
      PROVE  /\ \A i, j \in Matching(s)' : i = j
             /\ taken => Matching(s)' # {} /\ \A i \in Matching(s)' : zone'[i].name = c.name
  <2>2. \A i \in DOMAIN zone : i \in Matching(s)' <=> i \in Matching(s)
    <3>1. \A i \in DOMAIN zone' : i \in Matching(s)' <=> zone'[i].content = OwnerOf[s] BY DEF Matching
    <3> QED BY <1>6, <3>1 DEF Matching
  <2>3. Matching(s)' = Matching(s)
    <3>1. Matching(s)' \subseteq DOMAIN zone' /\ Matching(s) \subseteq DOMAIN zone BY DEF Matching
    <3> QED BY <1>6, <2>2, <3>1
  <2>4. c.record \in Matching(s) BY <1>2 DEF Matching
  <2>5. \A i, j \in Matching(s) : i = j BY <1>8 DEF DomainsInv, SpaceFits
  <2>6. Matching(s) = {c.record} BY <2>4, <2>5
  <2>7. Matching(s)' = {c.record}
    BY <1>6, <2>3, <2>6 DEF Matching
  <2> QED BY <1>6, <2>7
<1>9. /\ call[k].space = s /\ call[k].pc \in {"patch", "post"} /\ Recorded(k, taken)
      /\ \A i \in DOMAIN zone' : zone'[i] \in Records
      /\ \A i \in DOMAIN zone : i \in DOMAIN zone' /\ zone'[i].content = zone[i].content
      /\ \A i \in DOMAIN zone' \ DOMAIN zone : zone'[i].content = OwnerOf[s]
      /\ \A i \in DOMAIN zone : zone[i].content # OwnerOf[s] => zone'[i] = zone[i]
  BY <1>1, <1>2, <1>6
<1> HIDE DEF taken
<1> QED BY <1>1, <1>4, <1>5, <1>7, <1>8, <1>9, WriteKeeps

\* A record that is added, with the next id.
LEMMA PostRecordKeeps == ASSUME DomainsInv, NEW k \in Calls, PostRecord(k) PROVE DomainsInv'
<1> DEFINE c == call[k]
<1>1. c.pc = "post" /\ UNCHANGED <<prefix, page, crossed>> /\ Recorded(k, ~Held(c.name))
  BY DEF PostRecord
<1> PICK s \in Spaces : s = c.space BY <1>1 DEF DomainsInv, CallFits
<1>2. c.name \in Names /\ crossed \in [Spaces -> BOOLEAN]
  BY <1>1 DEF DomainsInv, DomainsTyped, CallFits
<1>3. \A i \in DOMAIN zone : zone[i] \in Records BY DEF DomainsInv, DomainsTyped
<1>4. Held(c.name) \in BOOLEAN BY DEF Held
<1>5. PICK n \in 0..MaxRecords : DOMAIN zone = 1..n BY DEF DomainsInv, ZoneFits
<1>6. Cardinality(DOMAIN zone) = n /\ n \in Nat
  BY <1>5, DomainsAssumption, FS_Interval
<1>7. CASE Held(c.name)
  <2>1. zone' = zone BY <1>7 DEF PostRecord
  <2>2. \A i, j \in Matching(s)' : ~crossed[s] /\ OnlySpaceOfOwner(s) => i = j
    BY <2>1 DEF DomainsInv, SpaceFits, Matching
  <2>3. ZoneFits' BY <2>1 DEF DomainsInv, ZoneFits
  <2> QED BY <1>1, <1>2, <1>3, <1>7, <2>1, <2>2, <2>3, WriteKeeps
<1>8. CASE ~Held(c.name)
  <2> DEFINE row == [name |-> c.name, content |-> OwnerOf[c.space]]
  <2>1. n + 1 <= MaxRecords /\ zone' = [i \in 1..(n + 1) |-> IF i = n + 1 THEN row ELSE zone[i]]
    BY <1>6, <1>8 DEF PostRecord
  <2>2. row \in Records /\ row.name = c.name /\ row.content = OwnerOf[s] BY <1>2 DEF Records
  <2> HIDE DEF row
  <2>3. /\ DOMAIN zone' = 1..(n + 1) /\ \A i \in DOMAIN zone : zone'[i] = zone[i]
        /\ zone'[n + 1] = row
    BY <1>5, <1>6, <2>1
  <2>4. \A i \in DOMAIN zone' : i \in DOMAIN zone \/ i = n + 1 BY <1>5, <1>6, <2>3
  <2>5. ZoneFits' BY <1>6, <2>1, <2>3, DomainsAssumption DEF ZoneFits
  <2>6. /\ \A i \in DOMAIN zone' : zone'[i] \in Records
        /\ \A i \in DOMAIN zone : i \in DOMAIN zone' /\ zone'[i].content = zone[i].content
        /\ \A i \in DOMAIN zone' \ DOMAIN zone : zone'[i].content = OwnerOf[s]
    BY <1>3, <1>5, <1>6, <2>2, <2>3, <2>4
  <2>7. ASSUME OnlySpaceOfOwner(s), ~crossed[s]
        PROVE  /\ \A i, j \in Matching(s)' : i = j
               /\ ~Held(c.name) => Matching(s)' # {} /\ \A i \in Matching(s)' : zone'[i].name = c.name
    <3>1. Matching(s) = {} BY <1>1, <2>7 DEF DomainsInv, SpaceFits, Publishing
    <3>2. \A i \in DOMAIN zone : zone[i].content # OwnerOf[s] BY <3>1 DEF Matching
    <3>3. \A i \in Matching(s)' : i = n + 1 BY <2>3, <2>4, <3>2 DEF Matching
    <3>4. n + 1 \in Matching(s)' BY <1>6, <2>2, <2>3 DEF Matching
    <3> QED BY <2>2, <2>3, <3>3, <3>4
  <2> QED BY <1>1, <1>2, <1>4, <2>3, <2>5, <2>6, <2>7, WriteKeeps
<1> QED BY <1>7, <1>8

\* The zone has refused a record, or has not been reached.
LEMMA WriteFailsKeeps == ASSUME DomainsInv, NEW k \in Calls, WriteFails(k) PROVE DomainsInv'
<1>1. call[k].pc \in {"patch", "post"} /\ UNCHANGED <<prefix, page, zone, crossed>> /\ Recorded(k, FALSE)
  BY DEF WriteFails
<1> PICK s \in Spaces : s = call[k].space BY <1>1 DEF DomainsInv, CallFits
<1>2. crossed \in [Spaces -> BOOLEAN] /\ \A i \in DOMAIN zone : zone[i] \in Records
  BY DEF DomainsInv, DomainsTyped
<1>3. \A i, j \in Matching(s)' : ~crossed[s] /\ OnlySpaceOfOwner(s) => i = j
  BY <1>1 DEF DomainsInv, SpaceFits, Matching
<1>4. ZoneFits' BY <1>1 DEF DomainsInv, ZoneFits
<1> QED BY <1>1, <1>2, <1>3, <1>4, WriteKeeps

\* A restart leaves the zone and what is known of the sites.
LEMMA DomainsRestartKeeps == ASSUME DomainsInv, DomainsRestart PROVE DomainsInv'
<1>1. /\ UNCHANGED <<prefix, zone, page, recorded, refused, crossed>>
      /\ call' = [k \in Calls |-> NoCall]
  BY DEF DomainsRestart
<1>2. NoCall \in CallRow /\ NoCall.pc = "idle" BY DomainsAssumption DEF NoCall, CallRow
<1>3. \A k \in Calls : call'[k].pc = "idle" BY <1>1, <1>2
<1>4. DomainsTyped' BY <1>1, <1>2 DEF DomainsInv, DomainsTyped
<1>5. ZoneFits' /\ RecordFollowsSite'
  BY <1>1 DEF DomainsInv, ZoneFits, RecordFollowsSite, Matching, OnlySpaceOfOwner
<1>6. \A k \in Calls : CallFits(call'[k], zone') BY <1>3 DEF CallFits
<1>7. ASSUME NEW s \in Spaces PROVE SpaceFits(s)'
  <2>1. Publishing(s)' = {} BY <1>3 DEF Publishing
  <2>2. \A k \in Calls : ~Checked(call[k])' BY <1>3 DEF Checked
  <2>3. Matching(s)' = Matching(s) BY <1>1 DEF Matching
  <2> QED BY <1>1, <2>1, <2>2, <2>3 DEF DomainsInv, SpaceFits, OnlySpaceOfOwner
<1> QED BY <1>4, <1>5, <1>6, <1>7 DEF DomainsInv

\* The user's own change of a prefix touches nothing of this.
LEMMA EditPrefixKeeps ==
    ASSUME DomainsInv, NEW s \in Spaces, NEW name \in Names, EditPrefix(s, name) PROVE DomainsInv'
<1>1. UNCHANGED <<zone, page, call, recorded, refused, crossed>> BY DEF EditPrefix
<1>2. DomainsTyped' BY <1>1 DEF EditPrefix, DomainsInv, DomainsTyped
<1>3. ZoneFits' /\ RecordFollowsSite' /\ \A k \in Calls : CallFits(call'[k], zone')
  BY <1>1 DEF DomainsInv, ZoneFits, RecordFollowsSite, Matching, OnlySpaceOfOwner
<1>4. \A u \in Spaces : SpaceFits(u)'
  BY <1>1 DEF DomainsInv, SpaceFits, Publishing, Matching, OnlySpaceOfOwner, Resolves
<1> QED BY <1>2, <1>3, <1>4 DEF DomainsInv

LEMMA DomainsStep == DomainsInv /\ [DomainsNext]_domainVars => DomainsInv'
<1> SUFFICES ASSUME DomainsInv, [DomainsNext]_domainVars PROVE DomainsInv'
  OBVIOUS
<1>1. ASSUME NEW s \in Spaces, NEW name \in Names, EditPrefix(s, name) PROVE DomainsInv'
  BY <1>1, EditPrefixKeeps
<1>2. ASSUME NEW k \in Calls, NEW s \in Spaces, Publish(k, s) PROVE DomainsInv'
  <2>1. prefix[s] \in Names BY DEF DomainsInv, DomainsTyped
  <2> QED BY <1>2, <2>1, CallsKeep
<1>3. ASSUME NEW k \in Calls, NEW s \in Spaces, NEW name \in Names, TimerFires(k, s, name) PROVE DomainsInv'
  BY <1>3, CallsKeep
<1>4. ASSUME NEW k \in Calls, CallStep(k) PROVE DomainsInv'
  <2>1. call[k].space \in Spaces /\ call[k].name \in Names
    BY <1>4 DEF CallStep, ListRecords, ListFails, PatchRecord, PostRecord, WriteFails, ScheduleUpdates,
        CheckHealth, HealthFails, GetInfo, CreatePages, UpdatePages, DomainsInv, CallFits
  <2>2. CASE PatchRecord(k) \/ PostRecord(k) \/ WriteFails(k)
    BY <2>2, PatchRecordKeeps, PostRecordKeeps, WriteFailsKeeps
  <2>3. CASE ~(PatchRecord(k) \/ PostRecord(k) \/ WriteFails(k))
    BY <1>4, <2>1, <2>3, CallsKeep DEF CallStep
  <2> QED BY <2>2, <2>3
<1>5. CASE DomainsRestart BY <1>5, DomainsRestartKeeps
<1>6. CASE UNCHANGED domainVars
  <2>1. UNCHANGED <<prefix, zone, page, call, recorded, refused, crossed>> BY <1>6 DEF domainVars
  <2>2. DomainsTyped' BY <2>1 DEF DomainsInv, DomainsTyped
  <2>3. ZoneFits' /\ RecordFollowsSite' /\ \A k \in Calls : CallFits(call'[k], zone')
    BY <2>1 DEF DomainsInv, ZoneFits, RecordFollowsSite, Matching, OnlySpaceOfOwner
  <2>4. \A u \in Spaces : SpaceFits(u)'
    BY <2>1 DEF DomainsInv, SpaceFits, Publishing, Matching, OnlySpaceOfOwner, Resolves
  <2> QED BY <2>2, <2>3, <2>4 DEF DomainsInv
<1> QED BY <1>1, <1>2, <1>3, <1>4, <1>5, <1>6 DEF DomainsNext

LEMMA DomainsStart == DomainsInit => DomainsInv
<1> SUFFICES ASSUME DomainsInit PROVE DomainsInv
  OBVIOUS
<1>1. NoCall \in CallRow /\ NoCall.pc = "idle" BY DomainsAssumption DEF NoCall, CallRow
<1>2. DOMAIN zone = {} BY DEF DomainsInit
<1>3. DomainsTyped BY <1>1, <1>2 DEF DomainsInit, DomainsTyped
<1>4. ZoneFits
  <2>1. 0 \in 0..MaxRecords /\ 1..0 = {} BY DomainsAssumption
  <2> QED BY <1>2, <2>1 DEF ZoneFits
<1>5. \A k \in Calls : call[k].pc = "idle" BY <1>1 DEF DomainsInit
<1>6. \A k \in Calls : CallFits(call[k], zone) BY <1>5 DEF CallFits
<1>7. \A s \in Spaces : SpaceFits(s)
  BY <1>2, <1>5 DEF SpaceFits, Publishing, Checked, Matching
<1>8. RecordFollowsSite BY DEF DomainsInit, RecordFollowsSite
<1> QED BY <1>3, <1>4, <1>6, <1>7, <1>8 DEF DomainsInv

\* The zone has one record for a published site, of the name it was published last
\* with, unless its owner has another site, the zone has refused the name, or two
\* publications of the site were in flight at once: for any number of sites, names,
\* renames, publications, timers and faults.
THEOREM OneRecord == DomainsSpec => []RecordFollowsSite
<1>1. DomainsInv => RecordFollowsSite BY DEF DomainsInv
<1> QED BY <1>1, DomainsStart, DomainsStep, PTL DEF DomainsSpec

\* The custom domain of the pages is set only to a name that leads to them, however
\* late the timer fires, unless the record was renamed since the timer has checked it.
THEOREM DomainLeadsToPages == DomainsSpec => CnameLeadsToPages
<1>1. DomainsInv /\ [DomainsNext]_domainVars =>
        [\A s \in Spaces : page'[s].cname # page[s].cname => Resolves(s, page'[s].cname) \/ crossed[s]]_domainVars
  <2> SUFFICES ASSUME DomainsInv, [DomainsNext]_domainVars, NEW s \in Spaces,
                      page'[s].cname # page[s].cname, ~crossed[s]
               PROVE  Resolves(s, page'[s].cname)
    OBVIOUS
  <2>1. page' # page OBVIOUS
  <2>2. PICK k \in Calls : CreatePages(k) \/ UpdatePages(k)
    BY <2>1 DEF DomainsNext, domainVars, EditPrefix, Publish, TimerFires, CallStep, DomainsRestart,
       ListRecords, ListFails, PatchRecord, PostRecord, WriteFails, ScheduleUpdates, CheckHealth,
       HealthFails, GetInfo
  <2>3. page \in [Spaces -> [built: BOOLEAN, cname: Names \union {NoName}]] /\ call[k] \in CallRow
    BY DEF DomainsInv, DomainsTyped
  <2>4. CASE CreatePages(k)
    <3>1. page'[s].cname = page[s].cname BY <2>3, <2>4 DEF CreatePages
    <3> QED BY <3>1
  <2>5. CASE UpdatePages(k)
    <3>1. call[k].space = s /\ page'[s].cname = call[k].name /\ call[k].pc = "update"
      BY <2>3, <2>5 DEF UpdatePages
    <3> QED BY <3>1 DEF DomainsInv, SpaceFits, Checked
  <2> QED BY <2>2, <2>4, <2>5
<1> QED BY <1>1, DomainsStart, DomainsStep, PTL DEF DomainsSpec, CnameLeadsToPages

\* The publications of a site under a name that have not started their timers yet.
Pending(s, name) ==
    {k \in Calls : call[k].space = s /\ call[k].name = name
                     /\ call[k].pc \in {"list", "patch", "post", "schedule"}}

\* A publication stands for three timers, until it starts them and after.
TimersFit(s, name) ==
    /\ IsFiniteSet(Pending(s, name))
    /\ timers[s][name] + 3 * Cardinality(Pending(s, name)) <= 3 * publications

\* The inductive invariant of the timers.
TimersInv ==
    /\ timers \in [Spaces -> [Names -> Nat]]
    /\ publications \in 0..MaxPublications /\ zoneFaults \in 0..MaxZoneFaults
    /\ \A s \in Spaces, name \in Names : TimersFit(s, name)

\* No publication is new, and no timer.
LEMMA TimersShrink ==
    ASSUME TimersInv, timers' \in [Spaces -> [Names -> Nat]], publications' = publications,
           zoneFaults' \in 0..MaxZoneFaults,
           \A s \in Spaces, name \in Names :
               /\ timers'[s][name] <= timers[s][name]
               /\ Pending(s, name)' \subseteq Pending(s, name)
    PROVE  TimersInv'
<1>1. ASSUME NEW s \in Spaces, NEW name \in Names PROVE TimersFit(s, name)'
  <2>1. TimersFit(s, name) /\ timers[s][name] \in Nat /\ timers'[s][name] \in Nat /\ publications \in Nat
    BY DEF TimersInv
  <2>2. /\ IsFiniteSet(Pending(s, name)')
        /\ Cardinality(Pending(s, name)') <= Cardinality(Pending(s, name))
    BY <2>1, FS_Subset DEF TimersFit
  <2>3. Cardinality(Pending(s, name)) \in Nat /\ Cardinality(Pending(s, name)') \in Nat
    BY <2>1, <2>2, FS_CardinalityType DEF TimersFit
  <2>4. timers'[s][name] <= timers[s][name] OBVIOUS
  <2> QED BY <2>1, <2>2, <2>3, <2>4 DEF TimersFit
<1> QED BY <1>1 DEF TimersInv

\* What a change of one call does to the publications that are pending.
LEMMA PendingAfter ==
    ASSUME NEW k \in Calls, \A l \in Calls \ {k} : call'[l] = call[l],
           NEW s \in Spaces, NEW name \in Names
    PROVE  Pending(s, name)' =
               IF /\ call'[k].space = s /\ call'[k].name = name
                  /\ call'[k].pc \in {"list", "patch", "post", "schedule"}
               THEN Pending(s, name) \union {k} ELSE Pending(s, name) \ {k}
BY DEF Pending

\* A call goes on, or ends, and starts no timer.
LEMMA CallTimers ==
    ASSUME DomainsInv, TimersInv, NEW k \in Calls, CallStep(k), ~ScheduleUpdates(k)
    PROVE  TimersInv'
<1> DEFINE Publishes == {"list", "patch", "post", "schedule"}
           Same == /\ \A l \in Calls \ {k} : call'[l] = call[l]
                   /\ call'[k].pc \in Publishes =>
                        /\ call[k].pc \in Publishes
                        /\ call'[k].space = call[k].space /\ call'[k].name = call[k].name
                   /\ UNCHANGED <<timers, publications>>
                   /\ zoneFaults' = zoneFaults \/ (zoneFaults < MaxZoneFaults /\ zoneFaults' = zoneFaults + 1)
<1>1. call \in [Calls -> CallRow] /\ NoCall.pc = "idle" BY DEF DomainsInv, DomainsTyped, NoCall
<1>2. Same
  <2>1. CASE ListRecords(k)
    <3>1. call[k].pc = "list" /\ UNCHANGED <<timers, publications, zoneFaults>> BY <2>1 DEF ListRecords
    <3>2. CASE call' = [call EXCEPT ![k].pc = "post"] BY <1>1, <3>1, <3>2 DEF CallRow
    <3>3. ASSUME NEW i, call' = [call EXCEPT ![k].pc = "patch", ![k].record = i] PROVE Same
      BY <1>1, <3>1, <3>3 DEF CallRow
    <3> QED BY <2>1, <3>2, <3>3 DEF ListRecords, GoOn
  <2>2. CASE ListFails(k) BY <1>1, <2>2 DEF ListFails
  <2>3. CASE PatchRecord(k) BY <1>1, <2>3 DEF PatchRecord, Recorded, GoOn, CallRow
  <2>4. CASE PostRecord(k) BY <1>1, <2>4 DEF PostRecord, Recorded, GoOn, CallRow
  <2>5. CASE WriteFails(k) BY <1>1, <2>5 DEF WriteFails, Recorded, GoOn, CallRow
  <2>6. CASE CheckHealth(k) BY <1>1, <2>6 DEF CheckHealth, CallRow
  <2>7. CASE HealthFails(k) BY <1>1, <2>7 DEF HealthFails, GoOn, CallRow
  <2>8. CASE GetInfo(k)
    <3>1. UNCHANGED <<timers, publications, zoneFaults>> BY <2>8 DEF GetInfo
    <3>2. /\ \A l \in Calls \ {k} : call'[l] = call[l]
          /\ call'[k] \in {[call[k] EXCEPT !.pc = "create"], [call[k] EXCEPT !.pc = "update"], NoCall}
      BY <1>1, <2>8 DEF GetInfo
    <3>3. call'[k].pc \in {"create", "update", "idle"} BY <1>1, <3>2 DEF CallRow
    <3> QED BY <3>1, <3>2, <3>3
  <2>9. CASE CreatePages(k) BY <1>1, <2>9 DEF CreatePages
  <2>10. CASE UpdatePages(k) BY <1>1, <2>10 DEF UpdatePages
  <2> QED
    BY <2>1, <2>2, <2>3, <2>4, <2>5, <2>6, <2>7, <2>8, <2>9, <2>10 DEF CallStep
<1>3. ASSUME NEW s \in Spaces, NEW name \in Names PROVE Pending(s, name)' \subseteq Pending(s, name)
  BY <1>2 DEF Pending
<1>4. ASSUME NEW s \in Spaces, NEW name \in Names PROVE timers'[s][name] <= timers[s][name]
  <2>1. timers[s][name] \in Nat BY DEF TimersInv
  <2> QED BY <1>2, <2>1
<1>5. timers' \in [Spaces -> [Names -> Nat]] /\ zoneFaults' \in 0..MaxZoneFaults
  BY <1>2, DomainsAssumption DEF TimersInv
<1> HIDE DEF Same
<1>6. publications' = publications BY <1>2 DEF Same
<1> QED BY <1>3, <1>4, <1>5, <1>6, TimersShrink

\* The publication starts its timers, and is over.
LEMMA ScheduleTimers ==
    ASSUME DomainsInv, TimersInv, NEW k \in Calls, ScheduleUpdates(k) PROVE TimersInv'
<1> DEFINE u == call[k].space
           m == call[k].name
<1>1. NoCall.pc = "idle" /\ call[k].pc = "schedule" /\ call' = [call EXCEPT ![k] = NoCall]
  BY DEF NoCall, ScheduleUpdates
<1>2. u \in Spaces /\ m \in Names BY <1>1 DEF DomainsInv, CallFits
<1>3. ASSUME NEW s \in Spaces, NEW name \in Names PROVE Pending(s, name)' = Pending(s, name) \ {k}
  <2>1. call'[k].pc = "idle" /\ \A l \in Calls \ {k} : call'[l] = call[l]
    BY <1>1 DEF DomainsInv, DomainsTyped
  <2> QED BY <2>1, PendingAfter
<1>4. timers' = timers \/ timers' = [timers EXCEPT ![u][m] = @ + 3] BY DEF ScheduleUpdates
<1>5. timers \in [Spaces -> [Names -> Nat]] BY DEF TimersInv
<1>6. timers' \in [Spaces -> [Names -> Nat]]
  <2>1. timers[u][m] + 3 \in Nat BY <1>2, <1>5
  <2> QED BY <1>2, <1>4, <1>5, <2>1
<1>7. UNCHANGED <<publications, zoneFaults>> BY DEF ScheduleUpdates
<1>8. ASSUME NEW s \in Spaces, NEW name \in Names PROVE TimersFit(s, name)'
  <2>1. TimersFit(s, name) /\ timers[s][name] \in Nat /\ publications \in Nat BY <1>5 DEF TimersInv
  <2>2. Cardinality(Pending(s, name)) \in Nat BY <2>1, FS_CardinalityType DEF TimersFit
  <2>3. /\ IsFiniteSet(Pending(s, name)')
        /\ Cardinality(Pending(s, name)') =
             IF k \in Pending(s, name) THEN Cardinality(Pending(s, name)) - 1 ELSE Cardinality(Pending(s, name))
    BY <1>3, <2>1, FS_RemoveElement DEF TimersFit
  <2>4. CASE s = u /\ name = m
    <3>1. k \in Pending(s, name) BY <1>1, <2>4 DEF Pending
    <3>2. timers'[s][name] \in Nat /\ timers'[s][name] <= timers[s][name] + 3
      BY <1>2, <1>4, <1>5, <2>1, <2>4
    <3>3. Cardinality(Pending(s, name)') = Cardinality(Pending(s, name)) - 1 BY <2>3, <3>1
    <3> QED BY <1>7, <2>1, <2>2, <2>3, <3>2, <3>3 DEF TimersFit
  <2>5. CASE ~(s = u /\ name = m)
    <3>1. k \notin Pending(s, name) BY <2>5 DEF Pending
    <3>2. timers'[s][name] = timers[s][name] BY <1>2, <1>4, <1>5, <2>5
    <3>3. Cardinality(Pending(s, name)') = Cardinality(Pending(s, name)) BY <2>3, <3>1
    <3> QED BY <1>7, <2>1, <2>2, <2>3, <3>2, <3>3 DEF TimersFit
  <2> QED BY <2>4, <2>5
<1> QED BY <1>6, <1>7, <1>8 DEF TimersInv

\* A publication begins.
LEMMA PublishTimers ==
    ASSUME DomainsInv, TimersInv, NEW k \in Calls, NEW u \in Spaces, Publish(k, u) PROVE TimersInv'
<1> DEFINE c == [NoCall EXCEPT !.pc = "list", !.space = u, !.name = prefix[u]]
<1>1. c.pc = "list" /\ c.space = u /\ c.name = prefix[u] BY DEF NoCall
<1>2. call[k].pc = "idle" /\ call' = [call EXCEPT ![k] = c] BY DEF Publish
<1>3. /\ publications \in Nat /\ publications' = publications + 1 /\ publications' \in 0..MaxPublications
      /\ zoneFaults' \in 0..MaxZoneFaults /\ timers' = timers
  BY DomainsAssumption DEF Publish, TimersInv
<1>4. ASSUME NEW s \in Spaces, NEW name \in Names PROVE TimersFit(s, name)'
  <2>1. TimersFit(s, name) /\ timers[s][name] \in Nat BY DEF TimersInv
  <2>2. Cardinality(Pending(s, name)) \in Nat BY <2>1, FS_CardinalityType DEF TimersFit
  <2>3. k \notin Pending(s, name) BY <1>2 DEF Pending
  <2>4. Pending(s, name)' \in {Pending(s, name), Pending(s, name) \union {k}}
    <3>1. \A l \in Calls \ {k} : call'[l] = call[l] BY <1>2 DEF DomainsInv, DomainsTyped
    <3> QED BY <2>3, <3>1, PendingAfter
  <2>5. /\ IsFiniteSet(Pending(s, name)')
        /\ Cardinality(Pending(s, name)') \in {Cardinality(Pending(s, name)), Cardinality(Pending(s, name)) + 1}
    <3>1. /\ IsFiniteSet(Pending(s, name) \union {k})
          /\ Cardinality(Pending(s, name) \union {k}) = Cardinality(Pending(s, name)) + 1
      BY <2>1, <2>3, FS_AddElement DEF TimersFit
    <3> QED BY <2>1, <2>4, <3>1 DEF TimersFit
  <2> QED BY <1>3, <2>1, <2>2, <2>5 DEF TimersFit
<1> QED BY <1>3, <1>4 DEF TimersInv

LEMMA TimersStep == DomainsInv /\ TimersInv /\ [DomainsNext]_domainVars => TimersInv'
<1> SUFFICES ASSUME DomainsInv, TimersInv, [DomainsNext]_domainVars PROVE TimersInv'
  OBVIOUS
<1>1. CASE UNCHANGED domainVars
  <2>1. UNCHANGED <<call, timers, publications, zoneFaults>> BY <1>1 DEF domainVars
  <2> QED BY <2>1 DEF TimersInv, TimersFit, Pending
<1>2. ASSUME NEW s \in Spaces, NEW name \in Names, EditPrefix(s, name) PROVE TimersInv'
  <2>1. UNCHANGED <<call, timers, publications, zoneFaults>> BY <1>2 DEF EditPrefix
  <2> QED BY <2>1 DEF TimersInv, TimersFit, Pending
<1>3. ASSUME NEW k \in Calls, NEW s \in Spaces, Publish(k, s) PROVE TimersInv'
  BY <1>3, PublishTimers
<1>4. ASSUME NEW k \in Calls, NEW u \in Spaces, NEW m \in Names, TimerFires(k, u, m) PROVE TimersInv'
  <2> DEFINE c == [NoCall EXCEPT !.pc = "health", !.space = u, !.name = m]
  <2>1. c.pc = "health" BY DEF NoCall
  <2>2. call' = [call EXCEPT ![k] = c] /\ UNCHANGED <<publications, zoneFaults>>
    BY <1>4 DEF TimerFires
  <2>3. timers \in [Spaces -> [Names -> Nat]] /\ timers[u][m] > 0 /\ timers' = [timers EXCEPT ![u][m] = @ - 1]
    BY <1>4 DEF TimerFires, TimersInv
  <2>4. timers[u][m] - 1 \in Nat BY <2>3
  <2>5. timers' \in [Spaces -> [Names -> Nat]] BY <2>3, <2>4
  <2>6. ASSUME NEW s \in Spaces, NEW name \in Names
        PROVE  timers'[s][name] <= timers[s][name] /\ Pending(s, name)' \subseteq Pending(s, name)
    <3>1. timers[s][name] \in Nat BY <2>3
    <3>2. timers'[s][name] = IF s = u /\ name = m THEN timers[s][name] - 1 ELSE timers[s][name] BY <2>3
    <3>3. call'[k].pc = "health" /\ \A l \in Calls \ {k} : call'[l] = call[l]
      BY <2>1, <2>2 DEF DomainsInv, DomainsTyped
    <3>4. Pending(s, name)' = Pending(s, name) \ {k} BY <3>3, PendingAfter
    <3> QED BY <3>1, <3>2, <3>4
  <2>7. zoneFaults' \in 0..MaxZoneFaults BY <2>2 DEF TimersInv
  <2> QED BY <2>2, <2>5, <2>6, <2>7, TimersShrink
<1>5. ASSUME NEW k \in Calls, CallStep(k) PROVE TimersInv'
  BY <1>5, CallTimers, ScheduleTimers
<1>6. CASE DomainsRestart
  <2>1. /\ call' = [k \in Calls |-> NoCall] /\ timers' = [s \in Spaces |-> [n \in Names |-> 0]]
        /\ publications' = publications /\ zoneFaults' \in 0..MaxZoneFaults
    BY <1>6, DomainsAssumption DEF DomainsRestart, TimersInv
  <2>2. NoCall.pc = "idle" BY DEF NoCall
  <2>3. ASSUME NEW s \in Spaces, NEW name \in Names
        PROVE  timers'[s][name] <= timers[s][name] /\ Pending(s, name)' \subseteq Pending(s, name)
    <3>1. timers[s][name] \in Nat BY DEF TimersInv
    <3>2. Pending(s, name)' = {} BY <2>1, <2>2 DEF Pending
    <3> QED BY <2>1, <3>1, <3>2
  <2>4. timers' \in [Spaces -> [Names -> Nat]] BY <2>1
  <2> QED BY <2>1, <2>3, <2>4, TimersShrink
<1> QED BY <1>1, <1>2, <1>3, <1>4, <1>5, <1>6 DEF DomainsNext

LEMMA TimersStart == DomainsInit => TimersInv
<1> SUFFICES ASSUME DomainsInit PROVE TimersInv
  OBVIOUS
<1>1. timers \in [Spaces -> [Names -> Nat]] /\ publications \in 0..MaxPublications /\ zoneFaults \in 0..MaxZoneFaults
  BY DomainsAssumption DEF DomainsInit
<1>2. ASSUME NEW s \in Spaces, NEW name \in Names PROVE TimersFit(s, name)
  <2>1. Pending(s, name) = {} BY DEF DomainsInit, Pending, NoCall
  <2>2. IsFiniteSet(Pending(s, name)) /\ Cardinality(Pending(s, name)) = 0 BY <2>1, FS_EmptySet
  <2>3. timers[s][name] = 0 /\ publications = 0 BY DEF DomainsInit
  <2> QED BY <2>2, <2>3 DEF TimersFit
<1> QED BY <1>1, <1>2 DEF TimersInv

\* Types of the names of sites: however publications, timers, faults and restarts mix,
\* there are never more than three timers for a publication, nor more records than are
\* allowed for.
THEOREM DomainsTypeCorrect == DomainsSpec => []DomainsTypeOK
<1>1. DomainsInv /\ TimersInv => DomainsTypeOK
  <2> SUFFICES ASSUME DomainsInv, TimersInv PROVE DomainsTypeOK
    OBVIOUS
  <2>1. DOMAIN zone \subseteq 1..MaxRecords
    <3>1. PICK n \in 0..MaxRecords : DOMAIN zone = 1..n BY DEF DomainsInv, ZoneFits
    <3> QED BY <3>1, DomainsAssumption
  <2>2. timers \in [Spaces -> [Names -> 0..(3 * MaxPublications)]]
    <3>1. ASSUME NEW s \in Spaces, NEW name \in Names PROVE timers[s][name] \in 0..(3 * MaxPublications)
      <4>1. /\ TimersFit(s, name) /\ timers[s][name] \in Nat
            /\ publications \in 0..MaxPublications /\ MaxPublications \in Nat
        BY DomainsAssumption DEF TimersInv
      <4>2. Cardinality(Pending(s, name)) \in Nat BY <4>1, FS_CardinalityType DEF TimersFit
      <4> QED BY <4>1, <4>2 DEF TimersFit
    <3>2. timers \in [Spaces -> [Names -> Nat]] BY DEF TimersInv
    <3>3. ASSUME NEW s \in Spaces PROVE timers[s] \in [Names -> 0..(3 * MaxPublications)]
      BY <3>1, <3>2
    <3> QED BY <3>2, <3>3
  <2> QED BY <2>1, <2>2 DEF DomainsInv, DomainsTyped, TimersInv, DomainsTypeOK
<1> QED BY <1>1, DomainsStart, DomainsStep, TimersStart, TimersStep, PTL DEF DomainsSpec

(***************************************************************************)
(* The rows of sites.                                                      *)
(***************************************************************************)

\* A column holds a provider of one of its own tables.
ColumnsFit(row) ==
    \A k \in Kinds :
        row \notin Gone /\ row.provider[k] \in Providers => TableOf[row.provider[k]][1] = k

\* What a request to a provider knows once it has one.
HasProvider(q) == q.provider \in Providers /\ TableOf[q.provider] = q.table

\* A publisher is created only for a row that has none.
HasPlace(q) == q.table[1] = "publisher" => q.seen.provider["publisher"] \notin Providers

\* The row that is saved by the creation or the deletion of a provider.
SeenFits(q) ==
    \/ q.op = "create" /\ HasProvider(q) /\ HasPlace(q)
    \/ q.op = "delete" /\ HasProvider(q) /\ q.seen.provider[q.table[1]] = q.provider

\* The statements of a request that has a provider, and of one that has read a config.
WithProviderPcs == {"reread", "saveConfig", "findProvider", "saveProvider", "removeProvider"}

WithConfigPcs == WithProviderPcs \union {"insertProvider", "removeConfig"}

\* What is known of a request at the statement it has come to.
RequestFits(q) ==
    /\ ColumnsFit(q.seen)
    /\ q.pc \notin WithProviderPcs => q.provider = NoId
    /\ q.pc \in WithConfigPcs => q.config # NoId /\ q.seen \in ConfigRow
    /\ q.pc = "insertProvider" => q.op = "create" /\ HasPlace(q)
    /\ q.pc = "reread" => SeenFits(q)
    /\ q.pc = "saveConfig" => SeenFits(q) \/ (q.op \in {"edit", "status"} /\ q.provider = NoId)
    /\ q.pc = "findProvider" => q.op \in {"update", "delete"} /\ HasProvider(q)
    /\ q.pc = "saveProvider" => q.op = "update" /\ HasProvider(q)
    /\ q.pc = "removeProvider" => q.op = "delete" /\ HasProvider(q)
    /\ q.pc \in {"countPrefix", "insertConfig"} => q.op = "createConfig" /\ q.seen \in ConfigRow
    /\ q.pc \in {"saveInfo", "removeInfo"} => q.info \in Infos
    /\ q.pc = "idle" => q = NoRequest

\* A provider that no save has put into a row is named by one config, which no
\* request is about to delete it behind; and the request that has created it is the
\* only one that knows of it, until its config names it.
ProviderFits(p) ==
    /\ \A c \in Configs : p \in Named(config[c]) =>
         /\ provider[p] = "stored"
         /\ \A d \in Configs : p \in Named(config[d]) => c = d
         /\ \A r \in Requests : request[r].provider = p =>
              p \notin HeldBy(request[r]) /\ (request[r].op = "delete" => request[r].config = c)
    /\ \A r \in Requests : request[r].provider = p =>
         /\ provider[p] # Unused
         /\ request[r].op = "create" =>
              provider[p] = "stored" /\ \A s \in Requests : request[s].provider = p => r = s

\* The inductive invariant of the rows.
StoreInv ==
    /\ StoreTypeOK
    /\ \A r \in Requests : RequestFits(request[r])
    /\ \A c \in Configs : ColumnsFit(config[c])
    /\ \A p \in Providers : p \notin adopted => ProviderFits(p)
    /\ NoForgottenPublisher

\* A request that is over, or has not begun, knows of nothing.
LEMMA NoRequestFits ==
    /\ NoRequest \in RequestRow /\ RequestFits(NoRequest) /\ HeldBy(NoRequest) = {}
    /\ NoRequest.op = "none" /\ NoRequest.provider = NoId /\ NoRequest.pc = "idle"
    /\ NoId \notin Providers
<1>1. Unused \in Gone BY DEF Gone
<1>2. NoRequest \in RequestRow BY <1>1 DEF NoRequest, RequestRow, Tables
<1>3. /\ NoRequest.op = "none" /\ NoRequest.provider = NoId /\ NoRequest.pc = "idle"
      /\ NoRequest.config = NoId /\ NoRequest.seen = Unused
  BY DEF NoRequest
<1>4. HeldBy(NoRequest) = {} BY <1>3 DEF HeldBy
<1>5. RequestFits(NoRequest)
  BY <1>1, <1>3 DEF RequestFits, ColumnsFit, WithProviderPcs, WithConfigPcs
<1> QED BY <1>2, <1>3, <1>4, <1>5, StoreAssumption

\* What a row names is in one of its columns.
LEMMA NamedColumn ==
    ASSUME NEW row, row \notin Gone, NEW p \in Providers
    PROVE  p \in Named(row) <=> \E k \in Kinds : row.provider[k] = p
BY DEF Named

\* A request begins, goes on or ends without having written a config or a provider.
\* It knows of the provider it knew of, or of one that its config names.
LEMMA RequestMoves ==
    ASSUME StoreInv, NEW r \in Requests, NEW q \in RequestRow, RequestFits(q),
           request' = [request EXCEPT ![r] = q],
           UNCHANGED <<config, provider, adopted>>, info' \in [Infos -> Rows],
           abandoned \subseteq abandoned', abandoned' \subseteq Providers, storeFaults' \in Nat,
           \/ q.provider = NoId
           \/ /\ q.op = request[r].op /\ q.config = request[r].config
              /\ q.provider = request[r].provider /\ HeldBy(q) = HeldBy(request[r])
           \/ /\ q.config \in Configs /\ q.provider \in Named(config[q.config])
              /\ q.op # "create" /\ HeldBy(q) = {},
           \A p \in HeldBy(request[r]) :
               provider[p] # "stored" \/ p \in HeldBy(q) \/ p \in abandoned'
    PROVE  StoreInv'
<1>1. /\ request \in [Requests -> RequestRow] /\ \A s \in Requests : RequestFits(request[s])
  BY DEF StoreInv, StoreTypeOK
<1>2. /\ \A s \in Requests : request'[s] = IF s = r THEN q ELSE request[s]
      /\ request' \in [Requests -> RequestRow]
  BY <1>1
<1>3. StoreTypeOK' BY <1>2 DEF StoreInv, StoreTypeOK
<1>4. \A s \in Requests : RequestFits(request'[s]) BY <1>1, <1>2
<1>5. \A c \in Configs : ColumnsFit(config'[c]) BY DEF StoreInv
<1>6. ASSUME NEW p \in Providers, p \notin adopted PROVE ProviderFits(p)'
  <2>1. ProviderFits(p) BY <1>6 DEF StoreInv
  <2>2. p # NoId BY StoreAssumption
  <2>3. CASE q.provider # p
    <3>1. \A s \in Requests : request'[s].provider = p => request'[s] = request[s] BY <1>2, <2>3
    <3> QED BY <2>1, <3>1 DEF ProviderFits
  <2>4. CASE q.provider = p /\ q.op = request[r].op /\ q.config = request[r].config
             /\ q.provider = request[r].provider /\ HeldBy(q) = HeldBy(request[r])
    <3>1. \A s \in Requests :
            /\ request'[s].provider = request[s].provider /\ request'[s].op = request[s].op
            /\ request'[s].config = request[s].config /\ HeldBy(request'[s]) = HeldBy(request[s])
      BY <1>2, <2>4
    <3> QED BY <2>1, <3>1 DEF ProviderFits
  <2>5. CASE q.provider = p /\ q.config \in Configs /\ p \in Named(config[q.config])
             /\ q.op # "create" /\ HeldBy(q) = {}
    <3>1. \A s \in Requests : request[s].provider = p => request[s].op # "create"
      BY <2>1, <2>5 DEF ProviderFits, HeldBy
    <3>2. \A s \in Requests : request'[s].provider = p => request'[s] = request[s] \/ request'[s] = q
      BY <1>2
    <3>3. \A s \in Requests : request'[s].provider = p => request'[s].op # "create"
      BY <1>2, <2>5, <3>1
    <3>4. \A c \in Configs : p \in Named(config[c]) => c = q.config /\ provider[p] = "stored"
      BY <2>1, <2>5 DEF ProviderFits
    <3>5. provider[p] # Unused BY <2>5, <3>4, StoreAssumption
    <3>6. ASSUME NEW c \in Configs, p \in Named(config[c]), NEW s \in Requests, request'[s].provider = p
          PROVE  p \notin HeldBy(request'[s]) /\ (request'[s].op = "delete" => request'[s].config = c)
      <4>1. CASE request'[s] = q BY <2>5, <3>4, <3>6, <4>1
      <4>2. CASE request'[s] = request[s] BY <2>1, <3>6, <4>2 DEF ProviderFits
      <4> QED BY <3>2, <3>6, <4>1, <4>2
    <3> QED BY <3>3, <3>4, <3>5, <3>6 DEF ProviderFits
  <2> QED BY <2>2, <2>3, <2>4, <2>5
<1>7. NoForgottenPublisher'
  <2> SUFFICES ASSUME NEW p \in Providers, provider[p] = "stored", TableOf[p][1] = "publisher", p \notin abandoned'
               PROVE  \/ \E c \in Configs : p \in Named(config[c])
                      \/ \E s \in Requests : p \in HeldBy(request'[s])
    BY DEF NoForgottenPublisher
  <2>1. \/ \E c \in Configs : p \in Named(config[c])
        \/ \E s \in Requests : p \in HeldBy(request[s])
    BY DEF StoreInv, NoForgottenPublisher
  <2>2. ASSUME NEW s \in Requests, p \in HeldBy(request[s]) PROVE p \in HeldBy(request'[s])
    BY <1>2, <2>2
  <2> QED BY <2>1, <2>2
<1> QED BY <1>3, <1>4, <1>5, <1>6, <1>7 DEF StoreInv

\* A request reads the row of its config, and begins.
LEMMA ReadConfigKeeps ==
    ASSUME StoreInv, NEW r \in Requests, NEW c \in Configs, NEW q \in RequestRow, Stored(c),
           ReadConfig(r, c, q),
           q.provider = NoId \/ q.provider \in Named(config[c]),
           \A row \in RequestRow :
               /\ row.op = q.op /\ row.pc = q.pc /\ row.info = q.info /\ row.config = c
               /\ row.provider = q.provider /\ row.table = q.table /\ row.seen = config[c]
               => RequestFits(row),
           q.op = "create" => q.provider = NoId,
           ~(q.op = "delete" /\ q.pc \in {"findProvider", "removeProvider"})
    PROVE  StoreInv'
<1> DEFINE row == [q EXCEPT !.config = c, !.seen = config[c]]
<1>1. /\ request[r].pc = "idle" /\ request' = [request EXCEPT ![r] = row]
      /\ UNCHANGED <<info, config, provider, adopted, abandoned, storeFaults>>
  BY DEF ReadConfig, Begin
<1>2. config[c] \in ConfigRow \union Gone BY DEF StoreInv, StoreTypeOK
<1>3. /\ row \in RequestRow /\ row.op = q.op /\ row.pc = q.pc /\ row.info = q.info /\ row.config = c
      /\ row.provider = q.provider /\ row.table = q.table /\ row.seen = config[c]
  BY <1>2 DEF RequestRow
<1>4. RequestFits(row) BY <1>3
<1> HIDE DEF row
<1>5. HeldBy(row) = {} BY <1>3, StoreAssumption DEF HeldBy
<1>6. request[r] = NoRequest BY <1>1 DEF StoreInv, RequestFits
<1>7. /\ info' \in [Infos -> Rows] /\ abandoned' = abandoned /\ abandoned' \subseteq Providers
      /\ storeFaults' \in Nat /\ HeldBy(request[r]) = {}
  BY <1>1, <1>6, NoRequestFits DEF StoreInv, StoreTypeOK
<1>8. row.provider = NoId \/ (row.config \in Configs /\ row.provider \in Named(config[row.config]) /\ row.op # "create")
  BY <1>3, StoreAssumption DEF Named
<1> QED BY <1>1, <1>3, <1>4, <1>5, <1>7, <1>8, RequestMoves

\* The columns of a stored row.
LEMMA StoredRow ==
    ASSUME StoreInv, NEW c \in Configs, Stored(c)
    PROVE  config[c] \in ConfigRow /\ config[c] \notin Gone /\ ColumnsFit(config[c])
BY DEF StoreInv, StoreTypeOK, Stored

\* The reads of the requests to a config, and of a status writer.
LEMMA ReadsOfConfigKeep ==
    ASSUME StoreInv, NEW r \in Requests, NEW c \in Configs,
           ReadForEdit(r, c) \/ ReadForStatus(r, c) \/ ReadForDelete(r, c)
    PROVE  StoreInv'
<1>1. Stored(c) BY DEF ReadForEdit, ReadForStatus, ReadForDelete, Found
<1>2. config[c] \in ConfigRow /\ ColumnsFit(config[c]) BY <1>1, StoredRow
<1>3. c # NoId BY StoreAssumption
<1>4. PICK op \in {"edit", "status", "deleteConfig"}, pc \in {"saveConfig", "removeConfig"} :
        /\ ReadConfig(r, c, [NoRequest EXCEPT !.op = op, !.pc = pc])
        /\ pc = "saveConfig" => op \in {"edit", "status"}
  <2>1. CASE ReadForEdit(r, c) BY <2>1 DEF ReadForEdit
  <2>2. CASE ReadForStatus(r, c) BY <2>2 DEF ReadForStatus
  <2>3. CASE ReadForDelete(r, c) BY <2>3 DEF ReadForDelete
  <2> QED BY <2>1, <2>2, <2>3
<1> DEFINE q == [NoRequest EXCEPT !.op = op, !.pc = pc]
<1>5. q \in RequestRow /\ q.op = op /\ q.pc = pc /\ q.provider = NoId
  BY NoRequestFits DEF RequestRow
<1>6. ReadConfig(r, c, q) BY <1>4
<1> HIDE DEF q
<1>7. ASSUME NEW row \in RequestRow, row.op = q.op, row.pc = q.pc, row.config = c,
             row.provider = q.provider, row.seen = config[c]
      PROVE  RequestFits(row)
  BY <1>2, <1>3, <1>4, <1>5, <1>7 DEF RequestFits, WithProviderPcs, WithConfigPcs
<1> QED BY <1>1, <1>5, <1>6, <1>7, ReadConfigKeeps

\* The reads of the requests to a provider.
LEMMA ReadsOfProviderKeep ==
    ASSUME StoreInv, NEW r \in Requests, NEW c \in Configs, NEW table \in Tables,
           \/ ReadForCreate(r, c, table) \/ ReadForUpdate(r, c, table) \/ ReadForRemove(r, c, table)
    PROVE  StoreInv'
<1>1. Stored(c) BY DEF ReadForCreate, ReadForUpdate, ReadForRemove, Found
<1>2. config[c] \in ConfigRow /\ config[c] \notin Gone /\ ColumnsFit(config[c]) BY <1>1, StoredRow
<1>3. c # NoId /\ table[1] \in Kinds
  BY StoreAssumption DEF Tables, Kinds, GitHubStorage, GiteeStorage, GitHubPublisher, GiteePublisher
<1>4. CASE ReadForCreate(r, c, table)
  <2> DEFINE q == [NoRequest EXCEPT !.op = "create", !.pc = "insertProvider", !.table = table]
  <2>1. q \in RequestRow /\ q.op = "create" /\ q.pc = "insertProvider" /\ q.provider = NoId /\ q.table = table
    BY NoRequestFits DEF RequestRow
  <2>2. ReadConfig(r, c, q) /\ ~Conflict(config[c], table) BY <1>4 DEF ReadForCreate
  <2> HIDE DEF q
  <2>3. table[1] = "publisher" => config[c].provider["publisher"] \notin Providers
    BY <2>2 DEF Conflict, PublisherConflict
  <2>4. ASSUME NEW row \in RequestRow, row.op = q.op, row.pc = q.pc, row.config = c,
               row.provider = q.provider, row.table = q.table, row.seen = config[c]
        PROVE  RequestFits(row)
    BY <1>2, <1>3, <2>1, <2>3, <2>4 DEF RequestFits, WithProviderPcs, WithConfigPcs, HasPlace
  <2> QED BY <1>1, <2>1, <2>2, <2>4, ReadConfigKeeps
<1>5. CASE ReadForUpdate(r, c, table) \/ ReadForRemove(r, c, table)
  <2> DEFINE p == config[c].provider[table[1]]
             read(op, pc) == [NoRequest EXCEPT !.op = op, !.pc = pc, !.table = table, !.provider = p]
  <2>1. PICK op \in {"update", "delete"}, pc \in {"findProvider", "reread"} :
          /\ ReadConfig(r, c, read(op, pc))
          /\ (op = "update" /\ pc = "findProvider") \/ (op = "delete" /\ pc = "reread")
    <3>1. ReadConfig(r, c, read("update", "findProvider")) \/ ReadConfig(r, c, read("delete", "reread"))
      BY <1>5 DEF ReadForUpdate, ReadForRemove
    <3> HIDE DEF read
    <3> QED BY <3>1
  <2>2. p \in Providers /\ TableOf[p] = table BY <1>5 DEF ReadForUpdate, ReadForRemove, Uses
  <2>3. p \in Named(config[c]) BY <1>2, <1>3, <2>2 DEF Named
  <2>4. config[c].provider[table[1]] = p OBVIOUS
  <2> HIDE DEF p
  <2> DEFINE q == read(op, pc)
  <2>5. q \in RequestRow /\ q.op = op /\ q.pc = pc /\ q.provider = p /\ q.table = table
    BY <2>2, NoRequestFits, ZenonT(40) DEF RequestRow
  <2>6. ReadConfig(r, c, q) BY <2>1
  <2> HIDE DEF q
  <2>7. ASSUME NEW row \in RequestRow, row.op = q.op, row.pc = q.pc, row.config = c,
               row.provider = q.provider, row.table = q.table, row.seen = config[c]
        PROVE  RequestFits(row)
    BY <1>2, <1>3, <2>1, <2>2, <2>4, <2>5, <2>7
       DEF RequestFits, WithProviderPcs, WithConfigPcs, HasProvider, SeenFits
  <2> QED BY <1>1, <2>1, <2>3, <2>5, <2>6, <2>7, ReadConfigKeeps
<1> QED BY <1>4, <1>5

\* A request that ends without having written a config or a provider.
LEMMA EndKeeps ==
    ASSUME StoreInv, NEW r \in Requests, Return(r), UNCHANGED <<config, provider, adopted>>,
           info' \in [Infos -> Rows], abandoned \subseteq abandoned', abandoned' \subseteq Providers,
           storeFaults' \in Nat,
           \A p \in HeldBy(request[r]) : provider[p] # "stored" \/ p \in abandoned'
    PROVE  StoreInv'
BY NoRequestFits, RequestMoves DEF Return

\* A request that goes on, and has only read.
LEMMA GoingOnKeeps ==
    ASSUME StoreInv, NEW r \in Requests, NEW next, Continue(r, next),
           UNCHANGED <<info, config, provider, adopted, abandoned, storeFaults>>,
           \/ request[r].pc = "countPrefix" /\ next = "insertConfig"
           \/ request[r].pc = "reread" /\ next = "saveConfig"
           \/ /\ request[r].pc = "findProvider"
              /\ next = IF request[r].op = "update" THEN "saveProvider" ELSE "removeProvider"
    PROVE  StoreInv'
<1> DEFINE q == [request[r] EXCEPT !.pc = next]
<1>1. request[r] \in RequestRow /\ RequestFits(request[r]) BY DEF StoreInv, StoreTypeOK
<1>2. /\ q \in RequestRow /\ q.pc = next /\ q.op = request[r].op /\ q.config = request[r].config
      /\ q.provider = request[r].provider /\ q.seen = request[r].seen /\ q.table = request[r].table
      /\ q.info = request[r].info
  BY <1>1 DEF RequestRow
<1>3. request' = [request EXCEPT ![r] = q] BY DEF Continue
<1> HIDE DEF q
<1>4. RequestFits(q)
  BY <1>1, <1>2 DEF RequestFits, WithProviderPcs, WithConfigPcs, HasProvider, SeenFits, HasPlace
<1>5. HeldBy(q) = HeldBy(request[r]) BY <1>1, <1>2 DEF HeldBy, RequestFits
<1>6. /\ info' \in [Infos -> Rows] /\ abandoned' = abandoned /\ abandoned' \subseteq Providers
      /\ storeFaults' \in Nat
  BY DEF StoreInv, StoreTypeOK
<1> QED BY <1>2, <1>3, <1>4, <1>5, <1>6, RequestMoves

\* The row of a POST site/config.
LEMMA BodyRow ==
    ASSUME NEW i \in Infos, NEW body \in Bodies
    PROVE  LET row == [info |-> i, prefix |-> body.prefix, provider |-> body.provider, other |-> body.other]
           IN  row \in ConfigRow /\ ColumnsFit(row)
<1> DEFINE row == [info |-> i, prefix |-> body.prefix, provider |-> body.provider, other |-> body.other]
<1>1. BodyFits(body) BY StoreAssumption
<1>2. row \in ConfigRow BY <1>1 DEF BodyFits, ConfigRow
<1>3. ColumnsFit(row) BY <1>1 DEF BodyFits, ColumnsFit
<1> QED BY <1>2, <1>3

\* The other statements that write no row.
LEMMA OtherReadsKeep ==
    ASSUME StoreInv, NEW r \in Requests,
           \/ InfoRequest(r) \/ (\E i \in Infos, body \in Bodies : ReadForConfig(r, i, body))
           \/ CountPrefix(r) \/ RereadConfig(r) \/ FindProvider(r) \/ Interrupted(r)
    PROVE  StoreInv'
<1>1. /\ request[r] \in RequestRow /\ RequestFits(request[r]) /\ storeFaults \in Nat
      /\ info \in [Infos -> Rows] /\ abandoned \subseteq Providers /\ HeldBy(request[r]) \subseteq Providers
  BY DEF StoreInv, StoreTypeOK, HeldBy
<1>2. request[r].pc = "idle" => HeldBy(request[r]) = {}
  BY <1>1, NoRequestFits DEF RequestFits
<1>3. ASSUME NEW i \in Infos, NEW op \in {"editInfo", "deleteInfo"}, ReadInfo(r, i, op) PROVE StoreInv'
  <2> DEFINE q == [NoRequest EXCEPT !.op = op, !.info = i,
                     !.pc = IF op = "editInfo" THEN "saveInfo" ELSE "removeInfo"]
  <2>1. /\ q \in RequestRow /\ q.op = op /\ q.pc \in {"saveInfo", "removeInfo"} /\ q.info = i
        /\ q.provider = NoId /\ q.seen = Unused
    BY NoRequestFits DEF RequestRow, NoRequest
  <2>2. /\ request' = [request EXCEPT ![r] = q] /\ request[r].pc = "idle"
        /\ UNCHANGED <<info, config, provider, adopted, abandoned, storeFaults>>
    BY <1>3 DEF ReadInfo, Begin
  <2> HIDE DEF q
  <2>3. RequestFits(q)
    BY <2>1 DEF RequestFits, WithProviderPcs, WithConfigPcs, ColumnsFit, Gone
  <2> QED BY <1>1, <1>2, <2>1, <2>2, <2>3, RequestMoves
<1>4. ASSUME NEW i \in Infos, NEW body \in Bodies, ReadForConfig(r, i, body) PROVE StoreInv'
  <2> DEFINE row == [info |-> i, prefix |-> body.prefix, provider |-> body.provider, other |-> body.other]
             q == [NoRequest EXCEPT !.op = "createConfig", !.pc = "countPrefix", !.info = i, !.seen = row]
  <2>1. row \in ConfigRow /\ ColumnsFit(row) BY BodyRow
  <2>2. /\ request' = [request EXCEPT ![r] = q] /\ request[r].pc = "idle"
        /\ UNCHANGED <<info, config, provider, adopted, abandoned, storeFaults>>
    BY <1>4 DEF ReadForConfig, Begin
  <2> HIDE DEF row
  <2>3. /\ q \in RequestRow /\ q.op = "createConfig" /\ q.pc = "countPrefix"
        /\ q.provider = NoId /\ q.seen = row
    BY <2>1, NoRequestFits DEF RequestRow, NoRequest
  <2> HIDE DEF q
  <2>4. RequestFits(q)
    BY <2>1, <2>3 DEF RequestFits, WithProviderPcs, WithConfigPcs
  <2> QED BY <1>1, <1>2, <2>2, <2>3, <2>4, RequestMoves
<1>5. CASE CountPrefix(r)
  <2>1. /\ request[r].pc = "countPrefix"
        /\ UNCHANGED <<info, config, provider, adopted, abandoned, storeFaults>>
        /\ Return(r) \/ Continue(r, "insertConfig")
    BY <1>5 DEF CountPrefix
  <2>2. HeldBy(request[r]) = {} BY <1>1, <2>1, NoRequestFits DEF RequestFits, WithProviderPcs, HeldBy
  <2>3. CASE Return(r) BY <1>1, <2>1, <2>2, <2>3, EndKeeps
  <2>4. CASE Continue(r, "insertConfig") BY <2>1, <2>4, GoingOnKeeps
  <2> QED BY <2>1, <2>3, <2>4
<1>6. CASE RereadConfig(r)
  <2>1. request[r].pc = "reread" /\ UNCHANGED <<info, config, provider, adopted, storeFaults>>
    BY <1>6 DEF RereadConfig
  <2>2. CASE Continue(r, "saveConfig") /\ UNCHANGED abandoned BY <2>1, <2>2, GoingOnKeeps
  <2>3. CASE Return(r) /\ Abandon(HeldBy(request[r]))
    <3>1. abandoned' = abandoned \union HeldBy(request[r]) BY <2>3 DEF Abandon
    <3> QED BY <1>1, <2>1, <2>3, <3>1, EndKeeps
  <2> QED BY <1>6, <2>2, <2>3 DEF RereadConfig
<1>7. CASE FindProvider(r)
  <2> DEFINE p == request[r].provider
  <2>1. request[r].pc = "findProvider" /\ UNCHANGED <<info, config, provider, adopted, abandoned, storeFaults>>
    BY <1>7 DEF FindProvider
  <2>2. request[r].op \in {"update", "delete"} BY <1>1, <2>1 DEF RequestFits
  <2>3. CASE provider[p] # "stored"
    <3>1. Return(r) BY <1>7, <2>3 DEF FindProvider
    <3>2. \A t \in HeldBy(request[r]) : t = p BY DEF HeldBy
    <3> QED BY <1>1, <2>1, <2>3, <3>1, <3>2, EndKeeps
  <2>4. CASE provider[p] = "stored" /\ request[r].op = "update"
    <3>1. Continue(r, "saveProvider") BY <1>7, <2>4 DEF FindProvider
    <3> QED BY <2>1, <2>4, <3>1, GoingOnKeeps
  <2>5. CASE provider[p] = "stored" /\ request[r].op # "update"
    <3>1. Continue(r, "removeProvider") BY <1>7, <2>5 DEF FindProvider
    <3> QED BY <2>1, <2>5, <3>1, GoingOnKeeps
  <2> QED BY <2>3, <2>4, <2>5
<1>8. CASE Interrupted(r)
  <2>1. /\ storeFaults' = storeFaults + 1 /\ Return(r) /\ UNCHANGED <<info, config, provider, adopted>>
        /\ abandoned' = abandoned \union HeldBy(request[r])
    BY <1>8 DEF Interrupted, Abandon
  <2> QED BY <1>1, <2>1, EndKeeps
<1> QED BY <1>3, <1>4, <1>5, <1>6, <1>7, <1>8 DEF InfoRequest

\* The writers of infos.
LEMMA InfosKeep ==
    ASSUME StoreInv,
           \/ \E i \in Infos : CreateInfo(i)
           \/ \E r \in Requests : SaveInfo(r) \/ RemoveInfo(r)
    PROVE  StoreInv'
<1>1. /\ info \in [Infos -> Rows] /\ abandoned \subseteq Providers /\ storeFaults \in Nat
      /\ \A r \in Requests : RequestFits(request[r])
  BY DEF StoreInv, StoreTypeOK
<1>2. UNCHANGED <<config, provider, adopted, abandoned, storeFaults>>
  BY DEF CreateInfo, SaveInfo, RemoveInfo
<1>3. ASSUME NEW r \in Requests, SaveInfo(r) \/ RemoveInfo(r) PROVE StoreInv'
  <2>1. Return(r) /\ request[r].pc \in {"saveInfo", "removeInfo"} BY <1>3 DEF SaveInfo, RemoveInfo
  <2>2. HeldBy(request[r]) = {}
    BY <1>1, <2>1, StoreAssumption DEF RequestFits, WithProviderPcs, HeldBy
  <2>3. info' \in [Infos -> Rows]
    <3>1. CASE SaveInfo(r) BY <1>1, <3>1 DEF SaveInfo, Rows
    <3>2. CASE RemoveInfo(r) BY <1>1, <3>2 DEF RemoveInfo, Rows
    <3> QED BY <1>3, <3>1, <3>2
  <2> QED BY <1>1, <1>2, <2>1, <2>2, <2>3, EndKeeps
<1>4. ASSUME NEW i \in Infos, CreateInfo(i) PROVE StoreInv'
  <2>1. request' = request /\ info' \in [Infos -> Rows] BY <1>1, <1>4 DEF CreateInfo, Rows
  <2>2. StoreTypeOK' BY <1>2, <2>1 DEF StoreInv, StoreTypeOK
  <2>3. \A p \in Providers : ProviderFits(p) => ProviderFits(p)' BY <1>2, <2>1 DEF ProviderFits
  <2>4. NoForgottenPublisher' BY <1>2, <2>1 DEF StoreInv, NoForgottenPublisher
  <2> QED BY <1>2, <2>1, <2>2, <2>3, <2>4 DEF StoreInv
<1> QED BY <1>3, <1>4

\* A new provider is known to the request that has inserted it, if no save has put
\* its id into a row.
LEMMA InsertProviderKeeps == ASSUME StoreInv, NEW r \in Requests, InsertProvider(r) PROVE StoreInv'
<1>1. PICK p \in Providers :
        /\ provider[p] = Unused /\ TableOf[p] = request[r].table
        /\ provider' = [provider EXCEPT ![p] = "stored"]
        /\ request' = [request EXCEPT ![r].pc = "reread", ![r].provider = p]
  BY DEF InsertProvider
<1>2. request[r].pc = "insertProvider" /\ UNCHANGED <<info, config, adopted, abandoned, storeFaults>>
  BY DEF InsertProvider
<1>3. /\ request \in [Requests -> RequestRow] /\ RequestFits(request[r])
      /\ provider \in [Providers -> Rows]
  BY DEF StoreInv, StoreTypeOK
<1> DEFINE q == [request[r] EXCEPT !.pc = "reread", !.provider = p]
<1>4. /\ q \in RequestRow /\ q.pc = "reread" /\ q.provider = p /\ q.op = request[r].op
      /\ q.config = request[r].config /\ q.seen = request[r].seen /\ q.table = request[r].table
      /\ q.info = request[r].info
  BY <1>3 DEF RequestRow
<1>5. request' = [request EXCEPT ![r] = q] BY <1>1, <1>3 DEF RequestRow
<1> HIDE DEF q
<1>6. /\ \A s \in Requests : request'[s] = IF s = r THEN q ELSE request[s]
      /\ request' \in [Requests -> RequestRow]
  BY <1>3, <1>4, <1>5
<1>7. NoId \notin Providers /\ Unused # "stored" BY StoreAssumption
<1>8. request[r].op = "create" /\ request[r].provider = NoId /\ HasPlace(request[r])
  BY <1>2, <1>3 DEF RequestFits, WithProviderPcs
<1>9. RequestFits(q)
  BY <1>1, <1>2, <1>3, <1>4 DEF RequestFits, WithProviderPcs, WithConfigPcs, SeenFits, HasProvider, HasPlace
<1>10. \A t \in Providers : provider'[t] = IF t = p THEN "stored" ELSE provider[t]
  BY <1>1, <1>3
<1>11. StoreTypeOK'
  <2>1. provider' \in [Providers -> Rows] BY <1>1, <1>3 DEF Rows
  <2> QED BY <1>2, <1>6, <2>1 DEF StoreInv, StoreTypeOK
<1>12. \A s \in Requests : RequestFits(request'[s]) BY <1>6, <1>9 DEF StoreInv
<1>13. ASSUME NEW t \in Providers, t \notin adopted PROVE ProviderFits(t)'
  <2>1. ProviderFits(t) BY <1>13 DEF StoreInv
  <2>2. CASE t = p
    <3>1. \A c \in Configs : p \notin Named(config[c]) BY <1>1, <1>7, <2>1, <2>2 DEF ProviderFits
    <3>2. \A s \in Requests : request[s].provider # p BY <1>1, <2>1, <2>2 DEF ProviderFits
    <3>3. \A s \in Requests : request'[s].provider = p => s = r BY <1>6, <3>2
    <3> QED BY <1>2, <1>7, <1>10, <2>2, <3>1, <3>3 DEF ProviderFits
  <2>3. CASE t # p
    <3>1. \A s \in Requests : request'[s].provider = t => request'[s] = request[s] BY <1>4, <1>6, <2>3
    <3> QED BY <1>2, <1>10, <2>1, <2>3, <3>1 DEF ProviderFits
  <2> QED BY <2>2, <2>3
<1>14. NoForgottenPublisher'
  <2> SUFFICES ASSUME NEW t \in Providers, provider'[t] = "stored", TableOf[t][1] = "publisher", t \notin abandoned
               PROVE  \/ \E c \in Configs : t \in Named(config[c])
                      \/ \E s \in Requests : t \in HeldBy(request'[s])
    BY <1>2 DEF NoForgottenPublisher
  <2>1. CASE t = p
    <3>1. p \in HeldBy(q) BY <1>4, <1>8 DEF HeldBy
    <3> QED BY <1>6, <2>1, <3>1
  <2>2. CASE t # p
    <3>1. \/ \E c \in Configs : t \in Named(config[c])
          \/ \E s \in Requests : t \in HeldBy(request[s])
      BY <1>10, <2>2 DEF StoreInv, NoForgottenPublisher
    <3>2. t \notin HeldBy(request[r]) BY <1>7, <1>8 DEF HeldBy
    <3> QED BY <1>6, <3>1, <3>2
  <2> QED BY <2>1, <2>2
<1> QED BY <1>2, <1>11, <1>12, <1>13, <1>14 DEF StoreInv

\* A provider is saved or deleted, at the end of its request.
LEMMA ProviderKeeps ==
    ASSUME StoreInv, NEW r \in Requests, SaveProvider(r) \/ RemoveProvider(r)
    PROVE  StoreInv'
<1>1. /\ request \in [Requests -> RequestRow] /\ RequestFits(request[r]) /\ provider \in [Providers -> Rows]
      /\ abandoned \subseteq Providers
  BY DEF StoreInv, StoreTypeOK
<1>2. /\ request[r].pc \in {"saveProvider", "removeProvider"} /\ Return(r)
      /\ UNCHANGED <<info, config, adopted, storeFaults>>
  BY DEF SaveProvider, RemoveProvider
<1>3. PICK p \in Providers, v \in {"stored", Deleted} :
        /\ provider' = [provider EXCEPT ![p] = v]
        /\ abandoned' = abandoned \/ abandoned' = abandoned \union {p}
        /\ \/ /\ v = "stored" /\ request[r].op = "update"
              /\ provider[p] = "stored" \/ p \in abandoned'
           \/ v = Deleted /\ request[r].op = "delete" /\ request[r].provider = p /\ p \in HeldBy(request[r])
  <2>1. CASE SaveProvider(r)
    <3>1. request[r].op = "update" BY <1>1, <2>1 DEF SaveProvider, RequestFits
    <3>2. PICK p \in Providers :
            /\ provider' = [provider EXCEPT ![p] = "stored"]
            /\ abandoned' = abandoned \union (IF provider[p] = "stored" THEN {} ELSE {p})
      BY <2>1 DEF SaveProvider, Abandon
    <3>3. CASE provider[p] = "stored"
      <4>1. abandoned' = abandoned BY <3>2, <3>3
      <4> QED BY <3>1, <3>2, <3>3, <4>1
    <3>4. CASE provider[p] # "stored"
      <4>1. abandoned' = abandoned \union {p} BY <3>2, <3>4
      <4> QED BY <3>1, <3>2, <3>4, <4>1
    <3> QED BY <3>3, <3>4
  <2>2. CASE RemoveProvider(r)
    <3>1. /\ request[r].op = "delete" /\ request[r].provider \in Providers /\ request[r].pc = "removeProvider"
      BY <1>1, <2>2 DEF RemoveProvider, RequestFits, HasProvider
    <3>2. request[r].provider \in HeldBy(request[r]) BY <3>1 DEF HeldBy
    <3> QED BY <2>2, <3>1, <3>2 DEF RemoveProvider
  <2> QED BY <2>1, <2>2
<1>4. \A t \in Providers : provider'[t] = IF t = p THEN v ELSE provider[t] BY <1>1, <1>3
<1>5. /\ \A s \in Requests : request'[s] = IF s = r THEN NoRequest ELSE request[s]
      /\ request' \in [Requests -> RequestRow]
  BY <1>1, <1>2, NoRequestFits DEF Return
<1>6. Unused # Deleted /\ "stored" # Unused /\ "stored" # Deleted BY StoreAssumption
<1>7. StoreTypeOK'
  <2>1. provider' \in [Providers -> Rows] BY <1>1, <1>3 DEF Rows
  <2>2. abandoned' \subseteq Providers BY <1>1, <1>3
  <2> QED BY <1>2, <1>5, <2>1, <2>2 DEF StoreInv, StoreTypeOK
<1>8. \A s \in Requests : RequestFits(request'[s]) BY <1>5, NoRequestFits DEF StoreInv
<1>9. ASSUME NEW t \in Providers, t \notin adopted PROVE ProviderFits(t)'
  <2>1. ProviderFits(t) BY <1>9 DEF StoreInv
  <2>2. \A s \in Requests : request'[s].provider = t => s # r /\ request'[s] = request[s]
    BY <1>5, NoRequestFits
  <2>3. CASE t # p \/ v = "stored"
    <3>1. provider'[t] = provider[t] \/ provider'[t] = "stored" BY <1>4, <2>3
    <3> QED BY <1>2, <1>6, <2>1, <2>2, <3>1 DEF ProviderFits
  <2>4. CASE t = p /\ v # "stored"
    <3>1. request[r].provider = p /\ p \in HeldBy(request[r]) /\ request[r].op = "delete" BY <1>3, <2>4
    <3>2. \A c \in Configs : p \notin Named(config[c]) BY <2>1, <2>4, <3>1 DEF ProviderFits
    <3>3. \A s \in Requests : request[s].provider = p => request[s].op # "create"
      BY <2>1, <2>4, <3>1 DEF ProviderFits
    <3>4. provider'[p] # Unused BY <1>4, <1>6, <2>4
    <3> QED BY <1>2, <2>2, <2>4, <3>2, <3>3, <3>4 DEF ProviderFits
  <2> QED BY <2>3, <2>4
<1>10. NoForgottenPublisher'
  <2> SUFFICES ASSUME NEW t \in Providers, provider'[t] = "stored", TableOf[t][1] = "publisher", t \notin abandoned'
               PROVE  \/ \E c \in Configs : t \in Named(config[c])
                      \/ \E s \in Requests : t \in HeldBy(request'[s])
    BY <1>2 DEF NoForgottenPublisher
  <2>1. provider[t] = "stored" /\ t \notin abandoned BY <1>3, <1>4, <1>6
  <2>2. \/ \E c \in Configs : t \in Named(config[c])
        \/ \E s \in Requests : t \in HeldBy(request[s])
    BY <2>1 DEF StoreInv, NoForgottenPublisher
  <2>3. t \notin HeldBy(request[r])
    <3>1. CASE request[r].op = "update" BY <3>1 DEF HeldBy
    <3>2. CASE request[r].op # "update"
      <4>1. t # p BY <1>3, <1>4, <1>6, <3>2
      <4> QED BY <1>3, <3>2, <4>1 DEF HeldBy
    <3> QED BY <3>1, <3>2
  <2> QED BY <1>5, <2>2, <2>3
<1> QED BY <1>2, <1>7, <1>8, <1>9, <1>10 DEF StoreInv

\* A config is removed.
LEMMA RemoveConfigKeeps == ASSUME StoreInv, NEW r \in Requests, RemoveConfig(r) PROVE StoreInv'
<1>1. /\ request \in [Requests -> RequestRow] /\ RequestFits(request[r])
      /\ config \in [Configs -> ConfigRow \union Gone] /\ abandoned \subseteq Providers
  BY DEF StoreInv, StoreTypeOK
<1>2. /\ request[r].pc = "removeConfig" /\ Return(r) /\ UNCHANGED <<info, provider, adopted, storeFaults>>
      /\ config' = [config EXCEPT ![request[r].config] = Deleted]
      /\ abandoned' = abandoned \union Named(config[request[r].config])
  BY DEF RemoveConfig, Abandon
<1>3. PICK c \in Configs : c = request[r].config
  BY <1>1, <1>2 DEF RequestFits, WithConfigPcs, RequestRow
<1>4. \A d \in Configs : config'[d] = IF d = c THEN Deleted ELSE config[d] BY <1>1, <1>2, <1>3
<1>5. /\ \A s \in Requests : request'[s] = IF s = r THEN NoRequest ELSE request[s]
      /\ request' \in [Requests -> RequestRow]
  BY <1>1, <1>2, NoRequestFits DEF Return
<1>6. Deleted \in Gone /\ Named(Deleted) = {} BY DEF Gone, Named
<1>7. StoreTypeOK'
  <2>1. config' \in [Configs -> ConfigRow \union Gone] BY <1>1, <1>2, <1>6
  <2>2. abandoned' \subseteq Providers BY <1>1, <1>2 DEF Named
  <2> QED BY <1>2, <1>5, <2>1, <2>2 DEF StoreInv, StoreTypeOK
<1>8. \A s \in Requests : RequestFits(request'[s]) BY <1>5, NoRequestFits DEF StoreInv
<1>9. \A d \in Configs : ColumnsFit(config'[d]) BY <1>4, <1>6 DEF StoreInv, ColumnsFit
<1>10. ASSUME NEW t \in Providers, t \notin adopted PROVE ProviderFits(t)'
  <2>1. ProviderFits(t) BY <1>10 DEF StoreInv
  <2>2. \A s \in Requests : request'[s].provider = t => request'[s] = request[s]
    BY <1>5, NoRequestFits
  <2>3. \A d \in Configs : t \in Named(config'[d]) => t \in Named(config[d]) BY <1>4, <1>6
  <2> QED BY <1>2, <2>1, <2>2, <2>3 DEF ProviderFits
<1>11. NoForgottenPublisher'
  <2> SUFFICES ASSUME NEW t \in Providers, provider[t] = "stored", TableOf[t][1] = "publisher", t \notin abandoned'
               PROVE  \/ \E d \in Configs : t \in Named(config'[d])
                      \/ \E s \in Requests : t \in HeldBy(request'[s])
    BY <1>2 DEF NoForgottenPublisher
  <2>1. \/ \E d \in Configs : t \in Named(config[d])
        \/ \E s \in Requests : t \in HeldBy(request[s])
    BY <1>2 DEF StoreInv, NoForgottenPublisher
  <2>2. t \notin HeldBy(request[r])
    BY <1>1, <1>2, StoreAssumption DEF HeldBy, RequestFits, WithProviderPcs
  <2>3. t \notin Named(config[c]) BY <1>2, <1>3
  <2> QED BY <1>4, <1>5, <2>1, <2>2, <2>3
<1> QED BY <1>2, <1>7, <1>8, <1>9, <1>10, <1>11 DEF StoreInv

\* A row is written, and its request ends or goes on to delete a provider that the
\* row does not name any more.
LEMMA ConfigWritten ==
    ASSUME StoreInv, NEW r \in Requests, NEW c \in Configs, NEW row \in ConfigRow, ColumnsFit(row),
           NEW q \in RequestRow, RequestFits(q), request' = [request EXCEPT ![r] = q],
           config' = [config EXCEPT ![c] = row], UNCHANGED <<info, provider, storeFaults>>,
           adopted' = adopted \union (Named(row) \ (Named(config[c]) \union HeldBy(request[r]))),
           abandoned' = abandoned \union (Named(config[c]) \ (Named(row) \union Named(request[r].seen))),
           \/ q.provider = NoId
           \/ /\ q.op = "delete" /\ request[r].op = "delete" /\ q.provider = request[r].provider
              /\ q.config = c /\ request[r].config = c /\ q.provider \notin Named(row),
           HeldBy(request[r]) \subseteq Named(row),
           HeldBy(request[r]) # {} => request[r].op = "create",
           \A p \in Named(config[c]) \intersect Named(request[r].seen) :
               TableOf[p][1] = "publisher" => p \in Named(row) \/ p \in HeldBy(q)
    PROVE  StoreInv'
<1>1. /\ request \in [Requests -> RequestRow] /\ config \in [Configs -> ConfigRow \union Gone]
      /\ adopted \subseteq Providers /\ abandoned \subseteq Providers /\ provider \in [Providers -> Rows]
  BY DEF StoreInv, StoreTypeOK
<1>2. /\ \A s \in Requests : request'[s] = IF s = r THEN q ELSE request[s]
      /\ request' \in [Requests -> RequestRow]
  BY <1>1
<1>3. \A d \in Configs : config'[d] = IF d = c THEN row ELSE config[d] BY <1>1
<1>4. StoreTypeOK'
  <2>1. config' \in [Configs -> ConfigRow \union Gone] BY <1>1
  <2>2. adopted' \subseteq Providers /\ abandoned' \subseteq Providers BY <1>1 DEF Named
  <2> QED BY <1>2, <2>1, <2>2 DEF StoreInv, StoreTypeOK
<1>5. \A s \in Requests : RequestFits(request'[s]) BY <1>2 DEF StoreInv
<1>6. \A d \in Configs : ColumnsFit(config'[d]) BY <1>3 DEF StoreInv
<1>7. ASSUME NEW p \in Providers, p \notin adopted' PROVE ProviderFits(p)'
  <2>1. ProviderFits(p) BY <1>7 DEF StoreInv
  <2>2. p # NoId /\ Unused # "stored" BY StoreAssumption
  <2>3. \A s \in Requests : request'[s].provider = p =>
          \/ s # r /\ request'[s] = request[s]
          \/ /\ s = r /\ request'[s] = q /\ q.op = "delete" /\ request[r].op = "delete"
             /\ request[r].provider = p /\ q.config = c /\ request[r].config = c /\ p \notin Named(row)
    BY <1>2, <2>2
  <2>4. ASSUME NEW s \in Requests, request'[s].provider = p
        PROVE  /\ provider'[p] # Unused
               /\ request'[s].op = "create" =>
                    provider'[p] = "stored" /\ \A t \in Requests : request'[t].provider = p => s = t
    BY <2>1, <2>3, <2>4 DEF ProviderFits
  <2>5. CASE p \notin Named(row)
    <3>1. \A d \in Configs : p \in Named(config'[d]) => d # c /\ p \in Named(config[d]) BY <1>3, <2>5
    <3>2. ASSUME NEW d \in Configs, p \in Named(config'[d]), NEW s \in Requests, request'[s].provider = p
          PROVE  p \notin HeldBy(request'[s]) /\ (request'[s].op = "delete" => request'[s].config = d)
      <4>1. d # c /\ p \in Named(config[d]) BY <3>1, <3>2
      <4>2. CASE s # r /\ request'[s] = request[s] BY <2>1, <3>2, <4>1, <4>2 DEF ProviderFits
      <4>3. CASE s = r /\ request[r].op = "delete" /\ request[r].provider = p /\ request[r].config = c
        BY <2>1, <4>1, <4>3 DEF ProviderFits
      <4> QED BY <2>3, <3>2, <4>2, <4>3
    <3> QED BY <2>1, <2>4, <3>1, <3>2 DEF ProviderFits
  <2>6. CASE p \in Named(row) /\ p \in Named(config[c])
    <3>1. \A d \in Configs : p \in Named(config'[d]) => d = c BY <1>3, <2>1, <2>6 DEF ProviderFits
    <3>2. provider[p] = "stored" BY <2>1, <2>6 DEF ProviderFits
    <3>3. ASSUME NEW s \in Requests, request'[s].provider = p
          PROVE  p \notin HeldBy(request'[s]) /\ (request'[s].op = "delete" => request'[s].config = c)
      BY <2>1, <2>3, <2>6, <3>3 DEF ProviderFits
    <3> QED BY <2>4, <3>1, <3>2, <3>3 DEF ProviderFits
  <2>7. CASE p \in Named(row) /\ p \in HeldBy(request[r])
    <3>1. request[r].provider = p /\ request[r].op = "create" BY <2>7 DEF HeldBy
    <3>2. \A d \in Configs : p \notin Named(config[d]) BY <2>1, <2>7, <3>1 DEF ProviderFits
    <3>3. provider[p] = "stored" /\ \A s \in Requests : request[s].provider = p => s = r
      BY <2>1, <3>1 DEF ProviderFits
    <3>4. \A s \in Requests : request'[s].provider # p BY <2>3, <2>7, <3>3
    <3>5. \A d \in Configs : p \in Named(config'[d]) => d = c BY <1>3, <3>2
    <3> QED BY <3>3, <3>4, <3>5 DEF ProviderFits
  <2> QED BY <1>7, <2>5, <2>6, <2>7
<1>8. NoForgottenPublisher'
  <2> SUFFICES ASSUME NEW p \in Providers, provider[p] = "stored", TableOf[p][1] = "publisher", p \notin abandoned'
               PROVE  \/ \E d \in Configs : p \in Named(config'[d])
                      \/ \E s \in Requests : p \in HeldBy(request'[s])
    BY DEF NoForgottenPublisher
  <2>1. \/ \E d \in Configs : p \in Named(config[d])
        \/ \E s \in Requests : p \in HeldBy(request[s])
    BY DEF StoreInv, NoForgottenPublisher
  <2>2. p \in Named(config[c]) => p \in Named(row) \/ p \in HeldBy(q) OBVIOUS
  <2>3. p \in HeldBy(request[r]) => p \in Named(row) OBVIOUS
  <2> QED BY <1>2, <1>3, <2>1, <2>2, <2>3
<1> QED BY <1>4, <1>5, <1>6, <1>7, <1>8 DEF StoreInv

\* A save, as the database takes it or refuses it; a refused one ends its request.
LEMMA SaveRowKeeps ==
    ASSUME StoreInv, NEW r \in Requests, NEW c \in Configs, NEW row \in ConfigRow, ColumnsFit(row),
           SaveRow(r, c, row), UNCHANGED <<info, provider, storeFaults>>,
           NEW q \in RequestRow, RequestFits(q), request' = [request EXCEPT ![r] = q],
           ~Admissible(c, row) => q = NoRequest,
           \/ q.provider = NoId
           \/ /\ q.op = "delete" /\ request[r].op = "delete" /\ q.provider = request[r].provider
              /\ q.config = c /\ request[r].config = c /\ q.provider \notin Named(row),
           HeldBy(request[r]) \subseteq Named(row),
           HeldBy(request[r]) # {} => request[r].op = "create",
           \A p \in Named(config[c]) \intersect Named(request[r].seen) :
               TableOf[p][1] = "publisher" => p \in Named(row) \/ p \in HeldBy(q)
    PROVE  StoreInv'
<1>1. CASE Admissible(c, row) BY <1>1, ConfigWritten DEF SaveRow, Abandon
<1>2. CASE ~Admissible(c, row)
  <2>1. UNCHANGED <<config, adopted>> /\ abandoned' = abandoned \union HeldBy(request[r])
    BY <1>2 DEF SaveRow, Abandon
  <2>2. Return(r) BY <1>2 DEF Return
  <2>3. /\ info' \in [Infos -> Rows] /\ abandoned' \subseteq Providers /\ storeFaults' \in Nat
    BY <2>1 DEF StoreInv, StoreTypeOK, HeldBy
  <2> QED BY <2>1, <2>2, <2>3, EndKeeps
<1> QED BY <1>1, <1>2

\* A config is inserted.
LEMMA InsertConfigKeeps == ASSUME StoreInv, NEW r \in Requests, InsertConfig(r) PROVE StoreInv'
<1>1. PICK c \in Configs : config[c] = Unused /\ SaveRow(r, c, request[r].seen) BY DEF InsertConfig
<1>2. request[r].pc = "insertConfig" /\ Return(r) /\ UNCHANGED <<info, provider, storeFaults>>
  BY DEF InsertConfig
<1>3. request[r] \in RequestRow /\ RequestFits(request[r]) BY DEF StoreInv, StoreTypeOK
<1>4. /\ request[r].op = "createConfig" /\ request[r].seen \in ConfigRow /\ ColumnsFit(request[r].seen)
  BY <1>2, <1>3 DEF RequestFits
<1>5. HeldBy(request[r]) = {} BY <1>4 DEF HeldBy
<1>6. Named(config[c]) = {} BY <1>1 DEF Named, Gone
<1> QED BY <1>1, <1>2, <1>4, <1>5, <1>6, NoRequestFits, SaveRowKeeps DEF Return

\* The row that is saved: what the request has read, with the provider it has created
\* or without the one it deletes.
LEMMA SavedRow ==
    ASSUME StoreInv, NEW r \in Requests, request[r].pc = "saveConfig", NEW row \in RowsToSave(r)
    PROVE  /\ request[r].op \in {"edit", "status", "create", "delete"}
           /\ row \in ConfigRow /\ ColumnsFit(row)
           /\ HeldBy(request[r]) \subseteq Named(row)
           /\ HeldBy(request[r]) # {} => request[r].op = "create"
           /\ request[r].op = "delete" => request[r].provider \in Providers \ Named(row)
           /\ \A p \in Named(request[r].seen) : TableOf[p][1] = "publisher" =>
                p \in Named(row) \/ (request[r].op = "delete" /\ request[r].provider = p)
<1> DEFINE q == request[r]
<1>1. /\ q \in RequestRow /\ RequestFits(q) /\ config \in [Configs -> ConfigRow \union Gone]
  BY DEF StoreInv, StoreTypeOK
<1>2. /\ SeenFits(q) \/ (q.op \in {"edit", "status"} /\ q.provider = NoId)
      /\ q.seen \in ConfigRow /\ ColumnsFit(q.seen) /\ q.config \in Configs
  BY <1>1 DEF RequestFits, WithConfigPcs, WithProviderPcs, RequestRow
<1>3. q.seen \notin Gone /\ \A s \in ConfigRow : s \notin Gone BY <1>2, StoreAssumption DEF Gone
<1>4. HeldBy(q) # {} => q.op = "create" BY DEF HeldBy
<1>5. CASE q.op \in {"edit", "status"}
  <2>1. row \in ConfigRow /\ row.provider = q.seen.provider
    <3>1. CASE q.op = "edit"
      <4>1. PICK pre \in Prefixes : row = [q.seen EXCEPT !.prefix = pre] BY <3>1 DEF RowsToSave, Edited
      <4> QED BY <1>2, <4>1 DEF ConfigRow
    <3>2. CASE q.op = "status"
      <4>1. row = [q.seen EXCEPT !.info = IF Stored(q.config) THEN config[q.config].info ELSE NoId]
        BY <3>2 DEF RowsToSave, WithStatus
      <4>2. Stored(q.config) => config[q.config].info \in Infos \union {NoId}
        BY <1>1, <1>2 DEF Stored, ConfigRow
      <4> QED BY <1>2, <4>1, <4>2 DEF ConfigRow
    <3> QED BY <1>5, <3>1, <3>2
  <2>2. ColumnsFit(row) /\ Named(row) = Named(q.seen) BY <1>2, <1>3, <2>1 DEF ColumnsFit, Named
  <2>3. HeldBy(q) = {} BY <1>5 DEF HeldBy
  <2> QED BY <1>5, <2>1, <2>2, <2>3
<1>6. ASSUME NEW kind \in Kinds, NEW v \in Columns, row = [q.seen EXCEPT !.provider[kind] = v],
             v \in Providers => TableOf[v][1] = kind
      PROVE  /\ row \in ConfigRow /\ ColumnsFit(row) /\ row.provider[kind] = v
             /\ \A k \in Kinds \ {kind} : row.provider[k] = q.seen.provider[k]
  <2>1. q.seen.provider \in [Kinds -> Columns] BY <1>2 DEF ConfigRow
  <2>2. row = [q.seen EXCEPT !.provider = [q.seen.provider EXCEPT ![kind] = v]] BY <1>6, Zenon
  <2> DEFINE columns == [q.seen.provider EXCEPT ![kind] = v]
  <2>3. columns \in [Kinds -> Columns] /\ \A k \in Kinds : columns[k] = IF k = kind THEN v ELSE q.seen.provider[k]
    BY <2>1
  <2> HIDE DEF columns
  <2>4. row = [q.seen EXCEPT !.provider = columns] BY <2>2 DEF columns
  <2>5. row \in ConfigRow /\ row.provider = columns BY <1>2, <2>3, <2>4 DEF ConfigRow
  <2>6. ColumnsFit(row)
    <3> SUFFICES ASSUME NEW k \in Kinds, row.provider[k] \in Providers PROVE TableOf[row.provider[k]][1] = k
      BY DEF ColumnsFit
    <3>1. CASE k = kind BY <1>6, <2>3, <2>5, <3>1
    <3>2. CASE k # kind BY <1>2, <1>3, <2>3, <2>5, <3>2 DEF ColumnsFit
    <3> QED BY <3>1, <3>2
  <2> QED BY <2>3, <2>5, <2>6
<1>7. \A t \in Tables : t[1] \in Kinds
  BY DEF Tables, Kinds, GitHubStorage, GiteeStorage, GitHubPublisher, GiteePublisher
<1>8. q.table \in Tables BY <1>1 DEF RequestRow
<1> DEFINE kind == q.table[1]
<1>9. ASSUME NEW p \in Providers, p \in Named(q.seen)
      PROVE  \E k \in Kinds : q.seen.provider[k] = p /\ TableOf[p][1] = k
  BY <1>2, <1>3, <1>9 DEF Named, ColumnsFit
<1>10. CASE q.op = "create"
  <2>1. row = [q.seen EXCEPT !.provider[kind] = q.provider] BY <1>10 DEF RowsToSave, WithProvider
  <2>2. q.provider \in Providers /\ TableOf[q.provider] = q.table /\ HasPlace(q)
    BY <1>2, <1>10 DEF SeenFits, HasProvider
  <2>3. q.provider \in Columns /\ kind \in Kinds BY <1>7, <1>8, <2>2 DEF Columns
  <2>4. /\ row \in ConfigRow /\ ColumnsFit(row) /\ row.provider[kind] = q.provider
        /\ \A k \in Kinds \ {kind} : row.provider[k] = q.seen.provider[k]
    BY <1>6, <2>1, <2>2, <2>3
  <2>5. q.provider \in Named(row) BY <1>3, <2>2, <2>3, <2>4 DEF Named
  <2>6. HeldBy(q) \subseteq Named(row) BY <2>5 DEF HeldBy
  <2>7. ASSUME NEW p \in Named(q.seen), TableOf[p][1] = "publisher" PROVE p \in Named(row)
    <3>1. p \in Providers BY DEF Named
    <3>2. "publisher" \in Kinds /\ q.seen.provider["publisher"] = p BY <1>9, <2>7, <3>1
    <3>3. kind # "publisher" BY <2>2, <3>1, <3>2 DEF HasPlace
    <3>4. row.provider["publisher"] = p BY <2>4, <3>2, <3>3
    <3> QED BY <1>3, <2>4, <3>1, <3>2, <3>4 DEF Named
  <2> QED BY <1>10, <2>4, <2>6, <2>7
<1>11. CASE q.op = "delete"
  <2>1. row = [q.seen EXCEPT !.provider[kind] = NoId] BY <1>11 DEF RowsToSave, WithProvider
  <2>2. q.provider \in Providers /\ TableOf[q.provider] = q.table /\ q.seen.provider[kind] = q.provider
    BY <1>2, <1>11 DEF SeenFits, HasProvider
  <2>3. NoId \in Columns /\ NoId \notin Providers /\ kind \in Kinds
    BY <1>7, <1>8, StoreAssumption DEF Columns
  <2>4. /\ row \in ConfigRow /\ ColumnsFit(row) /\ row.provider[kind] = NoId
        /\ \A k \in Kinds \ {kind} : row.provider[k] = q.seen.provider[k]
    BY <1>6, <2>1, <2>3
  <2>5. HeldBy(q) = {} BY <1>4, <1>11
  <2>6. q.provider \notin Named(row)
    <3>1. SUFFICES ASSUME NEW k \in Kinds, row.provider[k] = q.provider PROVE FALSE BY <2>2 DEF Named
    <3>2. TableOf[row.provider[k]][1] = k BY <1>3, <2>2, <2>4, <3>1 DEF ColumnsFit
    <3>3. k = kind BY <2>2, <3>1, <3>2
    <3> QED BY <2>2, <2>3, <2>4, <3>1, <3>3
  <2>7. ASSUME NEW p \in Named(q.seen), TableOf[p][1] = "publisher", p # q.provider PROVE p \in Named(row)
    <3>1. p \in Providers BY DEF Named
    <3>2. "publisher" \in Kinds /\ q.seen.provider["publisher"] = p BY <1>9, <2>7, <3>1
    <3>3. kind # "publisher" BY <2>2, <2>7, <3>2
    <3>4. row.provider["publisher"] = p BY <2>4, <3>2, <3>3
    <3> QED BY <1>3, <2>4, <3>1, <3>2, <3>4 DEF Named
  <2> QED BY <1>11, <2>2, <2>4, <2>5, <2>6, <2>7
<1>12. q.op \in {"create", "delete", "edit", "status"} BY <1>2 DEF SeenFits
<1> QED BY <1>4, <1>5, <1>10, <1>11, <1>12

\* A save of the row that a request has read, under its id or another one.
LEMMA SaveConfigKeeps == ASSUME StoreInv, NEW r \in Requests, SaveConfig(r) PROVE StoreInv'
<1>1. request[r].pc = "saveConfig" /\ UNCHANGED <<info, provider, storeFaults>> BY DEF SaveConfig
<1>2. PICK row \in RowsToSave(r), c \in Targets(request[r]) :
        /\ SaveRow(r, c, row)
        /\ IF request[r].op = "delete" /\ Admissible(c, row) THEN Continue(r, "findProvider") ELSE Return(r)
  BY DEF SaveConfig
<1>3. request[r] \in RequestRow /\ RequestFits(request[r]) BY DEF StoreInv, StoreTypeOK
<1>4. /\ request[r].config \in Configs /\ request[r].config # NoId /\ c \in Configs
      /\ request[r].op # "edit" => c = request[r].config
  BY <1>1, <1>2, <1>3 DEF RequestFits, WithConfigPcs, WithProviderPcs, RequestRow, Targets
<1>5. /\ request[r].op \in {"edit", "status", "create", "delete"}
      /\ row \in ConfigRow /\ ColumnsFit(row)
      /\ HeldBy(request[r]) \subseteq Named(row)
      /\ HeldBy(request[r]) # {} => request[r].op = "create"
      /\ request[r].op = "delete" => request[r].provider \in Providers \ Named(row)
      /\ \A p \in Named(request[r].seen) : TableOf[p][1] = "publisher" =>
           p \in Named(row) \/ (request[r].op = "delete" /\ request[r].provider = p)
  BY <1>1, <1>2, SavedRow
<1>6. CASE request[r].op # "delete"
  <2>1. request' = [request EXCEPT ![r] = NoRequest] BY <1>2, <1>6 DEF Return
  <2> QED BY <1>1, <1>2, <1>4, <1>5, <1>6, <2>1, NoRequestFits, SaveRowKeeps
<1>7. CASE request[r].op = "delete" /\ ~Admissible(c, row)
  <2>1. /\ Return(r) /\ UNCHANGED <<config, adopted>>
        /\ abandoned' = abandoned \union HeldBy(request[r])
    BY <1>2, <1>7 DEF SaveRow, Abandon
  <2>2. /\ info' \in [Infos -> Rows] /\ abandoned' \subseteq Providers /\ storeFaults' \in Nat
    BY <1>1, <2>1 DEF StoreInv, StoreTypeOK, HeldBy
  <2> QED BY <1>1, <2>1, <2>2, EndKeeps
<1>8. CASE request[r].op = "delete" /\ Admissible(c, row)
  <2> DEFINE q == [request[r] EXCEPT !.pc = "findProvider"]
  <2>1. /\ q \in RequestRow /\ q.pc = "findProvider" /\ q.op = "delete" /\ q.config = request[r].config
        /\ q.provider = request[r].provider /\ q.seen = request[r].seen /\ q.table = request[r].table
        /\ q.info = request[r].info
    BY <1>3, <1>8 DEF RequestRow
  <2>2. request' = [request EXCEPT ![r] = q] BY <1>2, <1>8 DEF Continue
  <2> HIDE DEF q
  <2>3. RequestFits(q)
    BY <1>1, <1>3, <1>8, <2>1 DEF RequestFits, WithProviderPcs, WithConfigPcs, SeenFits, HasProvider
  <2>4. q.provider \in HeldBy(q) BY <1>5, <1>8, <2>1 DEF HeldBy
  <2>5. q.config = c /\ request[r].config = c /\ q.provider \notin Named(row)
    BY <1>4, <1>5, <1>8, <2>1
  <2>6. \A p \in Named(config[c]) \intersect Named(request[r].seen) :
          TableOf[p][1] = "publisher" => p \in Named(row) \/ p \in HeldBy(q)
    BY <1>5, <2>1, <2>4
  <2>7. SaveRow(r, c, row) /\ (~Admissible(c, row) => q = NoRequest) BY <1>2, <1>8
  <2> QED BY <1>1, <1>4, <1>5, <1>8, <2>1, <2>2, <2>3, <2>5, <2>6, <2>7, SaveRowKeeps
<1> QED BY <1>6, <1>7, <1>8

LEMMA StoreStepKeeps == ASSUME StoreInv, NEW r \in Requests, StoreStep(r) PROVE StoreInv'
<1>1. CASE SaveInfo(r) \/ RemoveInfo(r) BY <1>1, InfosKeep
<1>2. CASE InfoRequest(r) \/ CountPrefix(r) \/ RereadConfig(r) \/ FindProvider(r) \/ Interrupted(r)
  BY <1>2, OtherReadsKeep
<1>3. CASE ConfigRequest(r) \/ \E c \in Configs : ReadForStatus(r, c)
  BY <1>3, OtherReadsKeep, ReadsOfConfigKeep DEF ConfigRequest
<1>4. CASE InsertConfig(r) BY <1>4, InsertConfigKeeps
<1>5. CASE RemoveConfig(r) BY <1>5, RemoveConfigKeeps
<1>6. CASE SaveConfig(r) BY <1>6, SaveConfigKeeps
<1>7. ASSUME NEW table \in Tables, ProviderRequest(r, table) PROVE StoreInv'
  BY <1>7, ReadsOfProviderKeep DEF ProviderRequest
<1>8. ASSUME NEW table, ProviderStatement(r, table) PROVE StoreInv'
  BY <1>8, InsertProviderKeeps, OtherReadsKeep, ProviderKeeps DEF ProviderStatement
<1> QED BY <1>1, <1>2, <1>3, <1>4, <1>5, <1>6, <1>7, <1>8
     DEF StoreStep, Tables, GitHubStorageRequest, GiteeStorageRequest, GitHubPublisherRequest,
         GiteePublisherRequest, GitHubStorageStatement, GiteeStorageStatement,
         GitHubPublisherStatement, GiteePublisherStatement

LEMMA StoreInvStep == StoreInv /\ [StoreNext]_storeVars => StoreInv'
<1> SUFFICES ASSUME StoreInv, [StoreNext]_storeVars PROVE StoreInv'
  OBVIOUS
<1>1. CASE \E i \in Infos : CreateInfo(i) BY <1>1, InfosKeep
<1>2. CASE \E r \in Requests : StoreStep(r) BY <1>2, StoreStepKeeps
<1>3. CASE UNCHANGED storeVars
  <2>1. UNCHANGED <<info, config, provider, request, adopted, abandoned, storeFaults>>
    BY <1>3 DEF storeVars
  <2>2. StoreTypeOK' BY <2>1 DEF StoreInv, StoreTypeOK
  <2>3. \A p \in Providers : ProviderFits(p) => ProviderFits(p)' BY <2>1 DEF ProviderFits
  <2>4. NoForgottenPublisher' BY <2>1 DEF StoreInv, NoForgottenPublisher
  <2> QED BY <2>1, <2>2, <2>3, <2>4 DEF StoreInv
<1> QED BY <1>1, <1>2, <1>3 DEF StoreNext

LEMMA StoreStart == StoreInit => StoreInv
<1> SUFFICES ASSUME StoreInit PROVE StoreInv
  OBVIOUS
<1>1. Unused \in Gone /\ Named(Unused) = {} BY DEF Gone, Named
<1>2. /\ \A c \in Configs : config[c] = Unused
      /\ \A r \in Requests : request[r] = NoRequest
      /\ \A p \in Providers : provider[p] = Unused
  BY DEF StoreInit
<1>3. StoreTypeOK BY <1>1, NoRequestFits DEF StoreInit, StoreTypeOK, Rows
<1>4. \A p \in Providers : ProviderFits(p) BY <1>1, <1>2, NoRequestFits DEF ProviderFits
<1>5. NoForgottenPublisher BY <1>2, StoreAssumption DEF NoForgottenPublisher
<1>6. \A c \in Configs : ColumnsFit(config[c]) BY <1>1, <1>2 DEF ColumnsFit
<1>7. \A r \in Requests : RequestFits(request[r]) BY <1>2, NoRequestFits
<1> QED BY <1>3, <1>4, <1>5, <1>6, <1>7 DEF StoreInv

\* A config names only providers that exist, however requests overlap and whichever of
\* their statements is the last before an error or a restart, unless a save has put
\* the provider into the row: for any number of configs, providers and requests.
THEOREM ProvidersExist == StoreSpec => []NamedProviderExists
<1>1. StoreInv => NamedProviderExists
  <2> SUFFICES ASSUME StoreInv, NEW c \in Configs, NEW p \in Named(config[c]), p \notin adopted
               PROVE  provider[p] = "stored"
    BY DEF NamedProviderExists
  <2>1. p \in Providers BY DEF Named
  <2> QED BY <2>1 DEF StoreInv, ProviderFits
<1> QED BY <1>1, StoreStart, StoreInvStep, PTL DEF StoreSpec

\* A publisher that no config names is between two statements of a request that
\* creates or deletes it, or has been abandoned at one of the places of the model.
THEOREM PublishersKept == StoreSpec => []NoForgottenPublisher
<1>1. StoreInv => NoForgottenPublisher BY DEF StoreInv
<1> QED BY <1>1, StoreStart, StoreInvStep, PTL DEF StoreSpec

\* Types of the rows of sites and of the requests to them.
THEOREM StoreTypeCorrect == StoreSpec => []StoreTypeOK
<1>1. StoreInv => StoreTypeOK BY DEF StoreInv
<1> QED BY <1>1, StoreStart, StoreInvStep, PTL DEF StoreSpec

\* A behaviour of the run is one of the rows and one of the names: what is proved of
\* each of them holds of it.
THEOREM BothSubjects == Spec => StoreSpec /\ DomainsSpec
<1>1. Init => StoreInit /\ DomainsInit BY DEF Init
<1>2. [Next]_<<storeVars, domainVars, subject>> => [StoreNext]_storeVars /\ [DomainsNext]_domainVars
  BY DEF Next
<1> QED BY <1>1, <1>2, PTL DEF Spec, StoreSpec, DomainsSpec

\* Types of all of the variables of the run.
THEOREM SitesTypeCorrect == Spec => []TypeOK
<1>1. StoreTypeOK /\ DomainsTypeOK => TypeOK BY DEF TypeOK
<1> QED BY <1>1, BothSubjects, StoreTypeCorrect, DomainsTypeCorrect, PTL
=============================================================================
