---------------------------- MODULE SiteDomains -----------------------------
(***************************************************************************)
(* What publishing a site does to the world's names for it: the record of  *)
(* the DNS zone, which maps <prefix of the meta space> to the pages of the *)
(* publisher's owner, and the custom domain of the pages, which timers set *)
(* half a minute, five and ten minutes later. The zone and the pages are   *)
(* external; a publication, once done, reports success whatever they said. *)
(***************************************************************************)
EXTENDS Naturals, FiniteSets

CONSTANTS
    Spaces,             \* published sites
    OwnerOf,            \* the owner of each site's publisher repository
    PublisherOf,        \* GITHUB or GITEE
    Names,              \* prefixes
    NoName,
    Calls,              \* publications and timers in flight
    NoSpace,
    MaxRecords,         \* bound: records ever created; their ids are 1, 2, ...
    MaxPublications,    \* bound: publications
    MaxZoneFaults       \* bound: requests to the zone or to the pages that fail

ASSUME DomainsAssumption ==
    /\ PublisherOf \in [Spaces -> {"GITHUB", "GITEE"}]
    /\ DOMAIN OwnerOf = Spaces
    /\ NoName \notin Names /\ NoSpace \notin Spaces
    /\ {MaxRecords, MaxPublications, MaxZoneFaults} \subseteq Nat

VARIABLES
    prefix,         \* the column metaSpacePrefix of each site
    zone,           \* external: the CNAME records, by id
    page,           \* external: the GitHub pages of each site and their custom domain
    call,           \* what is in flight, with the config it was started with
    timers,         \* the timers of updateDomainName that have not fired, for a site and name
    recorded,       \* history: the name of the last publication that ended
    refused,        \* history: ... and whether the zone took it
    crossed,        \* history: two publications of the site were in flight at once, or a
                    \* timer of it while the record it had found was given another name
    publications, zoneFaults

domainVars ==
    <<prefix, zone, page, call, timers, recorded, refused, crossed, publications, zoneFaults>>

Records == [name: Names, content: {OwnerOf[s] : s \in Spaces}]

CallRow ==
    [pc: {"idle", "list", "patch", "post", "schedule", "health", "info", "create", "update"},
     space: Spaces \union {NoSpace}, name: Names \union {NoName},
     record: 0..MaxRecords,     \* the record to patch
     valid: BOOLEAN]            \* the health check has found the name

NoCall == [pc |-> "idle", space |-> NoSpace, name |-> NoName, record |-> 0, valid |-> FALSE]

\* Types of the rows, the records and the calls.
DomainsTypeOK ==
    /\ prefix \in [Spaces -> Names]
    /\ DOMAIN zone \subseteq 1..MaxRecords /\ \A i \in DOMAIN zone : zone[i] \in Records
    /\ page \in [Spaces -> [built: BOOLEAN, cname: Names \union {NoName}]]
    /\ call \in [Calls -> CallRow]
    /\ timers \in [Spaces -> [Names -> 0..(3 * MaxPublications)]]
    /\ recorded \in [Spaces -> Names \union {NoName}]
    /\ refused \in [Spaces -> BOOLEAN] /\ crossed \in [Spaces -> BOOLEAN]
    /\ publications \in 0..MaxPublications /\ zoneFaults \in 0..MaxZoneFaults

DomainsInit ==
    /\ prefix \in {p \in [Spaces -> Names] : \A s, u \in Spaces : p[s] = p[u] => s = u}
    /\ zone = <<>>
    /\ page = [s \in Spaces |-> [built |-> FALSE, cname |-> NoName]]
    /\ call = [k \in Calls |-> NoCall]
    /\ timers = [s \in Spaces |-> [n \in Names |-> 0]]
    /\ recorded = [s \in Spaces |-> NoName]
    /\ refused = [s \in Spaces |-> FALSE]
    /\ crossed = [s \in Spaces |-> FALSE]
    /\ publications = 0 /\ zoneFaults = 0

-----------------------------------------------------------------------------
(* Publications: updateDns. *)

GoOn(k, pc) == call' = [call EXCEPT ![k].pc = pc]

Publishing(s) == {k \in Calls : call[k].space = s /\ call[k].pc \in {"list", "patch", "post"}}

Updating(s) == \E k \in Calls : call[k].space = s /\ call[k].pc \in {"info", "update"}

Held(name) == \E i \in DOMAIN zone : zone[i].name = name

\* The user changes the prefix of a site; the column is unique.
EditPrefix(s, name) ==
    /\ \A u \in Spaces : prefix[u] # name
    /\ prefix' = [prefix EXCEPT ![s] = name]
    /\ UNCHANGED <<zone, page, call, timers, recorded, refused, crossed, publications, zoneFaults>>

\* updateDomain, at the end of a publication: the name is that of its config.
Publish(k, s) ==
    /\ call[k].pc = "idle" /\ publications < MaxPublications
    /\ publications' = publications + 1
    /\ call' = [call EXCEPT ![k] = [NoCall EXCEPT !.pc = "list", !.space = s, !.name = prefix[s]]]
    /\ crossed' = [crossed EXCEPT ![s] = @ \/ Publishing(s) # {}]
    /\ UNCHANGED <<prefix, zone, page, timers, recorded, refused, zoneFaults>>

\* updateDnsRecord lists the records by type and content, not by name.
Matching(s) == {i \in DOMAIN zone : zone[i].content = OwnerOf[s]}

\* Mutation: every publication posts a record.
ListRecords_NoLookup(k) ==
    /\ call[k].pc = "list"
    /\ GoOn(k, "post")
    /\ UNCHANGED <<prefix, zone, page, timers, recorded, refused, crossed, publications, zoneFaults>>

ListRecords(k) ==
    LET found == Matching(call[k].space) IN
    /\ call[k].pc = "list"
    /\ IF found = {} THEN GoOn(k, "post")
       ELSE \E i \in found : call' = [call EXCEPT ![k].pc = "patch", ![k].record = i]
    /\ UNCHANGED <<prefix, zone, page, timers, recorded, refused, crossed, publications, zoneFaults>>

\* The list request fails: updateDnsRecord throws, and the publication with it.
ListFails(k) ==
    /\ call[k].pc = "list" /\ zoneFaults < MaxZoneFaults
    /\ zoneFaults' = zoneFaults + 1
    /\ call' = [call EXCEPT ![k] = NoCall]
    /\ UNCHANGED <<prefix, zone, page, timers, recorded, refused, crossed, publications>>

Recorded(k, taken) ==
    /\ recorded' = [recorded EXCEPT ![call[k].space] = call[k].name]
    /\ refused' = [refused EXCEPT ![call[k].space] = ~taken]
    /\ GoOn(k, "schedule")

\* The first of the records is given the name, unless another one has it.
PatchRecord(k) ==
    LET c == call[k]
        taken == \A i \in DOMAIN zone \ {c.record} : zone[i].name # c.name IN
    /\ c.pc = "patch"
    /\ zone' = IF taken THEN [zone EXCEPT ![c.record].name = c.name] ELSE zone
    /\ Recorded(k, taken)
    /\ crossed' = [s \in Spaces |-> crossed[s] \/ (OwnerOf[s] = OwnerOf[c.space] /\ Updating(s))]
    /\ UNCHANGED <<prefix, page, timers, publications, zoneFaults>>

PostRecord(k) ==
    LET c == call[k]
        id == Cardinality(DOMAIN zone) + 1 IN
    /\ c.pc = "post"
    /\ ~Held(c.name) => id <= MaxRecords
    /\ zone' = IF Held(c.name) THEN zone
               ELSE [i \in 1..id |-> IF i = id THEN [name |-> c.name, content |-> OwnerOf[c.space]] ELSE zone[i]]
    /\ Recorded(k, ~Held(c.name))
    /\ UNCHANGED <<prefix, page, timers, crossed, publications, zoneFaults>>

\* PATCH or POST fails: the error is logged, and the publication goes on.
WriteFails(k) ==
    /\ call[k].pc \in {"patch", "post"} /\ zoneFaults < MaxZoneFaults
    /\ zoneFaults' = zoneFaults + 1
    /\ Recorded(k, FALSE)
    /\ UNCHANGED <<prefix, zone, page, timers, crossed, publications>>

-----------------------------------------------------------------------------
(* The domain of the pages: updateDomainName. *)

\* Mutation: and one more right away.
ScheduleUpdates_Now(k) ==
    LET c == call[k] IN
    /\ c.pc = "schedule"
    /\ timers' = IF PublisherOf[c.space] = "GITHUB"
                 THEN [timers EXCEPT ![c.space][c.name] = @ + 4] ELSE timers
    /\ call' = [call EXCEPT ![k] = NoCall]
    /\ UNCHANGED <<prefix, zone, page, recorded, refused, crossed, publications, zoneFaults>>

\* GitHubPublisherProvider starts three timers, GiteePublisherProvider does nothing.
ScheduleUpdates(k) ==
    LET c == call[k] IN
    /\ c.pc = "schedule"
    /\ timers' = IF PublisherOf[c.space] = "GITHUB"
                 THEN [timers EXCEPT ![c.space][c.name] = @ + 3] ELSE timers
    /\ call' = [call EXCEPT ![k] = NoCall]
    /\ UNCHANGED <<prefix, zone, page, recorded, refused, crossed, publications, zoneFaults>>

\* doUpdateDomainName, of the config it was scheduled with.
TimerFires(k, s, name) ==
    /\ call[k].pc = "idle" /\ timers[s][name] > 0
    /\ timers' = [timers EXCEPT ![s][name] = @ - 1]
    /\ call' = [call EXCEPT ![k] = [NoCall EXCEPT !.pc = "health", !.space = s, !.name = name]]
    /\ UNCHANGED <<prefix, zone, page, recorded, refused, crossed, publications, zoneFaults>>

Resolves(s, name) == \E i \in DOMAIN zone : zone[i].name = name /\ zone[i].content = OwnerOf[s]

\* The health check is of the repository: it answers with a domain that leads to the
\* pages, or with none; isDnsRecordValid is whether that is the one of the site.
CheckHealth(k) ==
    /\ call[k].pc = "health"
    /\ \E domain \in {name \in Names : Resolves(call[k].space, name)} \union {NoName} :
         call' = [call EXCEPT ![k].pc = "info", ![k].valid = (domain = call[k].name)]
    /\ UNCHANGED <<prefix, zone, page, timers, recorded, refused, crossed, publications, zoneFaults>>

\* The health check fails, before anything is known of the record.
HealthFails(k) ==
    /\ call[k].pc = "health" /\ zoneFaults < MaxZoneFaults
    /\ zoneFaults' = zoneFaults + 1
    /\ GoOn(k, "create")
    /\ UNCHANGED <<prefix, zone, page, timers, recorded, refused, crossed, publications>>

\* Mutation: whether the record is valid does not matter.
GetInfo_AnyRecord(k) ==
    /\ call[k].pc = "info"
    /\ GoOn(k, IF page[call[k].space].built THEN "update" ELSE "create")
    /\ UNCHANGED <<prefix, zone, page, timers, recorded, refused, crossed, publications, zoneFaults>>

\* getPagesSiteInfo throws if there are no pages yet.
GetInfo(k) ==
    LET c == call[k] IN
    /\ c.pc = "info"
    /\ call' = [call EXCEPT ![k] =
                  IF ~page[c.space].built THEN [c EXCEPT !.pc = "create"]
                  ELSE IF c.valid THEN [c EXCEPT !.pc = "update"] ELSE NoCall]
    /\ UNCHANGED <<prefix, zone, page, timers, recorded, refused, crossed, publications, zoneFaults>>

\* createPagesSite throws if there are pages; after it, the info is still missing,
\* so that a valid record makes the timer throw a TypeError. Both end the timer.
CreatePages(k) ==
    /\ call[k].pc = "create"
    /\ page' = [page EXCEPT ![call[k].space].built = TRUE]
    /\ call' = [call EXCEPT ![k] = NoCall]
    /\ UNCHANGED <<prefix, zone, timers, recorded, refused, crossed, publications, zoneFaults>>

UpdatePages(k) ==
    /\ call[k].pc = "update"
    /\ page' = [page EXCEPT ![call[k].space].cname = call[k].name]
    /\ call' = [call EXCEPT ![k] = NoCall]
    /\ UNCHANGED <<prefix, zone, timers, recorded, refused, crossed, publications, zoneFaults>>

\* The timers and what is in flight are lost with the process.
DomainsRestart ==
    /\ zoneFaults < MaxZoneFaults
    /\ zoneFaults' = zoneFaults + 1
    /\ call' = [k \in Calls |-> NoCall]
    /\ timers' = [s \in Spaces |-> [n \in Names |-> 0]]
    /\ UNCHANGED <<prefix, zone, page, recorded, refused, crossed, publications>>

CallStep(k) ==
    \/ ListRecords(k) \/ ListFails(k) \/ PatchRecord(k) \/ PostRecord(k) \/ WriteFails(k)
    \/ ScheduleUpdates(k) \/ CheckHealth(k) \/ HealthFails(k) \/ GetInfo(k)
    \/ CreatePages(k) \/ UpdatePages(k)

DomainsNext ==
    \/ \E s \in Spaces, name \in Names : EditPrefix(s, name)
    \/ \E k \in Calls, s \in Spaces :
          \/ Publish(k, s)
          \/ \E name \in Names : TimerFires(k, s, name)
    \/ \E k \in Calls : CallStep(k)
    \/ DomainsRestart

DomainsSpec == DomainsInit /\ [][DomainsNext]_domainVars

-----------------------------------------------------------------------------
(* Properties. *)

OnlySpaceOfOwner(s) == \A u \in Spaces \ {s} : OwnerOf[u] # OwnerOf[s]

\* The zone has one record for a published site, of the name it was published last
\* with, however often it was renamed in between: the old name is given up. This is
\* of a site whose owner has no other, for the record is looked up by the owner
\* alone; of a name the zone has taken, for a refusal is not reported; and of
\* publications one after the other, for the lookup and the write are two requests.
RecordFollowsSite ==
    \A s \in Spaces :
        recorded[s] # NoName /\ OnlySpaceOfOwner(s) /\ ~refused[s] /\ ~crossed[s] =>
            {zone[i].name : i \in Matching(s)} = {recorded[s]}

\* The custom domain of the pages is set only to a name that leads to them, not to an
\* older name that a late timer carries or to one that the zone has refused, unless a
\* publication has renamed the record since the timer checked it.
CnameLeadsToPages ==
    [][\A s \in Spaces :
          page'[s].cname # page[s].cname => Resolves(s, page'[s].cname) \/ crossed[s]]_domainVars
=============================================================================
