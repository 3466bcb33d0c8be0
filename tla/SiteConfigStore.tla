--------------------------- MODULE SiteConfigStore ---------------------------
(***************************************************************************)
(* The rows of sites: site infos, site configs, and the storage and        *)
(* publisher providers a config names, as the user's requests and the      *)
(* writers of the status change them. Every statement is a transaction of  *)
(* its own; a request is a sequence of them over rows it has read before.  *)
(* A save writes back the whole row: TypeORM's merge and save make the row *)
(* what it was in memory, and insert it again if it has been deleted.      *)
(***************************************************************************)
EXTENDS Naturals, FiniteSets

CONSTANTS
    Infos, Configs, Providers,  \* ids of rows; the database gives none of them twice
    TableOf,                    \* the table of each provider id
    Prefixes,                   \* values of the unique column metaSpacePrefix
    Bodies,                     \* bodies of POST site/config
    Requests,                   \* requests in flight
    NoId,                       \* null
    OnlyType, OnlyId,           \* a type without an id, and an id without a type
    Unused, Deleted,            \* a row not inserted yet, and a deleted one
    MaxStoreFaults              \* bound: requests that end before their last statement

Kinds == {"storage", "publisher"}

GitHubStorage   == <<"storage", "GITHUB">>
GiteeStorage    == <<"storage", "GITEE">>
GitHubPublisher == <<"publisher", "GITHUB">>
GiteePublisher  == <<"publisher", "GITEE">>
Tables == {GitHubStorage, GiteeStorage, GitHubPublisher, GiteePublisher}

\* Values of the two columns of a kind of provider, its type and its id.
Columns == Providers \union {NoId, OnlyType, OnlyId}

\* A row of site_info_entity, or of a provider: only its existence matters here.
Rows == {Unused, Deleted, "stored"}

\* A row of site_config_entity; other: a column of a cdn or of a cicd is set. The
\* columns left out, the status among them, are read, merged and saved with these.
ConfigRow == [info: Infos \union {NoId}, prefix: Prefixes, provider: [Kinds -> Columns], other: BOOLEAN]

\* The body of a POST stores what it says, whether the provider exists or not. A
\* number and a type are an id of the table of that type.
BodyFits(body) ==
    /\ body \in [prefix: Prefixes, provider: [Kinds -> Columns], other: BOOLEAN]
    /\ \A k \in Kinds : body.provider[k] \in Providers => TableOf[body.provider[k]][1] = k

ASSUME StoreAssumption ==
    /\ NoId \notin Infos \union Configs
    /\ {NoId, OnlyType, OnlyId} \intersect Providers = {}
    /\ NoId # OnlyType /\ NoId # OnlyId /\ OnlyType # OnlyId
    /\ TableOf \in [Providers -> Tables]
    /\ \A body \in Bodies : BodyFits(body)
    /\ Unused # Deleted /\ {Unused, Deleted} \intersect ({"stored"} \union ConfigRow) = {}
    /\ MaxStoreFaults \in Nat

VARIABLES
    info, config, provider,  \* the rows
    request,                 \* the requests in flight, with what they have read
    adopted,                 \* history: providers that a row has come to name without the
                             \* request that created them
    abandoned,               \* history: providers that a row was deprived of, or a request
                             \* ended with, or that were inserted again
    storeFaults

storeVars == <<info, config, provider, request, adopted, abandoned, storeFaults>>

Gone == {Unused, Deleted}

RequestRow ==
    [op: {"none", "create", "update", "delete", "edit", "status",
          "createConfig", "deleteConfig", "editInfo", "deleteInfo"},
     pc: {"idle", "insertProvider", "reread", "saveConfig", "findProvider", "saveProvider",
          "removeProvider", "countPrefix", "insertConfig", "removeConfig", "saveInfo", "removeInfo"},
     info: Infos \union {NoId}, config: Configs \union {NoId}, provider: Providers \union {NoId},
     table: Tables, seen: ConfigRow \union Gone]

NoRequest ==
    [op |-> "none", pc |-> "idle", info |-> NoId, config |-> NoId, provider |-> NoId,
     table |-> GitHubStorage, seen |-> Unused]

\* Types of the columns and of the requests.
StoreTypeOK ==
    /\ info \in [Infos -> Rows]
    /\ config \in [Configs -> ConfigRow \union Gone]
    /\ provider \in [Providers -> Rows]
    /\ request \in [Requests -> RequestRow]
    /\ adopted \subseteq Providers /\ abandoned \subseteq Providers
    /\ storeFaults \in Nat

StoreInit ==
    /\ info = [i \in Infos |-> Unused]
    /\ config = [c \in Configs |-> Unused]
    /\ provider = [p \in Providers |-> Unused]
    /\ request = [r \in Requests |-> NoRequest]
    /\ adopted = {} /\ abandoned = {}
    /\ storeFaults = 0

-----------------------------------------------------------------------------
(* Requests and the rows they have read. *)

Begin(r, fields) ==
    /\ request[r].pc = "idle"
    /\ request' = [request EXCEPT ![r] = fields]

Continue(r, next) == request' = [request EXCEPT ![r].pc = next]

\* The handler returns or throws.
Return(r) == request' = [request EXCEPT ![r] = NoRequest]

Stored(c) == config[c] \notin Gone

\* validateSiteConfigUserId: the row exists, and it has an owner.
Found(c) == Stored(c) /\ config[c].info # NoId

\* The providers a row names.
Named(row) == {p \in Providers : \E k \in Kinds : row \notin Gone /\ row.provider[k] = p}

\* The provider that only the request knows of: created and not in the config yet,
\* or out of the config and not deleted yet.
HeldBy(q) ==
    {p \in Providers :
        /\ p = q.provider
        /\ q.op = "create" \/ (q.op = "delete" /\ q.pc \in {"findProvider", "removeProvider"})}

Abandon(providers) == abandoned' = abandoned \union providers

\* "storage type not found", "provider id not found": what a request to a table
\* of providers asks of the config before it updates or deletes.
Uses(row, table) ==
    /\ row.provider[table[1]] \in Providers
    /\ TableOf[row.provider[table[1]]] = table

\* A second storage is refused if it is of the same type,
StorageConflict(row, table) == Uses(row, table)

\* Mutation: there may be two publishers.
PublisherConflict_Never(row) == FALSE

\* a second publisher if there is an id, whatever its type.
PublisherConflict(row) == row.provider["publisher"] \in Providers \union {OnlyId}

Conflict(row, table) ==
    IF table[1] = "storage" THEN StorageConflict(row, table) ELSE PublisherConflict(row)

PrefixTaken(prefix, c) == \E d \in Configs \ {c} : Stored(d) /\ config[d].prefix = prefix

\* The unique index on metaSpacePrefix and the foreign key siteInfoId.
Admissible(c, row) ==
    /\ ~PrefixTaken(row.prefix, c)
    /\ row.info # NoId => info[row.info] = "stored"

\* SiteConfigBaseService.update with the row as it is in memory: it is written,
\* or the database refuses it and nothing changes.
SaveRow(r, c, row) ==
    IF Admissible(c, row)
    THEN /\ config' = [config EXCEPT ![c] = row]
         /\ adopted' = adopted \union (Named(row) \ (Named(config[c]) \union HeldBy(request[r])))
         /\ Abandon(Named(config[c]) \ (Named(row) \union Named(request[r].seen)))
    ELSE UNCHANGED <<config, adopted>> /\ Abandon(HeldBy(request[r]))

-----------------------------------------------------------------------------
(* Site infos. *)

\* createSiteInfo: one insert.
CreateInfo(i) ==
    /\ info[i] = Unused
    /\ info' = [info EXCEPT ![i] = "stored"]
    /\ UNCHANGED <<config, provider, request, adopted, abandoned, storeFaults>>

\* updateSiteInfo and deleteSiteInfo read the row, the latter with its configs.
ReadInfo(r, i, op) ==
    /\ info[i] = "stored"
    /\ op = "deleteInfo" => \A c \in Configs : Stored(c) => config[c].info # i
    /\ Begin(r, [NoRequest EXCEPT !.op = op, !.info = i,
                   !.pc = IF op = "editInfo" THEN "saveInfo" ELSE "removeInfo"])
    /\ UNCHANGED <<info, config, provider, adopted, abandoned, storeFaults>>

\* SiteInfoBaseService.update: a row deleted in between comes back. The body of the
\* PATCH may carry an id, which the merge copies: the save is one of that row.
SaveInfo(r) ==
    /\ request[r].pc = "saveInfo"
    /\ \E i \in Infos : info' = [info EXCEPT ![i] = "stored"]
    /\ Return(r)
    /\ UNCHANGED <<config, provider, adopted, abandoned, storeFaults>>

\* SiteInfoBaseService.delete: the foreign key of a config created in between
\* makes it throw.
RemoveInfo(r) ==
    LET i == request[r].info IN
    /\ request[r].pc = "removeInfo"
    /\ info' = IF \E c \in Configs : Stored(c) /\ config[c].info = i
               THEN info ELSE [info EXCEPT ![i] = Deleted]
    /\ Return(r)
    /\ UNCHANGED <<config, provider, adopted, abandoned, storeFaults>>

\* PATCH and DELETE site/info.
InfoRequest(r) ==
    \E i \in Infos, op \in {"editInfo", "deleteInfo"} : ReadInfo(r, i, op)

-----------------------------------------------------------------------------
(* Site configs. *)

\* createSiteConfig: validateSiteInfoUserId, then checkPrefixIsExists. The row is
\* the body, the types and the ids of providers included.
ReadForConfig(r, i, body) ==
    /\ info[i] = "stored"
    /\ Begin(r, [NoRequest EXCEPT !.op = "createConfig", !.pc = "countPrefix", !.info = i,
                   !.seen = [info |-> i, prefix |-> body.prefix, provider |-> body.provider,
                             other |-> body.other]])
    /\ UNCHANGED <<info, config, provider, adopted, abandoned, storeFaults>>

CountPrefix(r) ==
    /\ request[r].pc = "countPrefix"
    /\ IF PrefixTaken(request[r].seen.prefix, NoId) THEN Return(r) ELSE Continue(r, "insertConfig")
    /\ UNCHANGED <<info, config, provider, adopted, abandoned, storeFaults>>

\* SiteConfigBaseService.create: the index refuses what the count let pass.
InsertConfig(r) ==
    /\ request[r].pc = "insertConfig"
    /\ \E c \in Configs : config[c] = Unused /\ SaveRow(r, c, request[r].seen)
    /\ Return(r)
    /\ UNCHANGED <<info, provider, storeFaults>>

\* readOne, the first statement of every request to a config.
ReadConfig(r, c, fields) ==
    /\ Begin(r, [fields EXCEPT !.config = c, !.seen = config[c]])
    /\ UNCHANGED <<info, config, provider, adopted, abandoned, storeFaults>>

\* updateSiteConfig.
ReadForEdit(r, c) ==
    /\ Found(c)
    /\ ReadConfig(r, c, [NoRequest EXCEPT !.op = "edit", !.pc = "saveConfig"])

\* deleteSiteConfig: checkConfigIsDeletable, no type and no id may be set.
ReadForDelete(r, c) ==
    /\ Found(c)
    /\ ~config[c].other /\ \A k \in Kinds : config[c].provider[k] = NoId
    /\ ReadConfig(r, c, [NoRequest EXCEPT !.op = "deleteConfig", !.pc = "removeConfig"])

\* SiteConfigBaseService.delete, by the id alone.
RemoveConfig(r) ==
    LET c == request[r].config IN
    /\ request[r].pc = "removeConfig"
    /\ config' = [config EXCEPT ![c] = Deleted]
    /\ Abandon(Named(config[c]))
    /\ Return(r)
    /\ UNCHANGED <<info, provider, adopted, storeFaults>>

\* POST, PATCH and DELETE site/config.
ConfigRequest(r) ==
    \/ \E i \in Infos, body \in Bodies : ReadForConfig(r, i, body)
    \/ \E c \in Configs : ReadForEdit(r, c) \/ ReadForDelete(r, c)

\* updateSiteConfigStatus and setPublished, called by the pipeline, ask for no owner.
ReadForStatus(r, c) ==
    /\ Stored(c)
    /\ ReadConfig(r, c, [NoRequest EXCEPT !.op = "status", !.pc = "saveConfig"])

\* Mutation: an edit sets a column of the user's to null.
Edited_Null(row) == {[row EXCEPT !.prefix = NoId]}

\* What is saved. An edit carries none of the columns of userNotWritableProps; a
\* status writer carries the row it read, without the site info, so that a row that
\* is inserted again has none; requests to a provider carry the row they read
\* first, with the provider set or cleared.
Edited(row) == {[row EXCEPT !.prefix = prefix] : prefix \in Prefixes}

WithStatus(row, c) == {[row EXCEPT !.info = IF Stored(c) THEN config[c].info ELSE NoId]}

WithProvider(row, kind, p) == {[row EXCEPT !.provider[kind] = p]}

RowsToSave(r) ==
    LET q == request[r] IN
    CASE q.op = "edit"   -> Edited(q.seen)
      [] q.op = "status" -> WithStatus(q.seen, q.config)
      [] q.op = "create" -> WithProvider(q.seen, q.table[1], q.provider)
      [] q.op = "delete" -> WithProvider(q.seen, q.table[1], NoId)
      [] OTHER           -> {}

\* The merge copies the id of a body, which userNotWritableProps leaves in an edit:
\* the row that was read is saved over that of any other id.
Targets(q) == IF q.op = "edit" THEN Configs ELSE {q.config}

\* SiteConfigBaseService.update: merge into the row the request has read, save. A
\* request that deletes a provider goes on unless the save threw.
SaveConfig(r) ==
    /\ request[r].pc = "saveConfig"
    /\ \E row \in RowsToSave(r), c \in Targets(request[r]) :
         /\ SaveRow(r, c, row)
         /\ IF request[r].op = "delete" /\ Admissible(c, row)
            THEN Continue(r, "findProvider") ELSE Return(r)
    /\ UNCHANGED <<info, provider, storeFaults>>

-----------------------------------------------------------------------------
(* Providers: the same three requests for four tables. *)

\* createStorageConfig, createPublisherConfig: read the config, insert the
\* provider, read the config again, save it with the provider.
ReadForCreate(r, c, table) ==
    /\ Found(c) /\ ~Conflict(config[c], table)
    /\ ReadConfig(r, c, [NoRequest EXCEPT !.op = "create", !.pc = "insertProvider", !.table = table])

InsertProvider(r) ==
    /\ request[r].pc = "insertProvider"
    /\ \E p \in Providers :
         /\ provider[p] = Unused /\ TableOf[p] = request[r].table
         /\ provider' = [provider EXCEPT ![p] = "stored"]
         /\ request' = [request EXCEPT ![r].pc = "reread", ![r].provider = p]
    /\ UNCHANGED <<info, config, adopted, abandoned, storeFaults>>

\* updateSiteConfig: validateSiteConfigUserId once more; of what it reads only
\* the existence counts, the first row is saved over it.
RereadConfig(r) ==
    LET c == request[r].config IN
    /\ request[r].pc = "reread"
    /\ IF Found(c)
       THEN Continue(r, "saveConfig") /\ UNCHANGED abandoned
       ELSE Return(r) /\ Abandon(HeldBy(request[r]))
    /\ UNCHANGED <<info, config, provider, adopted, storeFaults>>

\* updateStorageConfig, updatePublisherConfig: read the config, read the provider
\* it names, save the provider.
ReadForUpdate(r, c, table) ==
    /\ Found(c) /\ Uses(config[c], table)
    /\ ReadConfig(r, c, [NoRequest EXCEPT !.op = "update", !.pc = "findProvider",
                           !.table = table, !.provider = config[c].provider[table[1]]])

\* Mutation: the provider is deleted before the config forgets it.
ReadForRemove_ProviderFirst(r, c, table) ==
    /\ Found(c) /\ Uses(config[c], table)
    /\ ReadConfig(r, c, [NoRequest EXCEPT !.op = "delete", !.pc = "findProvider",
                           !.table = table, !.provider = config[c].provider[table[1]]])

\* deleteStorageConfig, deletePublisherConfig: read the config, save it without
\* the provider, read the provider, delete it.
ReadForRemove(r, c, table) ==
    /\ Found(c) /\ Uses(config[c], table)
    /\ ReadConfig(r, c, [NoRequest EXCEPT !.op = "delete", !.pc = "reread",
                           !.table = table, !.provider = config[c].provider[table[1]]])

\* The provider is missing only if another request has deleted it.
FindProvider(r) ==
    LET q == request[r] IN
    /\ q.pc = "findProvider"
    /\ CASE provider[q.provider] # "stored" -> Return(r)
         [] provider[q.provider] = "stored" /\ q.op = "update" -> Continue(r, "saveProvider")
         [] OTHER -> Continue(r, "removeProvider")
    /\ UNCHANGED <<info, config, provider, adopted, abandoned, storeFaults>>

\* A provider deleted in between comes back. Here too the body may carry an id: the
\* row that is saved is then another of the table.
SaveProvider(r) ==
    LET q == request[r] IN
    /\ q.pc = "saveProvider"
    /\ \E p \in Providers :
         /\ TableOf[p] = q.table
         /\ provider' = [provider EXCEPT ![p] = "stored"]
         /\ Abandon(IF provider[p] = "stored" THEN {} ELSE {p})
    /\ Return(r)
    /\ UNCHANGED <<info, config, adopted, storeFaults>>

RemoveProvider(r) ==
    /\ request[r].pc = "removeProvider"
    /\ provider' = [provider EXCEPT ![request[r].provider] = Deleted]
    /\ Return(r)
    /\ UNCHANGED <<info, config, adopted, abandoned, storeFaults>>

\* The endpoints of one table, and its statements.
ProviderRequest(r, table) ==
    \E c \in Configs : ReadForCreate(r, c, table) \/ ReadForUpdate(r, c, table) \/ ReadForRemove(r, c, table)

ProviderStatement(r, table) ==
    /\ request[r].table = table
    /\ InsertProvider(r) \/ FindProvider(r) \/ SaveProvider(r) \/ RemoveProvider(r)

GitHubStorageRequest(r)   == ProviderRequest(r, GitHubStorage)
GiteeStorageRequest(r)    == ProviderRequest(r, GiteeStorage)
GitHubPublisherRequest(r) == ProviderRequest(r, GitHubPublisher)
GiteePublisherRequest(r)  == ProviderRequest(r, GiteePublisher)

GitHubStorageStatement(r)   == ProviderStatement(r, GitHubStorage)
GiteeStorageStatement(r)    == ProviderStatement(r, GiteeStorage)
GitHubPublisherStatement(r) == ProviderStatement(r, GitHubPublisher)
GiteePublisherStatement(r)  == ProviderStatement(r, GiteePublisher)

-----------------------------------------------------------------------------
\* A statement throws, or the backend is restarted: the request ends with what
\* it has written so far.
Interrupted(r) ==
    /\ request[r].pc # "idle"
    /\ storeFaults < MaxStoreFaults
    /\ storeFaults' = storeFaults + 1
    /\ Abandon(HeldBy(request[r]))
    /\ Return(r)
    /\ UNCHANGED <<info, config, provider, adopted>>

StoreStep(r) ==
    \/ InfoRequest(r) \/ SaveInfo(r) \/ RemoveInfo(r)
    \/ ConfigRequest(r) \/ CountPrefix(r) \/ InsertConfig(r) \/ RemoveConfig(r)
    \/ RereadConfig(r) \/ SaveConfig(r)
    \/ \E c \in Configs : ReadForStatus(r, c)
    \/ GitHubStorageRequest(r) \/ GiteeStorageRequest(r)
    \/ GitHubPublisherRequest(r) \/ GiteePublisherRequest(r)
    \/ GitHubStorageStatement(r) \/ GiteeStorageStatement(r)
    \/ GitHubPublisherStatement(r) \/ GiteePublisherStatement(r)
    \/ Interrupted(r)

StoreNext == (\E i \in Infos : CreateInfo(i)) \/ \E r \in Requests : StoreStep(r)

StoreSpec == StoreInit /\ [][StoreNext]_storeVars

-----------------------------------------------------------------------------
(* Properties. *)

\* A config names only providers that exist, however the requests over its row
\* overlap and whichever statement is their last: the provider is inserted before
\* the config names it, and deleted after the config has forgotten it. The exception
\* is a provider that a save has put into a row that did not name it: a row that was
\* read before the provider was deleted, or was read under another id, or the body
\* of a POST.
NamedProviderExists ==
    \A c \in Configs : \A p \in Named(config[c]) : p \notin adopted => provider[p] = "stored"

\* A publisher that no config names is between two statements of a request that
\* creates or deletes it, or has been abandoned at one of five places: by a save of
\* a row that was read before the row named it, by the deletion of its config, by the
\* end of the request that was to name or to delete it, or by an update that has
\* inserted it again. (A storage may also be forgotten by the creation of a storage
\* of the other type.)
NoForgottenPublisher ==
    \A p \in Providers :
        provider[p] = "stored" /\ TableOf[p][1] = "publisher" =>
            \/ \E c \in Configs : p \in Named(config[c])
            \/ \E r \in Requests : p \in HeldBy(request[r])
            \/ p \in abandoned
=============================================================================
