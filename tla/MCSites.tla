------------------------------- MODULE MCSites --------------------------------
(***************************************************************************)
(* The rows of sites, and the names of published sites in the world. They  *)
(* share no state, so a behaviour is about one of them; the subject also   *)
(* picks the rows and the requests of the small instance.                  *)
(***************************************************************************)
EXTENDS SiteConfigStore, SiteDomains, TLC

CONSTANTS i1, c1, c2, r1, r2, gs, es, gp, ep, d1, d2, o1, o2, k1, k2

MCTableOf ==
    gs :> GitHubStorage @@ es :> GiteeStorage @@ gp :> GitHubPublisher @@ ep :> GiteePublisher

\* Bodies without providers, and with one: of an id, or with a type or an id alone.
MCBody(pre, other, kind, column) ==
    [prefix |-> pre, other |-> other,
     provider |-> [k \in Kinds |-> IF k = kind THEN column ELSE NoId]]

MCBodies ==
    {MCBody(pre, other, "storage", NoId) : pre \in Prefixes, other \in BOOLEAN} \union
    {MCBody(pre, FALSE, "storage", column) : pre \in Prefixes, column \in {gs, OnlyType, OnlyId}} \union
    {MCBody(pre, FALSE, "publisher", column) : pre \in Prefixes, column \in {gp, OnlyType, OnlyId}}

MCOwnerOf == d1 :> o1 @@ d2 :> o2

MCPublisherOf == d1 :> "GITHUB" @@ d2 :> "GITEE"

VARIABLE subject

Init ==
    /\ subject \in {"rows", "storages", "publishers", "interruptions", "domains"}
    /\ StoreInit
    /\ DomainsInit

Next ==
    \/ subject # "domains" /\ StoreNext /\ UNCHANGED <<domainVars, subject>>
    \/ subject = "domains" /\ DomainsNext /\ UNCHANGED <<storeVars, subject>>

Spec == Init /\ [][Next]_<<storeVars, domainVars, subject>>

\* Types of all of the variables.
TypeOK == StoreTypeOK /\ DomainsTypeOK

-----------------------------------------------------------------------------
(* The instances. *)

BeganWith(ops) == \A r \in Requests : request[r].op \in ops \union {"none"}

ProviderOps == {"create", "update", "delete"}

RowsInMemory == {config[c] : c \in Configs} \union {request[r].seen : r \in Requests}

\* Two configs of a site info, and no provider.
RowsOnly ==
    /\ BeganWith({"edit", "createConfig", "deleteConfig", "editInfo", "deleteInfo", "status"})
    /\ \A row \in RowsInMemory : row \notin Gone => \A k \in Kinds : row.provider[k] = NoId
    /\ storeFaults = 0

\* Providers of one kind.
OfKind(kind) ==
    /\ \A row \in RowsInMemory : row \notin Gone => \A k \in Kinds \ {kind} : row.provider[k] = NoId
    /\ \A r \in Requests : request[r].op \in ProviderOps => request[r].table[1] = kind

\* One config, and two requests at once.
OneConfig(kind) ==
    /\ config[c2] = Unused
    /\ \A row \in RowsInMemory : row \notin Gone => row.prefix = "a" /\ ~row.other
    /\ BeganWith(ProviderOps \union {"createConfig", "deleteConfig", "status"})
    /\ \A r \in Requests : request[r].op = "createConfig" => config[c1] = Unused
    /\ OfKind(kind) /\ storeFaults = 0

\* Two configs that began with no provider, one request after the other, and one of
\* them is interrupted.
OneAfterTheOther(kind) ==
    /\ \A row \in RowsInMemory : row \notin Gone => ~row.other
    /\ \A r \in Requests : request[r].op = "createConfig" =>
         /\ request[r].seen.provider[kind] = NoId
         /\ request[r].seen.prefix = "a" <=> \A c \in Configs : config[c] = Unused
    /\ BeganWith(ProviderOps \union {"edit", "createConfig", "deleteConfig"})
    /\ OfKind(kind) /\ Cardinality({r \in Requests : request[r].pc # "idle"}) <= 1

Instance ==
    CASE subject = "rows"          -> RowsOnly
      [] subject = "storages"      -> OneConfig("storage")
      [] subject = "publishers"    -> OneConfig("publisher")
      [] subject = "interruptions" -> OneAfterTheOther("publisher")
      [] subject = "domains"       -> TRUE

MCSymmetry == Permutations(Requests) \union Permutations(Calls)
=============================================================================
