---------------------------- MODULE Synchronizer -----------------------------
(***************************************************************************)
(* The import of posts from other platforms: the access tokens of a user,  *)
(* kept by events of another service, and the Redis key by which the       *)
(* endpoints and the spider agree whether a synchronization is running. A  *)
(* request reads the key, and writes it without looking again.             *)
(***************************************************************************)
EXTENDS Naturals, FiniteSets

CONSTANTS
    Accounts,       \* pairs of a user and a platform
    Triggers,       \* requests to post/sync/:platform
    Polls,          \* requests to post/sync/:platform/state
    Connections,    \* of the pool of the database
    MaxSyncs,       \* bound: synchronizations triggered
    MaxBindings     \* bound: events of the account service

ASSUME SynchronizerAssumption == MaxSyncs \in Nat /\ MaxBindings \in Nat

VARIABLES
    token,          \* AccessTokenEntity: unique for each account
    pooled,         \* external: what a connection left in a transaction sees
    syncKey,        \* cms:post:sync_state:<platform>:<user>
    spiders,        \* external: spiders running for each account
    trigger, poll,
    syncs, bindings,
    races           \* history: how often the key has let two synchronizations overlap

synchronizerVars ==
    <<token, pooled, syncKey, spiders, trigger, poll, syncs, bindings,
      races>>

TokenTables == [Accounts -> {"none", "inactive", "active"}]

\* A connection is closed to nothing, or in a transaction that has read nothing
\* yet, or in one that still sees the rows of its first read.
Pooled == [Connections -> {[mode |-> "clean"]} \union [mode: {"snapshot"}, table: TokenTables]]

\* Types of the tokens, the key and the requests.
SynchronizerTypeOK ==
    /\ token \in TokenTables
    /\ pooled \in Pooled
    /\ syncKey \in [Accounts -> {"absent", "syncing", "count"}]
    /\ spiders \in [Accounts -> Nat]
    /\ trigger \in [Triggers -> [pc: {"idle", "token", "get", "set", "emit", "refused"}, account: Accounts]]
    /\ poll \in [Polls -> [pc: {"idle", "del"}, account: Accounts]]
    /\ syncs \in 0..MaxSyncs /\ bindings \in 0..MaxBindings
    /\ races \in [Accounts -> Nat]

SynchronizerInit ==
    /\ token = [a \in Accounts |-> "none"]
    /\ pooled = [c \in Connections |-> [mode |-> "clean"]]
    /\ syncKey = [a \in Accounts |-> "absent"]
    /\ spiders = [a \in Accounts |-> 0]
    /\ \E a \in Accounts :
          /\ trigger = [r \in Triggers |-> [pc |-> "idle", account |-> a]]
          /\ poll = [r \in Polls |-> [pc |-> "idle", account |-> a]]
    /\ syncs = 0 /\ bindings = 0
    /\ races = [a \in Accounts |-> 0]

-----------------------------------------------------------------------------
(* Access tokens. Each operation takes a connection, starts a transaction on *)
(* it and ends it, which ends one that was left open too.                    *)

Clean(c) == pooled' = [pooled EXCEPT ![c] = [mode |-> "clean"]]

Event == bindings < MaxBindings /\ bindings' = bindings + 1

\* user.socialauth.bound: save. The index refuses a second token of the account,
\* and the transaction is rolled back.
BindAccount(a, c) ==
    /\ Event
    /\ token' = IF token[a] = "none" THEN [token EXCEPT ![a] = "inactive"] ELSE token
    /\ Clean(c)
    /\ UNCHANGED <<syncKey, spiders, trigger, poll, syncs, races>>

\* user.socialauth.unbound: remove. If there is none it returns between the start
\* of the transaction and its end, and the connection goes back as it is.
UnbindAccount(a, c) ==
    /\ Event
    /\ token' = [token EXCEPT ![a] = "none"]
    /\ IF token[a] = "none"
       THEN pooled' = [pooled EXCEPT ![c] = [mode |-> "snapshot", table |-> token]]
       ELSE Clean(c)
    /\ UNCHANGED <<syncKey, spiders, trigger, poll, syncs, races>>

\* updateActive, for enable_sync and disable_sync: a missing token is an error, and
\* rolled back.
SetTokenActive(a, c, active) ==
    /\ token' = IF token[a] = "none" THEN token ELSE [token EXCEPT ![a] = active]
    /\ Clean(c)
    /\ UNCHANGED <<syncKey, spiders, trigger, poll, syncs, bindings, races>>

\* What a read outside of a transaction sees.
Seen(c) == IF pooled[c].mode = "snapshot" THEN pooled[c].table ELSE token

\* hasAny.
HasToken(a, c) == Seen(c)[a] # "none"

-----------------------------------------------------------------------------
(* Requests. *)

SetTrigger(r, pc) == trigger' = [trigger EXCEPT ![r].pc = pc]

TriggerSync(r, a) ==
    /\ trigger[r].pc \in {"idle", "refused"}
    /\ trigger' = [trigger EXCEPT ![r] = [pc |-> "token", account |-> a]]
    /\ UNCHANGED <<token, pooled, syncKey, spiders, poll, syncs, bindings, races>>

CheckToken(r, c) ==
    /\ trigger[r].pc = "token"
    /\ SetTrigger(r, IF HasToken(trigger[r].account, c) THEN "get" ELSE "refused")
    /\ UNCHANGED <<token, pooled, syncKey, spiders, poll, syncs, bindings, races>>

Passed(a) == {r \in Triggers : trigger[r].pc \in {"set", "emit"} /\ trigger[r].account = a}

\* Mutation: the state is read and not looked at.
MayTrigger_Any(state) == TRUE

MayTrigger(state) == state # "syncing"

Raced(a, overlaps) == races' = IF overlaps THEN [races EXCEPT ![a] = @ + 1] ELSE races

\* The state must not be syncing; a count nobody has read does not matter. Two
\* requests overlap when one passes before the spider of the other runs.
GetState(r) ==
    LET a == trigger[r].account IN
    /\ trigger[r].pc = "get"
    /\ SetTrigger(r, IF MayTrigger(syncKey[a]) THEN "set" ELSE "idle")
    /\ Raced(a, MayTrigger(syncKey[a]) /\ Passed(a) # {})
    /\ UNCHANGED <<token, pooled, syncKey, spiders, poll, syncs, bindings>>

SetSyncing(r) ==
    LET a == trigger[r].account IN
    /\ trigger[r].pc = "set"
    /\ syncKey' = [syncKey EXCEPT ![a] = "syncing"]
    /\ SetTrigger(r, "emit")
    /\ UNCHANGED <<token, pooled, spiders, poll, syncs, bindings, races>>

\* emit; the spider runs.
EmitSync(r) ==
    LET a == trigger[r].account IN
    /\ trigger[r].pc = "emit" /\ syncs < MaxSyncs
    /\ syncs' = syncs + 1
    /\ spiders' = [spiders EXCEPT ![a] = @ + 1]
    /\ SetTrigger(r, "idle")
    /\ UNCHANGED <<token, pooled, syncKey, poll, bindings, races>>

\* A spider ends, and writes how many posts it has found.
EndSpider(a) ==
    /\ spiders[a] > 0
    /\ spiders' = [spiders EXCEPT ![a] = @ - 1]
    /\ syncKey' = [syncKey EXCEPT ![a] = "count"]
    /\ UNCHANGED <<token, pooled, trigger, poll, syncs, bindings, races>>

\* The minute is over, and the spider is not, or has never run.
ExpireSyncing(a) ==
    /\ syncKey[a] = "syncing"
    /\ syncKey' = [syncKey EXCEPT ![a] = "absent"]
    /\ Raced(a, TRUE)
    /\ UNCHANGED <<token, pooled, spiders, trigger, poll, syncs, bindings>>

\* getSyncState: idle, syncing, or a count,
PollState(r, a) ==
    /\ poll[r].pc = "idle" /\ syncKey[a] = "count"
    /\ poll' = [poll EXCEPT ![r] = [pc |-> "del", account |-> a]]
    /\ UNCHANGED <<token, pooled, syncKey, spiders, trigger, syncs, bindings, races>>

\* which is deleted, whatever the key holds by then, and returned.
DeleteState(r) ==
    LET a == poll[r].account IN
    /\ poll[r].pc = "del"
    /\ syncKey' = [syncKey EXCEPT ![a] = "absent"]
    /\ poll' = [poll EXCEPT ![r].pc = "idle"]
    /\ Raced(a, syncKey[a] = "syncing")
    /\ UNCHANGED <<token, pooled, spiders, trigger, syncs, bindings>>

TriggerStep(r) ==
    \/ \E a \in Accounts : TriggerSync(r, a)
    \/ \E c \in Connections : CheckToken(r, c)
    \/ GetState(r) \/ SetSyncing(r) \/ EmitSync(r)

AccountStep(a) ==
    \/ \E c \in Connections :
          \/ BindAccount(a, c) \/ UnbindAccount(a, c)
          \/ \E active \in {"active", "inactive"} : SetTokenActive(a, c, active)
    \/ EndSpider(a) \/ ExpireSyncing(a)

SynchronizerNext ==
    \/ \E r \in Triggers : TriggerStep(r)
    \/ \E r \in Polls : DeleteState(r) \/ \E a \in Accounts : PollState(r, a)
    \/ \E a \in Accounts : AccountStep(a)

SynchronizerSpec == SynchronizerInit /\ [][SynchronizerNext]_synchronizerVars

-----------------------------------------------------------------------------
(* Properties. *)

\* One spider runs for an account, or is about to, and one more for each time that a
\* request has passed while another was under way, that a spider has outlived the
\* key's minute, or that a poll has deleted the key of the next synchronization. None
\* of these costs more than one spider, however they come together: the next request
\* is refused again as long as the key is there.
OneSpider ==
    \A a \in Accounts : spiders[a] + Cardinality(Passed(a)) <= 1 + races[a]
=============================================================================
