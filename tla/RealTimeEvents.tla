--------------------------- MODULE RealTimeEvents ---------------------------
(***************************************************************************)
(* RealTimeEventGateway: the open sockets of each user, and the counts of  *)
(* posts pushed to them. A socket opens before its token is verified, and  *)
(* may close while it is; a count is read from the database while sockets  *)
(* come and go, and while the posts change again. Some changes are not     *)
(* announced, and some announcements fail on the way.                      *)
(***************************************************************************)
EXTENDS Naturals, Sequences, FiniteSets

CONSTANTS
    Sockets,
    People,         \* users
    BearerOf,       \* the user of each socket's token
    Updates,        \* announced changes of a user's posts
    MaxCount        \* bound: changes of the count of a user's posts

ASSUME RealTimeAssumption ==
    /\ BearerOf \in [Sockets -> People]
    /\ MaxCount \in Nat

VARIABLES
    socket,         \* external: the connections
    verifying,      \* sockets whose token is being verified
    known,          \* the sockets whose userId is set
    clients,        \* the lists of the Map, for the users that have one
    postCount,      \* the version of the count of each user's posts in the database
    update,         \* the announced changes under way, and their handlers
    lateSockets,    \* history: sockets closed while their token was verified
    superseded      \* history: the versions that were over before any of the handlers
                    \* under way began, whenever an answer was sent

realTimeVars == <<socket, verifying, known, clients, postCount, update, lateSockets, superseded>>

NothingShown == MaxCount + 1

UpdateRow ==
    [pc: {"idle", "saved", "count", "deliver"}, user: People,
     live: BOOLEAN,         \* the user had a list when the handler began
     since: 0..MaxCount,    \* history: the version when it began
     value: 0..MaxCount]

\* Types of the sockets, the lists and the handlers.
RealTimeTypeOK ==
    /\ socket \in [Sockets -> [state: {"new", "open", "closed"}, shown: 0..NothingShown]]
    /\ verifying \subseteq Sockets /\ known \subseteq Sockets
    /\ DOMAIN clients \subseteq People
    /\ \A p \in DOMAIN clients : clients[p] \in Seq(Sockets)
    /\ postCount \in [People -> 0..MaxCount]
    /\ update \in [Updates -> UpdateRow]
    /\ lateSockets \subseteq Sockets
    /\ superseded \in [People -> SUBSET (0..MaxCount)]

NoUpdate(p) == [pc |-> "idle", user |-> p, live |-> FALSE, since |-> 0, value |-> 0]

RealTimeInit ==
    /\ socket = [s \in Sockets |-> [state |-> "new", shown |-> NothingShown]]
    /\ verifying = {} /\ known = {}
    /\ clients = <<>>
    /\ postCount = [p \in People |-> 0]
    /\ \E p \in People : update = [u \in Updates |-> NoUpdate(p)]
    /\ lateSockets = {}
    /\ superseded = [p \in People |-> {}]

\* getUserClients: an empty list of its own for a user that has none.
UserClients(p) == IF p \in DOMAIN clients THEN clients[p] ELSE <<>>

\* Mutation: splice(index) takes out the ones behind it too.
Spliced_Rest(list, s) == SubSeq(list, 1, (CHOOSE i \in DOMAIN list : list[i] = s) - 1)

\* findIndex and splice(index, 1).
Spliced(list, s) ==
    LET index == CHOOSE i \in DOMAIN list : list[i] = s IN
    SubSeq(list, 1, index - 1) \o SubSeq(list, index + 1, Len(list))

SetClients(p, list) == clients' = [q \in DOMAIN clients \union {p} |-> IF q = p THEN list ELSE clients[q]]

-----------------------------------------------------------------------------
(* Connections. *)

\* handleConnection, up to the verification of the cookie's token;
OpenSocket(s) ==
    /\ socket[s].state = "new"
    /\ socket' = [socket EXCEPT ![s].state = "open"]
    /\ verifying' = verifying \union {s}
    /\ UNCHANGED <<known, clients, postCount, update, lateSockets, superseded>>

\* it is valid: the socket is registered, whether it is still open or not;
RegisterSocket(s) ==
    /\ s \in verifying
    /\ verifying' = verifying \ {s}
    /\ known' = known \union {s}
    /\ SetClients(BearerOf[s], Append(UserClients(BearerOf[s]), s))
    /\ UNCHANGED <<socket, postCount, update, lateSockets, superseded>>

\* or not: the socket is disconnected, and has no userId.
RefuseSocket(s) ==
    /\ s \in verifying
    /\ verifying' = verifying \ {s}
    /\ socket' = [socket EXCEPT ![s].state = "closed"]
    /\ UNCHANGED <<known, clients, postCount, update, lateSockets, superseded>>

\* handleDisconnect: a socket without a userId returns early, another one is taken
\* out of its list.
CloseSocket(s) ==
    LET list == UserClients(BearerOf[s]) IN
    /\ socket[s].state = "open"
    /\ socket' = [socket EXCEPT ![s].state = "closed"]
    /\ IF s \notin known
       THEN lateSockets' = lateSockets \union {s} /\ UNCHANGED clients
       ELSE SetClients(BearerOf[s], Spliced(list, s)) /\ UNCHANGED lateSockets
    /\ UNCHANGED <<verifying, known, postCount, update, superseded>>

-----------------------------------------------------------------------------
(* Counts. *)

\* Posts of a user are created, published or fail, and the rows are saved. Who saves
\* them means to announce it, some after reading the rows again;
ChangePosts(u, p) ==
    /\ update[u].pc = "idle" /\ postCount[p] < MaxCount
    /\ postCount' = [postCount EXCEPT ![p] = @ + 1]
    /\ update' = [update EXCEPT ![u] = [NoUpdate(p) EXCEPT !.pc = "saved"]]
    /\ UNCHANGED <<socket, verifying, known, clients, lateSockets, superseded>>

\* that read fails: there is no event.
AnnounceFails(u) ==
    /\ update[u].pc = "saved"
    /\ update' = [update EXCEPT ![u].pc = "idle"]
    /\ UNCHANGED <<socket, verifying, known, clients, postCount, lateSockets, superseded>>

\* A certificate fails for good, and its post with it, or a post is migrated: nobody
\* announces it.
ChangeUnannounced(p) ==
    /\ postCount[p] < MaxCount
    /\ postCount' = [postCount EXCEPT ![p] = @ + 1]
    /\ UNCHANGED <<socket, verifying, known, clients, update, lateSockets, superseded>>

\* The event is emitted: onPostStateUpdate takes the list before it reads the
\* count. The list of a user with no socket so far is not the one of the Map. A
\* change that is not of a publish state is pushed at once, without data.
OnPostStateUpdate(u) ==
    LET p == update[u].user IN
    /\ update[u].pc = "saved"
    /\ update' = [update EXCEPT ![u] =
                    [@ EXCEPT !.pc = "count", !.live = p \in DOMAIN clients, !.since = postCount[p]]]
    /\ UNCHANGED <<socket, verifying, known, clients, postCount, lateSockets, superseded>>

\* countUserPostOrdersAsNotification;
CountUserPostOrders(u) ==
    /\ update[u].pc = "count"
    /\ update' = [update EXCEPT ![u].pc = "deliver", ![u].value = postCount[update[u].user]]
    /\ UNCHANGED <<socket, verifying, known, clients, postCount, lateSockets, superseded>>

\* it fails, and nobody catches that: the sockets are told nothing.
CountFails(u) ==
    /\ update[u].pc = "count"
    /\ update' = [update EXCEPT ![u].pc = "idle"]
    /\ UNCHANGED <<socket, verifying, known, clients, postCount, lateSockets, superseded>>

\* Mutation: the newest socket of a user is taken for the only one.
Receivers_Newest(u) ==
    LET list == UserClients(update[u].user) IN
    IF update[u].live /\ list # <<>> THEN {list[Len(list)]} ELSE {}

Receivers(u) ==
    LET list == UserClients(update[u].user) IN
    IF update[u].live THEN {list[i] : i \in DOMAIN list} ELSE {}

Handling(p) == {u \in Updates : update[u].pc \in {"count", "deliver"} /\ update[u].user = p}

\* The versions that were over when the oldest handler of a user began.
OverBefore(p) == {k \in 0..MaxCount : \A u \in Handling(p) : k < update[u].since}

\* The answer is sent to the sockets the list holds by then.
EmitCount(u) ==
    LET row == update[u] IN
    /\ row.pc = "deliver"
    /\ superseded' = [superseded EXCEPT ![row.user] = @ \union OverBefore(row.user)]
    /\ socket' = [s \in Sockets |->
                    IF s \in Receivers(u) THEN [socket[s] EXCEPT !.shown = row.value] ELSE socket[s]]
    /\ update' = [update EXCEPT ![u] = NoUpdate(row.user)]
    /\ UNCHANGED <<verifying, known, clients, postCount, lateSockets>>

SocketStep(s) == OpenSocket(s) \/ RegisterSocket(s) \/ RefuseSocket(s) \/ CloseSocket(s)

UpdateStep(u) ==
    \/ AnnounceFails(u) \/ OnPostStateUpdate(u)
    \/ CountUserPostOrders(u) \/ CountFails(u) \/ EmitCount(u)
    \/ \E p \in People : ChangePosts(u, p)

RealTimeNext ==
    \/ \E s \in Sockets : SocketStep(s)
    \/ \E u \in Updates : UpdateStep(u)
    \/ \E p \in People : ChangeUnannounced(p)

RealTimeSpec == RealTimeInit /\ [][RealTimeNext]_realTimeVars

-----------------------------------------------------------------------------
(* Properties. *)

Registered(s) == {i \in DOMAIN UserClients(BearerOf[s]) : UserClients(BearerOf[s])[i] = s}

\* The lists hold every open socket of a user once, and no closed one, whichever of
\* them closes first; but a socket that closed while its token was being verified
\* is registered afterwards, for good.
RegisteredIsOpen ==
    \A s \in Sockets :
        /\ socket[s].state = "open" /\ s \notin verifying => Cardinality(Registered(s)) = 1
        /\ Registered(s) # {} => socket[s].state = "open" \/ s \in lateSockets

\* Two answers may arrive in the wrong order, and a change may be announced late or
\* not at all; but once an answer has been sent, no open socket of the user goes on
\* showing, or is shown again, a count that was over before the oldest of the handlers
\* then under way began. With one handler at a time, the answer to a change reaches
\* every open socket, and none falls behind it.
SupersededIsNotShown ==
    \A s \in Sockets :
        socket[s].state = "open" => socket[s].shown \notin superseded[BearerOf[s]]
=============================================================================
