---- MODULE NetInterface ----
(***************************************************************************)
(* NetInterface (network/netInterface.cpp) with the Server and the Client  *)
(* it owns: the role a program has, the packets it has taken from its peer *)
(* and not given back, and what a server knows of its connections.         *)
(*                                                                         *)
(* The peer is SLikeNet's RakPeerInterface, which is not in the            *)
(* repository: it runs threads of its own, which is why clients come and   *)
(* go and packets arrive between any two calls of the game.  dctxt is in   *)
(* DiscordContext.                                                         *)
(***************************************************************************)
EXTENDS DiscordContext, Sequences

CONSTANTS
    Guids,          \* RakNetGUID::ToUint32 of the machines that may connect
    Modulus,        \* 2^32, the range of clientSum
    MaxInbox,       \* bound: messages the peer holds
    MaxPackets,     \* bound: packets in each buffer
    DiscardsFirst   \* the game discards all packets before it changes the role

ASSUME NetAssumption ==
    /\ Modulus \in Nat \ {0}
    /\ Guids \subseteq 0 .. Modulus - 1 /\ IsFiniteSet(Guids)
    /\ MaxInbox \in Nat /\ MaxPackets \in Nat

VARIABLES
    currentRole,
    askedRole,          \* the argument of the last assumeRole
    server,             \* "none", "ready", "failed" to start, or "blocked" by
                        \* the program's own server before it
    client,             \* "none", "ready" or "failed"
    inbox,              \* what the peer has for Receive
    connected,          \* the machines connected to the server's peer
    allocated,          \* packets of the present peer not deallocated yet
    requestPackets, syncPackets, freshConnections,
    clientSum, guids, connectionListsDirty      \* fields of Server

buffers == << requestPackets, syncPackets, freshConnections >>
serverVars == << clientSum, guids, connectionListsDirty >>
netVars == << currentRole, askedRole, server, client, inbox, connected, allocated, buffers, serverVars >>
vars == << netVars, discordVars >>

Role == {"NONE", "SERVER", "CLIENT"}

\* What a peer may hold: a notification about a machine, a packet for the
\* game, or something it is told about and has no use for.
Message == [id : {"NEW_INCOMING_CONNECTION", "DISCONNECTION_NOTIFICATION", "CONNECTION_LOST"}, from : Guids]
               \union [id : {"ECS_REQUEST", "SYNC", "OTHER"}, from : {0}]

packet(kind) == [id |-> kind, from |-> 0]

running == server = "ready" \/ client = "ready"

--------------------------------------------------------------------------
(* Roles *)

\* What assumeRole destroys first.  The bug variant leaves the server there
\* when the program gives up its role.
resetsOtherRole(role) == IF role = "CLIENT" THEN {"server"} ELSE {"client"}
resets(role) ==
    CASE role = "SERVER" -> {"client"}
      [] role = "CLIENT" -> {"server"}
      [] OTHER -> {"server", "client"}

noPeer == inbox' = << >> /\ connected' = {} /\ allocated' = 0

\* What becomes of a new peer, with whether Startup works as far as the rest of
\* the world goes (another process may hold the port): a peer that does not
\* start stays, and so does the role.  make_unique comes before the assignment
\* that destroys the old server, and as long as that has the port no other
\* server can start; a client takes any port.
freshServer(starts) ==
    IF server = "ready" THEN "blocked" ELSE IF starts THEN "ready" ELSE "failed"
freshClient(starts) == IF starts THEN "ready" ELSE "failed"

\* The fields of a new Server; without one they are nothing anyone reads.
freshFields == clientSum' = 0 /\ guids' = {} /\ connectionListsDirty' = TRUE

\* assumeRole, with whether the new peer starts and whether its GUID is one of
\* the reserved ones, in which case assumeRole() is called again, without
\* arguments.  A server is hosted on Discord, or what was to be one.
assumeRole(role, starts, reserved) ==
    /\ DiscardsFirst => requestPackets = << >> /\ syncPackets = << >>
    /\ askedRole' = role
    /\ LET final == IF reserved THEN "NONE" ELSE role
           gone == resets(role) \union (IF reserved THEN resets("NONE") ELSE {})
       IN  /\ currentRole' = final
           /\ server' = IF final = "SERVER" THEN freshServer(starts)
                        ELSE IF "server" \in gone THEN "none" ELSE server
           /\ client' = IF final = "CLIENT" THEN freshClient(starts)
                        ELSE IF "client" \in gone THEN "none" ELSE client
    /\ noPeer /\ freshFields
    /\ IF role = "SERVER" THEN host ELSE UNCHANGED discordVars
    /\ UNCHANGED buffers

--------------------------------------------------------------------------
(* Receiving *)

\* The messages that say a machine has gone.  The bug variant forgets those
\* that did not say goodbye.
goodbyes == {"DISCONNECTION_NOTIFICATION"}
leavings == {"DISCONNECTION_NOTIFICATION", "CONNECTION_LOST"}

\* What receive gives back to the peer at once.  The bug variant leaves the
\* switch where it should go on with the next packet.
everyPacket(m) == TRUE
notBuffered(m) == m.id \notin {"ECS_REQUEST", "SYNC"}

changesConnections(m) == m.id \in {"NEW_INCOMING_CONNECTION"} \union leavings

\* The messages of s with one of these identifiers, in their order.
among(s, ids) ==
    LET upTo[k \in 0 .. Len(s)] ==
            IF k = 0 THEN << >>
            ELSE IF s[k].id \in ids THEN Append(upTo[k - 1], s[k]) ELSE upTo[k - 1]
    IN  upTo[Len(s)]

messages(ids) == among(inbox, ids)
origins(ids) == [k \in 1 .. Len(messages(ids)) |-> messages(ids)[k].from]

sumOf(s) ==
    LET upTo[k \in 0 .. Len(s)] == IF k = 0 THEN 0 ELSE upTo[k - 1] + s[k]
    IN  upTo[Len(s)]

\* Server::receive on the connections; a client has no use for them.
\* clientSum is unsigned.
noteConnections ==
    /\ clientSum' = (clientSum + sumOf(origins({"NEW_INCOMING_CONNECTION"}))
                               - sumOf(origins(leavings))) % Modulus
    /\ connectionListsDirty' =
           (connectionListsDirty \/ \E i \in DOMAIN inbox : changesConnections(inbox[i]))
    /\ freshConnections' = freshConnections \o origins({"NEW_INCOMING_CONNECTION"})
    /\ UNCHANGED guids

\* NetInterface::tick: Discord first, then receive until the peer has nothing
\* more, which an inbox without a peer always has.
tick ==
    /\ tickDiscord
    /\ Len(requestPackets \o messages({"ECS_REQUEST"})) <= MaxPackets
    /\ Len(syncPackets \o messages({"SYNC"})) <= MaxPackets
    /\ Len(freshConnections \o messages({"NEW_INCOMING_CONNECTION"})) <= MaxPackets
    /\ requestPackets' = requestPackets \o messages({"ECS_REQUEST"})
    /\ syncPackets' = syncPackets \o messages({"SYNC"})
    /\ IF currentRole = "SERVER" THEN noteConnections
       ELSE UNCHANGED << serverVars, freshConnections >>
    /\ allocated' = allocated + Cardinality({i \in DOMAIN inbox : ~notBuffered(inbox[i])})
    /\ inbox' = << >>
    /\ UNCHANGED << currentRole, askedRole, server, client, connected >>

\* discardPacketCollection: back to the peer of the present role, if any.
discardPacketCollection(packets) ==
    allocated' = IF currentRole = "NONE" THEN allocated ELSE allocated - Len(packets)

discardRequestPackets ==
    /\ requestPackets # << >>
    /\ discardPacketCollection(requestPackets)
    /\ requestPackets' = << >>
    /\ UNCHANGED << currentRole, askedRole, server, client, inbox, connected, syncPackets, freshConnections, serverVars, discordVars >>

discardSyncPackets ==
    /\ syncPackets # << >>
    /\ discardPacketCollection(syncPackets)
    /\ syncPackets' = << >>
    /\ UNCHANGED << currentRole, askedRole, server, client, inbox, connected, requestPackets, freshConnections, serverVars, discordVars >>

discardFreshConnections ==
    /\ freshConnections # << >>
    /\ freshConnections' = << >>
    /\ UNCHANGED << currentRole, askedRole, server, client, inbox, connected, allocated, requestPackets, syncPackets, serverVars, discordVars >>

\* getClientGuids and getClientAddresses, on a server: updateConnectionLists.
getClientGuids ==
    /\ currentRole = "SERVER" /\ connectionListsDirty
    /\ guids' = connected /\ connectionListsDirty' = FALSE
    /\ UNCHANGED << currentRole, askedRole, server, client, inbox, connected, allocated, buffers, clientSum, discordVars >>

--------------------------------------------------------------------------
(* The network, outside the repository *)

arrives(m) == Len(inbox) < MaxInbox /\ inbox' = Append(inbox, m)

connects(g) ==
    /\ server = "ready" /\ g \notin connected
    /\ arrives([id |-> "NEW_INCOMING_CONNECTION", from |-> g])
    /\ connected' = connected \union {g}
    /\ UNCHANGED << currentRole, askedRole, server, client, allocated, buffers, serverVars, discordVars >>

leaves(g, how) ==
    /\ g \in connected
    /\ arrives([id |-> how, from |-> g])
    /\ connected' = connected \ {g}
    /\ UNCHANGED << currentRole, askedRole, server, client, allocated, buffers, serverVars, discordVars >>

sends(kind) ==
    /\ running
    /\ arrives(packet(kind))
    /\ UNCHANGED << currentRole, askedRole, server, client, connected, allocated, buffers, serverVars, discordVars >>

--------------------------------------------------------------------------
Init ==
    /\ DiscordInit
    /\ currentRole = "NONE" /\ askedRole = "NONE"
    /\ server = "none" /\ client = "none"
    /\ inbox = << >> /\ connected = {} /\ allocated = 0
    /\ requestPackets = << >> /\ syncPackets = << >> /\ freshConnections = << >>
    /\ clientSum = 0 /\ guids = {} /\ connectionListsDirty = TRUE

\* What the game asks of Discord, through NetInterface or of dctxt itself.
askDiscord ==
    /\ \/ connect \/ listLobbies \/ frndNobody
       \/ \E n \in Names, dscrm \in Dscrms \union {0} : frnd(n, dscrm)
    /\ UNCHANGED netVars

Next ==
    \/ askDiscord
    \/ \E role \in Role, starts \in BOOLEAN : assumeRole(role, starts, FALSE)
    \/ \E role \in {"SERVER", "CLIENT"}, starts \in BOOLEAN : assumeRole(role, starts, TRUE)
    \/ tick
    \/ discardRequestPackets \/ discardSyncPackets \/ discardFreshConnections
    \/ getClientGuids
    \/ \E g \in Guids : connects(g)
    \/ \E g \in Guids, how \in {"DISCONNECTION_NOTIFICATION", "CONNECTION_LOST"} : leaves(g, how)
    \/ \E kind \in {"ECS_REQUEST", "SYNC", "OTHER"} : sends(kind)

Spec == Init /\ [][Next]_vars

--------------------------------------------------------------------------
(* Properties *)

TypeOK ==
    /\ DiscordTypeOK
    /\ currentRole \in Role /\ askedRole \in Role
    /\ server \in {"none", "ready", "failed", "blocked"}
    /\ client \in {"none", "ready", "failed"}
    /\ inbox \in Seq(Message) /\ connected \subseteq Guids /\ allocated \in Nat
    /\ requestPackets \in Seq({packet("ECS_REQUEST")})
    /\ syncPackets \in Seq({packet("SYNC")})
    /\ freshConnections \in Seq(Guids)
    /\ clientSum \in 0 .. Modulus - 1
    /\ guids \subseteq Guids /\ connectionListsDirty \in BOOLEAN

\* The packets in the buffers are those the present peer has handed out and
\* not got back: none is used after it was deallocated, deallocated twice or
\* through another peer, and none is lost.
PacketsAccounted == allocated = Len(requestPackets) + Len(syncPackets)

\* A server that has handled its notifications has the sum of the GUIDs that
\* are connected, whatever came and went and came back before.
ClientSumTellsClients ==
    currentRole = "SERVER" /\ inbox = << >> =>
        \E s \in [1 .. Cardinality(connected) -> connected] :
            /\ \A g \in connected : \E k \in DOMAIN s : s[k] = g
            /\ clientSum = sumOf(s) % Modulus

\* ... and, once asked, the list of them.
ListsUpToDate ==
    currentRole = "SERVER" /\ inbox = << >> => connectionListsDirty \/ guids = connected

\* There is a peer of one kind exactly for the role that needs it, and a
\* program is the cause of its own server's failing to start only when it asks
\* for the role of server while it has it: nothing of a server is left, after
\* whatever changes of role, retries and failures, that would still hold the
\* port.  (Startup may fail for a reason outside the program, and the role
\* stays all the same: nothing is promised of that.)
RoleMatchesPeer ==
    [][ /\ server' = "none" <=> currentRole' # "SERVER"
        /\ client' = "none" <=> currentRole' # "CLIENT"
        /\ server' = "blocked" => currentRole = "SERVER" ]_vars

\* "Recurse until guid is acceptable." (netInterface.cpp:18 and 27): after
\* assumeRole the program has the role it asked for.
RoleAssumed == currentRole = askedRole

====
