---- MODULE EntityRequests ----
(***************************************************************************)
(* Entities over the network: several programs with a State each, of which *)
(* one may host and the others join, the entity requests a game makes on   *)
(* them (ecsState.cpp 35-185), alone or connected, and the packets between *)
(* them.  All of them go on one reliable and ordered channel               *)
(* (CH_ECS_UPDATE), so each connection has a FIFO queue in each direction. *)
(*                                                                         *)
(* The code that takes a packet off the wire, reads its header and calls   *)
(* serializeEntityCreationRequest or serializeEntityDeletionRequest is not *)
(* in the repository; here it handles the first message of each packet,    *)
(* which is what the packet's header names, and on the server sends a      *)
(* fulfilled request on to every client, as the comments of                *)
(* serializeEntityCreationRequest say.                                     *)
(***************************************************************************)
EXTENDS ComponentStream

CONSTANTS
    server,
    Clients,
    MaxCalls,       \* bound: calls the game makes that lead to a packet
    ManualInOrder,  \* the game broadcasts a manual entity before anything else
                    \* creates or deletes an entity on the server
    QuietWhileOpen, \* the game sends and deletes nothing else while a
                    \* request is open
    JoinsFresh,     \* programs host and join with a State nothing was done
                    \* to, and join before the server has created anything
    RoleKept,       \* no program changes its role while a request is open
    AsksOnce        \* the game asks for a component once in a request

ASSUME NodesAssumption == server \notin Clients /\ MaxCalls \in Nat

Nodes == {server} \union Clients

VARIABLES
    role,               \* what NetInterface::getRole returns
    ecs,                \* the entities of every node's State
    entityRequestOpen,
    openRequestId,      \* the entity of the last request opened alone
    wanted,             \* what the game asked for since it opened a request
    early,              \* auxiliary: the programs that asked for one of these,
                        \* alone, before they had asked for its prerequisites
    compStreams,        \* [Nodes -> [Comps -> Seq(Token)]]
    stream,             \* the messages in State::stream
    toServer,           \* packets under way from each client
    toClient,           \* packets under way to each client
    unsent,             \* entities the server's game made and did not broadcast
    anomaly,            \* the clients that logged "Anomaly found"
    calls               \* calls made so far, up to MaxCalls

requestVars == << entityRequestOpen, openRequestId, wanted, early, compStreams >>
nodeVars == << role, requestVars, stream >>
vars == << ecs, nodeVars, toServer, toClient, unsent, anomaly, calls >>

\* One message: header, id and components.  "asked" is no part of it: it
\* remembers which components the game asked for.
create(id, payload, asked) ==
    [op |-> "create", id |-> id, payload |-> payload, asked |-> asked]
destroy(id) == [op |-> "destroy", id |-> id, payload |-> << >>, asked |-> {}]

emptyStreams == [c \in Comps |-> << >>]
alone(n) == role[n] = "NONE"

\* Server::send, to every machine that is connected.
sendToClients(packet) ==
    toClient' = [c \in Clients |->
        IF role[c] = "CLIENT" THEN Append(toClient[c], packet) ELSE toClient[c]]

\* The game's own rules, where a run assumes them.
mayChangeEntities == ManualInOrder => unsent = {}
maySend(n) == QuietWhileOpen => ~entityRequestOpen[n]
mayChangeRole(n) == RoleKept => ~entityRequestOpen[n]
fresh(n) == JoinsFresh => ecs[n] = emptyMachine

counted == calls < MaxCalls /\ calls' = calls + 1

--------------------------------------------------------------------------
(* What the game calls *)

\* NetInterface::assumeRole, for SERVER and CLIENT: the connection is there.
host ==
    /\ alone(server) /\ mayChangeRole(server) /\ fresh(server)
    /\ role' = [role EXCEPT ![server] = "SERVER"]
    /\ UNCHANGED << ecs, requestVars, stream, toServer, toClient, unsent, anomaly, calls >>

join(c) ==
    /\ alone(c) /\ mayChangeRole(c) /\ fresh(c)
    /\ role[server] = "SERVER" /\ fresh(server)
    /\ role' = [role EXCEPT ![c] = "CLIENT"]
    /\ UNCHANGED << ecs, requestVars, stream, toServer, toClient, unsent, anomaly, calls >>

\* assumeRole(NONE) on a client: packets to it are lost, and packets of its
\* own that have not come through.  Its entities stay.
leave(c) ==
    /\ counted
    /\ role[c] = "CLIENT" /\ mayChangeRole(c)
    /\ role' = [role EXCEPT ![c] = "NONE"]
    /\ toClient' = [toClient EXCEPT ![c] = << >>]
    /\ \E arrived \in 0 .. Len(toServer[c]) :
          toServer' = [toServer EXCEPT ![c] = SubSeq(@, 1, arrived)]
    /\ UNCHANGED << ecs, requestVars, stream, unsent, anomaly >>

\* Alone, the entity is made at once; connected, the streams are reset.
openEntityRequest(n) ==
    /\ counted
    /\ ~entityRequestOpen[n]
    /\ entityRequestOpen' = [entityRequestOpen EXCEPT ![n] = TRUE]
    /\ wanted' = [wanted EXCEPT ![n] = {}] /\ early' = early \ {n}
    /\ IF alone(n)
       THEN /\ ecs' = [ecs EXCEPT ![n] = created(@)]
            /\ openRequestId' = [openRequestId EXCEPT ![n] = newId(ecs[n])]
            /\ UNCHANGED << stream, compStreams >>
       ELSE /\ stream' = [stream EXCEPT ![n] = << >>]
            /\ compStreams' = [compStreams EXCEPT ![n] = emptyStreams]
            /\ UNCHANGED << ecs, openRequestId >>
    /\ UNCHANGED << role, toServer, toClient, unsent, anomaly >>

\* What request<Comp> does, which only types that are serialized have: alone the
\* component is added at once, and refused without its prerequisites, which is
\* only logged; connected, the constructor's arguments are written down.
requested(n, c) ==
    /\ \E i \in DOMAIN SerialOrder : SerialOrder[i] = c
    /\ IF alone(n)
       THEN ecs' = [ecs EXCEPT ![n] = inserted(@, openRequestId[n], c)] /\ UNCHANGED compStreams
       ELSE compStreams' = [compStreams EXCEPT ![n][c] = @ \o ctorArgs(c)] /\ UNCHANGED ecs
    /\ UNCHANGED << role, entityRequestOpen, openRequestId, stream, toServer, toClient, unsent, anomaly >>

request(n, c) ==
    /\ entityRequestOpen[n]
    /\ IF c \in wanted[n] THEN ~AsksOnce /\ counted ELSE UNCHANGED calls
    /\ requested(n, c)
    /\ wanted' = [wanted EXCEPT ![n] = @ \union {c}]
    /\ early' = IF alone(n) /\ ~(Prereqs[c] \subseteq wanted[n]) THEN early \union {n} ELSE early

\* It does not look whether a request is open.  If none is, the component goes
\* to the entity of the last request opened alone, or to a stream that the next
\* openEntityRequest resets.
requestUnopened(n, c) ==
    /\ counted
    /\ ~entityRequestOpen[n]
    /\ requested(n, c)
    /\ UNCHANGED << wanted, early >>

closes(n) ==
    /\ entityRequestOpen[n]
    /\ entityRequestOpen' = [entityRequestOpen EXCEPT ![n] = FALSE]
    /\ UNCHANGED << role, openRequestId, wanted, early, compStreams, unsent, anomaly, calls >>

\* Alone there is nothing left to do: the id is returned.
closeEntityRequestAlone(n) ==
    /\ alone(n) /\ closes(n)
    /\ UNCHANGED << ecs, stream, toServer, toClient >>

\* What a server answers a request with.  When it has no id left the entity
\* is not created, and the stream it would have been written to is reset.
fulfilled(id, m, asked) ==
    IF id = 0 THEN create(0, << >>, asked) ELSE create(id, writtenFromEntity(m.mask[id]), asked)

\* The server's own request is written and read back like a client's.
closeEntityRequestServer ==
    /\ role[server] = "SERVER" /\ closes(server) /\ mayChangeEntities
    /\ LET id == newId(ecs[server])
       IN  \E m \in readInto(created(ecs[server]), id, writtenFromStreams(compStreams[server])) :
              LET packet == Append(stream[server], fulfilled(id, m, wanted[server]))
              IN  /\ ecs' = [ecs EXCEPT ![server] = m]
                  /\ stream' = [stream EXCEPT ![server] = packet]
                  /\ sendToClients(packet)
    /\ UNCHANGED toServer

closeEntityRequestClient(n) ==
    /\ role[n] = "CLIENT" /\ closes(n)
    /\ LET packet == Append(stream[n], create(0, writtenFromStreams(compStreams[n]), wanted[n]))
       IN  /\ stream' = [stream EXCEPT ![n] = packet]
           /\ toServer' = [toServer EXCEPT ![n] = Append(@, packet)]
    /\ UNCHANGED << ecs, toClient >>

\* The game of a program that is no client makes an entity by hand:
\* createEntity, then add<Comp>.
makeManualEntity(n, mask) ==
    /\ counted
    /\ role[n] # "CLIENT" /\ mayChangeEntities
    /\ LET m == created(ecs[n])
           id == newId(ecs[n])
       IN  /\ id # 0
           /\ ecs' = [ecs EXCEPT ![n] = [m EXCEPT !.mask[id] = turnOnFlags(@, mask)]]
           /\ unsent' = IF alone(n) THEN unsent ELSE unsent \union {id}
    /\ UNCHANGED << nodeVars, toServer, toClient, anomaly >>

\* The stream is reset first, a request that is open loses what it has.  An
\* id without entity leaves the stream empty: nothing is sent.
broadcastManualEntity(id) ==
    /\ id \in unsent /\ maySend(server)
    /\ unsent' = unsent \ {id}
    /\ LET packet == IF lives(ecs[server], id)
                     THEN << create(id, writtenFromEntity(ecs[server].mask[id]), {}) >>
                     ELSE << >>
       IN  /\ stream' = [stream EXCEPT ![server] = packet]
           /\ IF packet = << >> THEN UNCHANGED toClient ELSE sendToClients(packet)
    /\ UNCHANGED << ecs, role, requestVars, toServer, anomaly, calls >>

\* A client's call does nothing; a server tells the clients first.
requestEntityDeletion(n, id) ==
    /\ counted
    /\ role[n] # "CLIENT" /\ maySend(n)
    /\ IF alone(n)
       THEN UNCHANGED << stream, toClient >>
       ELSE /\ mayChangeEntities
            /\ stream' = [stream EXCEPT ![n] = << destroy(id) >>]
            /\ sendToClients(<< destroy(id) >>)
    /\ ecs' = [ecs EXCEPT ![n] = deleted(@, id)]
    /\ UNCHANGED << role, requestVars, toServer, unsent, anomaly >>

--------------------------------------------------------------------------
(* What arrives *)

\* A program takes the next packet off a connection.  A server whose game is
\* not through with a manual entity does so later.
takeRequest(c) ==
    /\ toServer[c] # << >> /\ mayChangeEntities
    /\ toServer' = [toServer EXCEPT ![c] = Tail(@)]
takeUpdate(c) ==
    /\ toClient[c] # << >>
    /\ toClient' = [toClient EXCEPT ![c] = Tail(@)]

\* The server fulfils a client's request and sends it to every client.
receiveRequest(c) ==
    /\ takeRequest(c)
    /\ LET msg == Head(toServer[c])[1]
           id  == newId(ecs[server])
       IN  \E m \in readInto(created(ecs[server]), id, msg.payload) :
              /\ ecs' = [ecs EXCEPT ![server] = m]
              /\ sendToClients(<< fulfilled(id, m, msg.asked) >>)
    /\ UNCHANGED << nodeVars, unsent, anomaly, calls >>

\* serializeEntityCreationRequest on a client: create entities until the id
\* of the message exists, ten at most.
createdUntil(m, id) ==
    LET upTo[i \in 0 .. 10] ==
            IF i = 0 THEN [m |-> m, loops |-> 0]
            ELSE LET before == upTo[i - 1]
                 IN  IF lives(before.m, id) THEN before
                     ELSE [m |-> created(before.m), loops |-> i]
    IN  upTo[10]

\* The bug variant takes the components of a deleted entity away and does not
\* put its id on the stack.
applyWithoutFreeing(m, msg) ==
    IF msg.op = "destroy"
    THEN {[deleted(m, msg.id) EXCEPT !.freedIds = m.freedIds]}
    ELSE IF msg.id = 0 THEN readInto(created(m), newId(m), msg.payload)
    ELSE readInto(createdUntil(m, msg.id).m, msg.id, msg.payload)
\* A message without id, from a server that had none left, reads as a
\* request to fulfil.
apply(m, msg) ==
    IF msg.op = "destroy" THEN {deleted(m, msg.id)}
    ELSE IF msg.id = 0 THEN readInto(created(m), newId(m), msg.payload)
    ELSE readInto(createdUntil(m, msg.id).m, msg.id, msg.payload)

inOneLoop(m, msg) ==
    msg.op = "create" /\ msg.id # 0 => createdUntil(m, msg.id).loops = 1

receiveUpdate(c) ==
    /\ takeUpdate(c)
    /\ LET msg == Head(toClient[c])[1]
       IN  /\ \E m \in apply(ecs[c], msg) : ecs' = [ecs EXCEPT ![c] = m]
           /\ anomaly' = IF inOneLoop(ecs[c], msg) THEN anomaly ELSE anomaly \union {c}
    /\ UNCHANGED << nodeVars, toServer, unsent, calls >>

--------------------------------------------------------------------------
Init ==
    /\ role = [n \in Nodes |-> "NONE"]
    /\ ecs = [n \in Nodes |-> emptyMachine]
    /\ entityRequestOpen = [n \in Nodes |-> FALSE]
    /\ openRequestId = [n \in Nodes |-> 0]
    /\ wanted = [n \in Nodes |-> {}] /\ early = {}
    /\ compStreams = [n \in Nodes |-> emptyStreams]
    /\ stream = [n \in Nodes |-> << >>]
    /\ toServer = [c \in Clients |-> << >>]
    /\ toClient = [c \in Clients |-> << >>]
    /\ unsent = {} /\ anomaly = {} /\ calls = 0

Next ==
    \/ host
    \/ \E c \in Clients : join(c) \/ leave(c)
    \/ \E n \in Nodes : openEntityRequest(n)
    \/ \E n \in Nodes, c \in Comps : request(n, c) \/ requestUnopened(n, c)
    \/ \E n \in Nodes : closeEntityRequestAlone(n)
    \/ closeEntityRequestServer
    \/ \E n \in Clients : closeEntityRequestClient(n)
    \/ \E n \in Nodes, mask \in {x \in SUBSET Comps : closed(x \union {EXISTENCE})} :
          makeManualEntity(n, mask)
    \/ \E id \in unsent : broadcastManualEntity(id)
    \/ \E n \in Nodes, id \in Ids : requestEntityDeletion(n, id)
    \/ \E c \in Clients : receiveRequest(c)
    \/ \E c \in Clients : receiveUpdate(c)

Spec == Init /\ [][Next]_vars

\* The network delivers what was sent, and every program goes on taking the
\* packets that have come.  receiveRequest and receiveUpdate are the only
\* steps that take one, and can handle whatever they take.  Nothing obliges a
\* game to call anything.
Fairness ==
    \A c \in Clients : WF_toServer(takeRequest(c)) /\ WF_toClient(takeUpdate(c))

FairSpec == Spec /\ Fairness

--------------------------------------------------------------------------
(* Properties *)

packets == (UNION {{toServer[c][i] : i \in DOMAIN toServer[c]} : c \in Clients})
               \union (UNION {{toClient[c][i] : i \in DOMAIN toClient[c]} : c \in Clients})

TypeOK ==
    /\ \A n \in Nodes : /\ ecs[n].nextId \in EntityId
                        /\ ecs[n].freedIds \in Seq(Ids)
                        /\ ecs[n].mask \in [Ids -> compMask]
    /\ role[server] \in {"NONE", "SERVER"}
    /\ \A c \in Clients : role[c] \in {"NONE", "CLIENT"}
    /\ entityRequestOpen \in [Nodes -> BOOLEAN]
    /\ openRequestId \in [Nodes -> {0} \union Ids]
    /\ wanted \in [Nodes -> SUBSET Comps] /\ early \subseteq Nodes
    /\ \A n \in Nodes, c \in Comps : compStreams[n][c] \in Seq(Token)
    /\ \A p \in packets \union {stream[n] : n \in Nodes} : \A i \in DOMAIN p :
          /\ p[i].op \in {"create", "destroy"}
          /\ p[i].id \in {0} \union Ids
          /\ p[i].payload \in Seq(Token)
    /\ unsent \subseteq Ids /\ anomaly \subseteq Clients /\ calls \in 0 .. MaxCalls

\* "If outgoing ECS request server messages are ordered ... this loop should
\* always do exactly one iteration" (ecsState.cpp, in
\* serializeEntityCreationRequest): a client never finds the id of a creation
\* message taken, and never needs more than one entity to get to it.
ExactlyOneIteration == anomaly = {}

\* A client lags behind the server by the packets under way to it and by
\* nothing else: handling them makes its entities, ids and masks, its counter
\* and its stack of freed ids the server's.
caughtUp(c) ==
    LET pending == toClient[c]
        upTo[i \in 0 .. Len(pending)] ==
            IF i = 0 THEN {ecs[c]} ELSE UNION {apply(m, pending[i][1]) : m \in upTo[i - 1]}
    IN  upTo[Len(pending)]

ClientsInStep ==
    unsent = {} => \A c \in Clients : role[c] = "CLIENT" => caughtUp(c) = {ecs[server]}

\* No entity, on any node, has a component without its prerequisites.
MasksClosed == \A n \in Nodes : \A id \in Ids : closed(ecs[n].mask[id])

\* "The server fulfills it": the entity made for a request has the components
\* the game asked for, no fewer and no more, when it asked for their
\* prerequisites too, in whatever order, as a client or as the server.  Alone
\* the order matters: an entity never has more than what was asked for, and all
\* of it if the game asked for everything after its prerequisites.
made(m, id, asked) ==
    id # 0 /\ closed(asked \union {EXISTENCE}) => m.mask[id] = asked \union {EXISTENCE}
madeAlone(m, id, asked, inOrder) ==
    id # 0 => /\ m.mask[id] \subseteq asked \union {EXISTENCE}
              /\ inOrder => m.mask[id] = asked \union {EXISTENCE}
fulfilsRequests ==
    /\ \A c \in Clients : toServer[c] # << >> /\ toServer'[c] = Tail(toServer[c]) /\ role' = role
          => made(ecs'[server], newId(ecs[server]), Head(toServer[c])[1].asked)
    /\ \A n \in Nodes : entityRequestOpen[n] /\ ~entityRequestOpen'[n] =>
          /\ role[n] = "SERVER" => made(ecs'[n], newId(ecs[n]), wanted[n])
          /\ alone(n) => madeAlone(ecs'[n], openRequestId[n], wanted[n], n \notin early)
RequestsFulfilled == [][fulfilsRequests]_vars

\* Once the game stops, every client ends up with the server's entities.
EventuallyTheSame ==
    <>[](unsent = {} => \A c \in Clients : role[c] = "CLIENT" => ecs[c] = ecs[server])

--------------------------------------------------------------------------
(* The history the clients share *)

members == {c \in Clients : role[c] = "CLIENT"}

\* The operation a message stands for, without its id: a creation of the
\* components whose fields it brings.
operationOf(msg) ==
    IF msg.op = "destroy" THEN [op |-> "destroy", comps |-> {}, id |-> msg.id]
    ELSE LET tokens == {msg.payload[i] : i \in DOMAIN msg.payload}
         IN  [op |-> "create", comps |-> {t.value : t \in tokens \ {Yes, No}}, id |-> 0]

History == INSTANCE ReplicatedStore WITH
    replica <- [c \in Clients |-> IF c \in members THEN ecs[c] ELSE emptyMachine],
    pending <- [c \in Clients |->
        [i \in DOMAIN toClient[c] |-> operationOf(toClient[c][i][1])]]

\* Every client performs the same creations and deletions in the same order
\* and misses none, whatever the order in which requests, deletions and
\* manual entities are made and packets are taken; the ids the messages name
\* are those a client would have given the entities by itself.
OneHistory == History!Spec

====
