---- MODULE ReplicatedStore ----
(***************************************************************************)
(* What the entity requests promise the programs that take part (the       *)
(* comments in serializeEntityCreationRequest, ecsState.cpp): there is one *)
(* order of creations and deletions, and every client performs all of them *)
(* in that order, each at its own pace.  Which id an entity gets follows   *)
(* from that order and is no part of what is published.                    *)
(***************************************************************************)
EXTENDS EntityMachine

CONSTANT Clients

VARIABLES
    members,    \* the clients that are connected
    replica,    \* the entities of every connected client
    pending     \* what a client has not performed yet

\* A creation brings whole entities: components with their prerequisites.
creation(comps) == [op |-> "create", comps |-> comps, id |-> 0]
deletion(id) == [op |-> "destroy", comps |-> {}, id |-> id]
Operations ==
    {creation(comps) : comps \in {x \in SUBSET Comps : closed({EXISTENCE} \union x)}}
        \union {deletion(id) : id \in Ids}

\* Without an id left a creation only moves the counter.
perform(m, o) ==
    IF o.op = "destroy" THEN deleted(m, o.id)
    ELSE [created(m) EXCEPT !.mask =
            [id \in Ids |-> IF id = newId(m) THEN {EXISTENCE} \union o.comps ELSE m.mask[id]]]

\* Everyone begins at the beginning: before the first creation.
Join(c) ==
    /\ c \notin members
    /\ \A d \in members : /\ replica[d] = emptyMachine
                          /\ \A i \in DOMAIN pending[d] : pending[d][i].op = "destroy"
    /\ members' = members \union {c}
    /\ UNCHANGED << replica, pending >>

Leave(c) ==
    /\ c \in members
    /\ members' = members \ {c}
    /\ replica' = [replica EXCEPT ![c] = emptyMachine]
    /\ pending' = [pending EXCEPT ![c] = << >>]

Publish ==
    /\ \E o \in Operations :
          pending' = [c \in Clients |-> IF c \in members THEN Append(pending[c], o) ELSE << >>]
    /\ UNCHANGED << members, replica >>

Deliver(c) ==
    /\ pending[c] # << >>
    /\ replica' = [replica EXCEPT ![c] = perform(@, Head(pending[c]))]
    /\ pending' = [pending EXCEPT ![c] = Tail(@)]
    /\ UNCHANGED members

Init ==
    /\ members = {}
    /\ replica = [c \in Clients |-> emptyMachine]
    /\ pending = [c \in Clients |-> << >>]

Next ==
    \/ \E c \in Clients : Join(c) \/ Leave(c) \/ Deliver(c)
    \/ Publish

Spec == Init /\ [][Next]_<< members, replica, pending >>

====
