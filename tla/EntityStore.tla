---- MODULE EntityStore ----
(***************************************************************************)
(* What a State promises of its entities (the method comments of           *)
(* ecsState.hpp): every method that changes them does so at once, and      *)
(* completely or not at all.  A call that fails changes nothing, except    *)
(* that createEntity may use up the last step of the counter.              *)
(***************************************************************************)
EXTENDS EntityMachine

VARIABLE store

createEntity == store' = created(store)
addComp(id, c) == insertable(store, id, c) /\ store' = inserted(store, id, c)
remComp(id, c) == removable(store, id, c) /\ store' = removed(store, id, c)
clearEntity(id) == lives(store, id) /\ store' = cleared(store, id)
deleteEntity(id) == lives(store, id) /\ store' = deleted(store, id)

Init == store = emptyMachine

Next ==
    \/ createEntity
    \/ \E id \in Ids, c \in Comps : addComp(id, c) \/ remComp(id, c)
    \/ \E id \in Ids : clearEntity(id) \/ deleteEntity(id)

Spec == Init /\ [][Next]_store

====
