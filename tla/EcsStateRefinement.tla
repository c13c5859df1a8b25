---- MODULE EcsStateRefinement ----
(***************************************************************************)
(* EcsState implements EntityStore: although delegates run between the     *)
(* removals of a clearing call and can see the entity half empty, the call *)
(* as a whole is one change.  It takes effect when it begins: from then on *)
(* clearEntity's entity counts as empty and deleteEntity's as gone, with   *)
(* its id on the stack, whatever the loop has still to do.                 *)
(***************************************************************************)
EXTENDS EcsState

\* clear deletes one entity after the other.
beingDeleted == victim # 0 /\ call \in {"deleteEntity", "clear"}

maskAfterCall(id) ==
    IF id # victim THEN componentsPresent[id]
    ELSE IF beingDeleted THEN {} ELSE {EXISTENCE}

storeAfterCall ==
    [nextId   |-> nextId,
     freedIds |-> IF beingDeleted THEN pushFreed(freedIds, victim) ELSE freedIds,
     mask     |-> [id \in Ids |-> maskAfterCall(id)]]

Store == INSTANCE EntityStore WITH store <- storeAfterCall

\* Every method of State is one atomic change of the entities, or none: no
\* clearing call stops half way, deletes without freeing the id or frees it
\* without deleting, and no method touches an entity it was not called for.
ImplementsStore == Store!Spec

====
