---- MODULE EcsRefinementProofs ----
(***************************************************************************)
(* EcsState implements EntityStore, for every set of component types,      *)
(* every dependency relation and every width of ids.                       *)
(***************************************************************************)
EXTENDS EcsStateRefinement, EcsStateProofs

\* Between two calls the abstract store is the State itself, before a step
\* and after it.
Idle == victim = 0 =>
    storeAfterCall = [nextId |-> nextId, freedIds |-> freedIds, mask |-> componentsPresent]

\* While an entity is deleted its id is on the abstract stack already, and
\* while it is only emptied the abstract store has it with Existence alone.
Deleting == victim \in Ids /\ call \in {"deleteEntity", "clear"} =>
    storeAfterCall = [nextId   |-> nextId,
                      freedIds |-> pushFreed(freedIds, victim),
                      mask     |-> [componentsPresent EXCEPT ![victim] = {}]]

Clearing == victim \in Ids /\ call = "clearEntity" =>
    storeAfterCall = [nextId   |-> nextId,
                      freedIds |-> freedIds,
                      mask     |-> [componentsPresent EXCEPT ![victim] = {EXISTENCE}]]

LEMMA StoreByPhase == TypeOK => Idle /\ Deleting /\ Clearing
<1> SUFFICES ASSUME TypeOK PROVE Idle /\ Deleting /\ Clearing
  OBVIOUS
<1>1. \A id \in Ids : id # 0
  BY MaxIdAssumption DEF Ids
<1>2. Idle
  <2>1. victim = 0 => [id \in Ids |-> maskAfterCall(id)] = componentsPresent
    BY <1>1 DEF maskAfterCall, TypeOK
  <2> QED
    BY <2>1 DEF Idle, storeAfterCall, beingDeleted
<1>3. Deleting
  <2>1. victim \in Ids /\ beingDeleted =>
            [id \in Ids |-> maskAfterCall(id)] = [componentsPresent EXCEPT ![victim] = {}]
    BY DEF maskAfterCall, TypeOK
  <2> QED
    BY <1>1, <2>1 DEF Deleting, storeAfterCall, beingDeleted
<1>4. Clearing
  <2>1. victim \in Ids /\ ~beingDeleted =>
            [id \in Ids |-> maskAfterCall(id)] = [componentsPresent EXCEPT ![victim] = {EXISTENCE}]
    BY DEF maskAfterCall, TypeOK
  <2> QED
    BY <1>1, <2>1 DEF Clearing, storeAfterCall, beingDeleted
<1> QED
  BY <1>2, <1>3, <1>4

LEMMA StoreByPhaseAfter == TypeOK' => Idle' /\ Deleting' /\ Clearing'
  BY StoreByPhase, PTL

--------------------------------------------------------------------------
(* The store's actions on the State's ids and component types *)

\* The instance has a copy of every definition; these are the ones a step of
\* the store is made of.
LEMMA SameIds == Store!Ids = Ids /\ 0 \notin Ids
  BY MaxIdAssumption DEF Ids, Store!Ids

\* Outside a clearing call, what is no entity has no components.
LEMMA NoEntityNoComponents ==
    ASSUME TypeOK, StoreMatchesMask, PrerequisitesHeld, victim = 0, NEW id \in Ids, id \notin live
    PROVE  componentsPresent[id] = {}
<1>1. EXISTENCE \notin componentsPresent[id]
  BY DEF live, StoreMatchesMask, AllComps
<1>2. \A c \in componentsPresent[id] \intersect Comps : EXISTENCE \in componentsPresent[id]
  BY SameIds DEF PrerequisitesHeld, requiredComps
<1>3. componentsPresent[id] \subseteq AllComps
  BY DEF TypeOK, compMask
<1> QED
  BY <1>1, <1>2, <1>3 DEF AllComps

LEMMA LivesInStore ==
    ASSUME NEW m, NEW id \in Ids
    PROVE  Store!lives(m, id) <=> m.mask[id] # {}
  BY SameIds DEF Store!lives, Store!getComponents

LEMMA LiveHasMask ==
    ASSUME TypeOK, StoreMatchesMask, NEW id \in live
    PROVE  id \in Ids /\ EXISTENCE \in componentsPresent[id]
  BY DEF TypeOK, StoreMatchesMask, live, AllComps

\* The store creates the same entity, or none, and moves the counter and the
\* stack the same way.
LEMMA CreateImplements ==
    ASSUME TypeOK, TypeOK', StoreMatchesMask, PrerequisitesHeld, IdsAccounted, ClearingOK,
           createEntity
    PROVE  Store!createEntity
<1> DEFINE before == [nextId |-> nextId, freedIds |-> freedIds, mask |-> componentsPresent]
           after == [nextId |-> nextId', freedIds |-> freedIds', mask |-> componentsPresent']
<1>1. victim = 0 /\ victim' = 0
  BY CreateEntityEffect DEF ClearingOK
<1>2. storeAfterCall = before /\ storeAfterCall' = after
  BY <1>1, StoreByPhase, StoreByPhaseAfter DEF Idle
<1>3. componentsPresent' = [id \in Ids |-> IF id = Store!newId(before)
                                           THEN {EXISTENCE} ELSE componentsPresent[id]]
  <2>1. ASSUME NEW id \in Ids, Created(id)
        PROVE  /\ Store!newId(before) = id
               /\ componentsPresent' = [componentsPresent EXCEPT ![id] = {EXISTENCE}]
    <3>1. Store!newId(before) = id
      BY <2>1 DEF Created, Store!newId, Store!outOfIds, Store!newIdFrom, outOfIds, newIdFrom
    <3>2. id \notin live
      BY <2>1, FreshId, PoppedId DEF Created, newIdFrom
    <3>3. componentsPresent[id] = {}
      BY <1>1, <3>2, NoEntityNoComponents
    <3> QED
      BY <2>1, <3>1, <3>3 DEF Created
  <2>2. CASE NotCreated
    <3>1. Store!newId(before) = 0
      BY <2>2 DEF NotCreated, Store!newId, Store!outOfIds, outOfIds
    <3> QED
      BY <2>2, <3>1, SameIds DEF NotCreated, TypeOK
  <2> QED
    BY <2>1, <2>2, CreateEntityEffect DEF TypeOK
<1>4. nextId' = Store!nextIdAfter(nextId, freedIds) /\ freedIds' = Store!freedIdsAfter(freedIds)
  BY DEF createEntity, nextIdAfter, freedIdsAfter, Store!nextIdAfter, Store!freedIdsAfter
<1>5. after = Store!created(before)
  BY <1>3, <1>4, SameIds DEF Store!created
<1> QED
  BY <1>2, <1>5 DEF Store!createEntity

\* add<Comp> and insert<Comp> change the store when they succeed.
LEMMA AddImplements ==
    ASSUME TypeOK, TypeOK', StoreMatchesMask, ClearingOK,
           NEW id \in EntityId, NEW c \in Comps, addComp(id, c)
    PROVE  (id \in Ids /\ Store!addComp(id, c)) \/ storeAfterCall' = storeAfterCall
<1> DEFINE before == [nextId |-> nextId, freedIds |-> freedIds, mask |-> componentsPresent]
           after == [nextId |-> nextId', freedIds |-> freedIds', mask |-> componentsPresent']
<1>1. victim = 0 /\ victim' = 0
  BY AddCompEffect DEF ClearingOK
<1>2. storeAfterCall = before /\ storeAfterCall' = after
  BY <1>1, StoreByPhase, StoreByPhaseAfter DEF Idle
<1>3. CASE UNCHANGED << stateVars, systemVars >>
  BY <1>2, <1>3 DEF stateVars
<1>4. CASE id \in Ids /\ Added(id, c) /\ c \in componentsPresent[id]
  <2>1. componentsPresent' = componentsPresent
    BY <1>4 DEF Added, TypeOK
  <2> QED
    BY <1>2, <1>4, <2>1 DEF Added
<1>5. CASE id \in Ids /\ Added(id, c) /\ c \notin componentsPresent[id]
  <2>1. Store!lives(before, id)
    BY <1>5, LivesInStore, LiveHasMask DEF Added
  <2>2. Store!insertable(before, id, c)
    BY <1>5, <2>1 DEF Added, requiredComps, Store!insertable, Store!requiredComps,
                      Store!passesPrerequisitesForAddition
  <2>3. after = Store!inserted(before, id, c)
    BY <1>5, <2>2 DEF Added, Store!inserted, Store!turnOnFlags
  <2> QED
    BY <1>2, <1>5, <2>2, <2>3 DEF Store!addComp
<1> QED
  BY <1>3, <1>4, <1>5, AddCompEffect

\* rem<Comp> changes the store when it succeeds.
LEMMA RemImplements ==
    ASSUME TypeOK, TypeOK', StoreMatchesMask, ClearingOK,
           NEW id \in EntityId, NEW c \in Comps, remComp(id, c)
    PROVE  (id \in Ids /\ Store!remComp(id, c)) \/ storeAfterCall' = storeAfterCall
<1> DEFINE before == [nextId |-> nextId, freedIds |-> freedIds, mask |-> componentsPresent]
           after == [nextId |-> nextId', freedIds |-> freedIds', mask |-> componentsPresent']
<1>1. victim = 0 /\ victim' = 0
  BY RemCompEffect DEF ClearingOK
<1>2. storeAfterCall = before /\ storeAfterCall' = after
  BY <1>1, StoreByPhase, StoreByPhaseAfter DEF Idle
<1>3. CASE UNCHANGED << stateVars, systemVars >>
  BY <1>2, <1>3 DEF stateVars
<1>4. ASSUME id \in Ids, Removed(id, c), dependentComps(c) \intersect componentsPresent[id] = {}
      PROVE  (id \in Ids /\ Store!remComp(id, c)) \/ storeAfterCall' = storeAfterCall
  <2>1. CASE c \notin componentsPresent[id]
    <3>1. componentsPresent' = componentsPresent
      BY <1>4, <2>1 DEF Removed, TypeOK
    <3> QED
      BY <1>2, <1>4, <3>1 DEF Removed
  <2>2. CASE c \in componentsPresent[id]
    <3>1. Store!lives(before, id)
      BY <1>4, <2>2, LivesInStore
    <3>2. Store!removable(before, id, c)
      BY <1>4, <2>2, <3>1 DEF dependentComps, Store!removable, Store!dependentComps,
                              Store!passesDependenciesForRemoval
    <3>3. after = Store!removed(before, id, c)
      BY <1>4, <3>2 DEF Removed, Store!removed, Store!turnOffFlags
    <3> QED
      BY <1>2, <1>4, <3>2, <3>3 DEF Store!remComp
  <2> QED
    BY <2>1, <2>2
<1> QED
  BY <1>3, <1>4, RemCompEffect

--------------------------------------------------------------------------
(* Clearing calls: the store changes when they begin *)

\* clearEntity empties the entity.
LEMMA ClearImplements ==
    ASSUME TypeOK, TypeOK', StoreMatchesMask, ClearingOK, NEW id \in EntityId, clearEntity(id)
    PROVE  (id \in Ids /\ Store!clearEntity(id)) \/ storeAfterCall' = storeAfterCall
<1> DEFINE before == [nextId |-> nextId, freedIds |-> freedIds, mask |-> componentsPresent]
<1>1. victim = 0 /\ UNCHANGED stateVars
  BY BeginClearingEffect DEF ClearingOK
<1>2. storeAfterCall = before
  BY <1>1, StoreByPhase DEF Idle
<1>3. CASE ~count(live, id)
  <2>1. victim' = 0
    BY <1>1, <1>3 DEF clearEntity, beginClearing, Reject, Return
  <2> QED
    BY <1>1, <1>2, <2>1, StoreByPhaseAfter DEF Idle, stateVars
<1>4. CASE count(live, id)
  <2>1. id \in live /\ call' = "clearEntity" /\ victim' = id
    BY <1>4 DEF clearEntity, beginClearing, count
  <2>2. id \in Ids /\ Store!lives(before, id)
    BY <2>1, LivesInStore, LiveHasMask
  <2>3. storeAfterCall' = [nextId |-> nextId, freedIds |-> freedIds,
                           mask |-> [componentsPresent EXCEPT ![id] = {EXISTENCE}]]
    BY <1>1, <2>1, <2>2, StoreByPhaseAfter DEF Clearing, stateVars
  <2>4. storeAfterCall' = Store!cleared(before, id)
    BY <2>2, <2>3 DEF Store!cleared
  <2> QED
    BY <1>2, <2>2, <2>4 DEF Store!clearEntity
<1> QED
  BY <1>3, <1>4

\* Making a live entity the one that is deleted deletes it in the store.
LEMMA VictimImplements ==
    ASSUME TypeOK, TypeOK', StoreMatchesMask, NEW id \in live,
           victim = 0, victim' = id, call' \in {"deleteEntity", "clear"}, UNCHANGED stateVars
    PROVE  id \in Ids /\ Store!deleteEntity(id)
<1> DEFINE before == [nextId |-> nextId, freedIds |-> freedIds, mask |-> componentsPresent]
<1>1. storeAfterCall = before
  BY StoreByPhase DEF Idle
<1>2. id \in Ids /\ Store!lives(before, id)
  BY LivesInStore, LiveHasMask
<1>3. storeAfterCall' = [nextId |-> nextId, freedIds |-> pushFreed(freedIds, id),
                         mask |-> [componentsPresent EXCEPT ![id] = {}]]
  BY <1>2, StoreByPhaseAfter DEF Deleting, stateVars
<1>4. storeAfterCall' = Store!deleted(before, id)
  BY <1>2, <1>3 DEF Store!deleted, Store!pushFreed, pushFreed
<1> QED
  BY <1>1, <1>2, <1>4 DEF Store!deleteEntity

LEMMA DeleteImplements ==
    ASSUME TypeOK, TypeOK', StoreMatchesMask, ClearingOK, NEW id \in EntityId, deleteEntity(id)
    PROVE  (id \in Ids /\ Store!deleteEntity(id)) \/ storeAfterCall' = storeAfterCall
<1>1. victim = 0 /\ UNCHANGED stateVars
  BY BeginClearingEffect DEF ClearingOK
<1>2. CASE ~count(live, id)
  <2>1. victim' = 0
    BY <1>1, <1>2 DEF deleteEntity, beginClearing, Reject, Return
  <2> QED
    BY <1>1, <2>1, StoreByPhase, StoreByPhaseAfter DEF Idle, stateVars
<1>3. CASE count(live, id)
  <2>1. id \in live /\ call' = "deleteEntity" /\ victim' = id
    BY <1>3 DEF deleteEntity, beginClearing, count
  <2> QED
    BY <1>1, <2>1, VictimImplements
<1> QED
  BY <1>2, <1>3

LEMMA ClearNextImplements ==
    ASSUME TypeOK, TypeOK', StoreMatchesMask, NEW id \in Ids, clearNext(id)
    PROVE  (id \in Ids /\ Store!deleteEntity(id)) \/ storeAfterCall' = storeAfterCall
<1>1. victim = 0 /\ call' = "clear" /\ UNCHANGED stateVars
  BY DEF clearNext
<1>2. CASE ~count(live, id)
  <2>1. victim' = 0
    BY <1>1, <1>2 DEF clearNext
  <2> QED
    BY <1>1, <2>1, StoreByPhase, StoreByPhaseAfter DEF Idle, stateVars
<1>3. CASE count(live, id)
  <2>1. id \in live /\ victim' = id
    BY <1>3 DEF clearNext, count
  <2> QED
    BY <1>1, <2>1, VictimImplements
<1> QED
  BY <1>2, <1>3

\* The loop takes from the entity what the store no longer knows it had.
LEMMA LoopStutters ==
    ASSUME TypeOK, TypeOK', ClearingOK, clearLoopBody
    PROVE  storeAfterCall' = storeAfterCall
<1>1. /\ victim \in Ids /\ victim' = victim /\ call' = call
      /\ nextId' = nextId /\ freedIds' = freedIds
      /\ componentsPresent' = [componentsPresent EXCEPT ![victim] = @ \ {CompOrder[pos]}]
  BY ClearLoopBodyEffect DEF Removed
<1>2. call \in {"clearEntity", "deleteEntity", "clear"}
  BY <1>1, SameIds DEF ClearingOK
<1>3. ASSUME NEW left
      PROVE  [componentsPresent' EXCEPT ![victim] = left] = [componentsPresent EXCEPT ![victim] = left]
  BY <1>1 DEF TypeOK
<1>4. CASE call = "clearEntity"
  BY <1>1, <1>3, <1>4, StoreByPhase, StoreByPhaseAfter DEF Clearing
<1>5. CASE call \in {"deleteEntity", "clear"}
  BY <1>1, <1>3, <1>5, StoreByPhase, StoreByPhaseAfter DEF Deleting
<1> QED
  BY <1>2, <1>4, <1>5

\* When a clearing call returns, the State has become what the store was.
LEMMA ClearReturnStutters ==
    ASSUME TypeOK, TypeOK', ClearingOK, clearEntityReturns
    PROVE  storeAfterCall' = storeAfterCall
<1>1. victim \in Ids /\ call = "clearEntity" /\ victim' = 0 /\ UNCHANGED stateVars
  BY DEF clearEntityReturns, clearLoopDone, TypeOK
<1>2. componentsPresent[victim] = {EXISTENCE}
  BY ClearedVictim DEF clearEntityReturns, clearLoopDone
<1>3. [componentsPresent EXCEPT ![victim] = {EXISTENCE}] = componentsPresent
  BY <1>1, <1>2 DEF TypeOK
<1> QED
  BY <1>1, <1>3, StoreByPhase, StoreByPhaseAfter DEF Idle, Clearing, stateVars

LEMMA DeleteReturnStutters ==
    ASSUME TypeOK, TypeOK', ClearingOK, deleteEntityReturns
    PROVE  storeAfterCall' = storeAfterCall
<1>1. victim \in Ids /\ call \in {"deleteEntity", "clear"} /\ victim' = 0 /\ nextId' = nextId
  BY DeleteEntityEffect
<1>2. componentsPresent[victim] = {EXISTENCE}
  BY ClearedVictim DEF deleteEntityReturns, clearLoopDone
<1>3. Erased(victim)
  BY <1>2, DeleteEntityEffect
<1> QED
  BY <1>1, <1>3, StoreByPhase, StoreByPhaseAfter DEF Idle, Deleting, Erased

\* Everything else leaves entities alone.
LEMMA RestStutters ==
    ASSUME TypeOK, TypeOK', ClearingOK,
           \/ \E s \in Systems : listenForLikeEntities(s)
           \/ clear \/ clearReturns \/ UNCHANGED vars
    PROVE  storeAfterCall' = storeAfterCall
<1>1. CASE clear \/ clearReturns
  <2>1. victim = 0 /\ victim' = 0 /\ UNCHANGED stateVars
    BY <1>1 DEF clear, clearReturns, ClearingOK
  <2> QED
    BY <2>1, StoreByPhase, StoreByPhaseAfter DEF Idle, stateVars
<1>2. CASE (\E s \in Systems : listenForLikeEntities(s)) \/ UNCHANGED vars
  <2>1. UNCHANGED << nextId, freedIds, componentsPresent, call, victim >>
    BY <1>2 DEF listenForLikeEntities, vars, stateVars, callVars
  <2> QED
    BY <2>1 DEF storeAfterCall, beingDeleted, maskAfterCall
<1> QED
  BY <1>1, <1>2

--------------------------------------------------------------------------
\* Every call on a State changes its entities in one step or not at all, as
\* EntityStore says, for all component types, dependencies and widths of ids.
THEOREM StateImplementsStore == Spec => ImplementsStore
<1>1. Init => Store!Init
  <2> SUFFICES ASSUME Init PROVE Store!Init
    OBVIOUS
  <2>1. ~beingDeleted /\ \A id \in Ids : maskAfterCall(id) = {}
    BY SameIds DEF Init, beingDeleted, maskAfterCall
  <2> QED
    BY <2>1, SameIds DEF Init, storeAfterCall, Store!Init, Store!emptyMachine
<1>2. ASSUME TypeOK, TypeOK', StoreMatchesMask, PrerequisitesHeld, IdsAccounted, ClearingOK, [Next]_vars
      PROVE  [Store!Next]_storeAfterCall
  <2>1. CASE createEntity
    BY <1>2, <2>1, CreateImplements DEF Store!Next
  <2>2. ASSUME NEW id \in EntityId, NEW c \in Comps, addComp(id, c)
        PROVE  [Store!Next]_storeAfterCall
    BY <1>2, <2>2, AddImplements, SameIds DEF Store!Next
  <2>3. ASSUME NEW id \in EntityId, NEW c \in Comps, remComp(id, c)
        PROVE  [Store!Next]_storeAfterCall
    BY <1>2, <2>3, RemImplements, SameIds DEF Store!Next
  <2>4. ASSUME NEW id \in EntityId, clearEntity(id)
        PROVE  [Store!Next]_storeAfterCall
    BY <1>2, <2>4, ClearImplements, SameIds DEF Store!Next
  <2>5. ASSUME NEW id \in EntityId, deleteEntity(id)
        PROVE  [Store!Next]_storeAfterCall
    BY <1>2, <2>5, DeleteImplements, SameIds DEF Store!Next
  <2>6. ASSUME NEW id \in Ids, clearNext(id)
        PROVE  [Store!Next]_storeAfterCall
    BY <1>2, <2>6, ClearNextImplements, SameIds DEF Store!Next
  <2>7. CASE clearLoopBody
    BY <1>2, <2>7, LoopStutters
  <2>8. CASE clearEntityReturns
    BY <1>2, <2>8, ClearReturnStutters
  <2>9. CASE deleteEntityReturns
    BY <1>2, <2>9, DeleteReturnStutters
  <2>10. CASE (\E s \in Systems : listenForLikeEntities(s)) \/ clear \/ clearReturns \/ UNCHANGED vars
    BY <1>2, <2>10, RestStutters
  <2> QED
    BY <1>2, <2>1, <2>2, <2>3, <2>4, <2>5, <2>6, <2>7, <2>8, <2>9, <2>10 DEF Next
<1> QED
  BY <1>1, <1>2, TypeCorrect, StoreCorrect, PrerequisitesCorrect, IdsCorrect, ClearingCorrect, PTL
     DEF Spec, ImplementsStore, Store!Spec

====
