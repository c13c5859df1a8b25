---- MODULE EcsStateProofs ----
(***************************************************************************)
(* The safety properties of EcsState for every set of component types,     *)
(* every prerequisite relation, every declaration order, every number of   *)
(* ids and every collection of listening Systems.                          *)
(***************************************************************************)
EXTENDS EcsState, TLAPS

\* deleteEntity puts an id on top of the stack and leaves the rest as it is.
LEMMA PushFreedStack ==
    ASSUME NEW S, NEW s \in Seq(S), NEW e \in S
    PROVE  /\ pushFreed(s, e) \in Seq(S)
           /\ DOMAIN pushFreed(s, e) = 1 .. Len(s) + 1
           /\ pushFreed(s, e)[1] = e
           /\ \A i \in 1 .. Len(s) : pushFreed(s, e)[i + 1] = s[i]
  BY DEF pushFreed

\* createEntity takes the top of the stack and leaves the rest.
LEMMA PopFreedStack ==
    ASSUME NEW S, NEW s \in Seq(S), s # << >>
    PROVE  /\ freedIdsAfter(s) \in Seq(S)
           /\ Head(s) = s[1] /\ Head(s) \in S
           /\ Len(s) \in Nat /\ Len(s) >= 1
           /\ DOMAIN freedIdsAfter(s) = 1 .. Len(s) - 1
           /\ \A i \in 1 .. Len(s) - 1 : freedIdsAfter(s)[i] = s[i + 1]
  BY DEF freedIdsAfter

--------------------------------------------------------------------------
(* Types *)

\* The two ways a registry changes keep it within its bounds.
LEMMA DiscoverType ==
    ASSUME TypeOK, NEW id \in Ids, NEW fired \in SUBSET Listeners, discover(id, fired)
    PROVE  registry' \in [Listeners -> [Ids -> 0 .. MaxCopies]]
<1>1. PICK refused \in SUBSET (fired \intersect PickyDiscover) :
        /\ \A l \in fired \ refused : registry[l][id] < MaxCopies
        /\ registry' = [l \in Listeners |->
              IF l \in fired \ refused
              THEN [registry[l] EXCEPT ![id] = @ + 1] ELSE registry[l]]
  BY DEF discover
<1>2. MaxCopies \in Nat
  BY ListenersAssumption
<1>3. ASSUME NEW l \in Listeners, l \in fired \ refused
      PROVE  [registry[l] EXCEPT ![id] = @ + 1] \in [Ids -> 0 .. MaxCopies]
  <2>1. registry[l] \in [Ids -> 0 .. MaxCopies]
    BY DEF TypeOK
  <2>2. registry[l][id] + 1 \in 0 .. MaxCopies
    <3>1. registry[l][id] \in 0 .. MaxCopies /\ registry[l][id] < MaxCopies
      BY <1>1, <1>3, <2>1
    <3> QED
      BY <1>2, <3>1
  <2> QED
    BY <2>1, <2>2
<1> QED
  BY <1>1, <1>3 DEF TypeOK

LEMMA ForgetType ==
    ASSUME TypeOK, NEW id \in Ids, NEW fired \in SUBSET Listeners, forget(id, fired)
    PROVE  registry' \in [Listeners -> [Ids -> 0 .. MaxCopies]]
<1>1. PICK refused \in SUBSET {l \in fired \intersect PickyForget : registry[l][id] > 0} :
        registry' = [l \in Listeners |->
              IF l \in fired \ refused /\ registry[l][id] > 0
              THEN [registry[l] EXCEPT ![id] = @ - 1] ELSE registry[l]]
  BY DEF forget
<1>2. MaxCopies \in Nat
  BY ListenersAssumption
<1>3. ASSUME NEW l \in Listeners, registry[l][id] > 0
      PROVE  [registry[l] EXCEPT ![id] = @ - 1] \in [Ids -> 0 .. MaxCopies]
  <2>1. registry[l] \in [Ids -> 0 .. MaxCopies]
    BY DEF TypeOK
  <2>2. registry[l][id] - 1 \in 0 .. MaxCopies
    <3>1. registry[l][id] \in 0 .. MaxCopies
      BY <2>1
    <3> QED
      BY <1>2, <1>3, <3>1
  <2> QED
    BY <2>1, <2>2
<1> QED
  BY <1>1, <1>3 DEF TypeOK

\* The clearing loop runs over component types.
LEMMA OrderType ==
    /\ Len(CompOrder) \in Nat
    /\ \A i \in 1 .. Len(CompOrder) : CompOrder[i] \in Comps
    /\ \A c \in Comps : \E i \in 1 .. Len(CompOrder) : CompOrder[i] = c
  BY CompsAssumption

\* An id createEntity hands out is an id.
LEMMA NewIdType ==
    ASSUME TypeOK, ~outOfIds(nextId, freedIds)
    PROVE  newIdFrom(nextId, freedIds) \in Ids
<1>1. CASE freedIds = << >>
  BY <1>1, MaxIdAssumption DEF TypeOK, EntityId, Ids, outOfIds, newIdFrom
<1>2. CASE freedIds # << >>
  BY <1>2, PopFreedStack DEF TypeOK, newIdFrom
<1> QED
  BY <1>1, <1>2

LEMMA RemCompType ==
    ASSUME TypeOK, NEW id \in Ids, NEW c \in Comps, remCompNoChecks(id, c)
    PROVE  /\ nextId' \in EntityId
           /\ freedIds' \in Seq(Ids)
           /\ comps' \in [AllComps -> SUBSET Ids]
           /\ componentsPresent' \in [Ids -> compMask]
           /\ addCallbacks' \in [Comps -> SUBSET Listeners]
           /\ remCallbacks' \in [Comps -> SUBSET Listeners]
           /\ constructed' \subseteq Systems
           /\ registry' \in [Listeners -> [Ids -> 0 .. MaxCopies]]
<1>1. remFires(id, c) \in SUBSET Listeners
  BY DEF TypeOK, remFires
<1>2. registry' \in [Listeners -> [Ids -> 0 .. MaxCopies]]
  BY <1>1, ForgetType DEF remCompNoChecks
<1>3. comps' \in [AllComps -> SUBSET Ids]
  BY DEF TypeOK, remCompNoChecks, erase, AllComps
<1>4. componentsPresent' \in [Ids -> compMask]
  BY DEF TypeOK, remCompNoChecks, turnOffFlags, compMask
<1> QED
  BY <1>2, <1>3, <1>4 DEF TypeOK, remCompNoChecks

\* Every variable keeps its type; in particular createEntity stops before the
\* counter of ids wraps around and never hands out the failure value 0.
THEOREM TypeCorrect == Spec => []TypeOK
<1>1. Init => TypeOK
  <2> SUFFICES ASSUME Init PROVE TypeOK
    OBVIOUS
  <2>1. MaxId \in Nat /\ MaxCopies \in Nat
    BY MaxIdAssumption, ListenersAssumption
  <2>2. /\ nextId \in EntityId
        /\ freedIds \in Seq(Ids)
        /\ comps \in [AllComps -> SUBSET Ids]
        /\ componentsPresent \in [Ids -> compMask]
    BY <2>1 DEF Init, compMask, EntityId
  <2>3. /\ addCallbacks \in [Comps -> SUBSET Listeners]
        /\ remCallbacks \in [Comps -> SUBSET Listeners]
        /\ constructed \subseteq Systems
        /\ registry \in [Listeners -> [Ids -> 0 .. MaxCopies]]
    BY <2>1 DEF Init
  <2>4. /\ call \in {"idle", "clearEntity", "deleteEntity", "clear"}
        /\ victim \in {0} \union Ids
        /\ pos \in 1 .. Len(CompOrder) + 1
        /\ doomed \subseteq Ids
        /\ ret \in CompOpReturn
    BY OrderType DEF Init, CompOpReturn
  <2> QED
    BY <2>2, <2>3, <2>4 DEF TypeOK
<1>2. TypeOK /\ [Next]_vars => TypeOK'
  <2> SUFFICES ASSUME TypeOK, [Next]_vars PROVE TypeOK'
    OBVIOUS
  <2>t. live \subseteq Ids /\ MaxId \in Nat
    BY MaxIdAssumption DEF TypeOK, live, AllComps
  <2>1. CASE createEntity
    <3>1. CASE outOfIds(nextId, freedIds)
      <4>1. nextId' \in EntityId /\ freedIds' \in Seq(Ids)
        BY <2>1, <2>t, <3>1 DEF createEntity, outOfIds, nextIdAfter, freedIdsAfter, TypeOK, EntityId
      <4> QED
        BY <2>1, <3>1, <4>1 DEF createEntity, Return, systemVars, TypeOK, CompOpReturn
    <3>2. CASE ~outOfIds(nextId, freedIds)
      <4> DEFINE id == newIdFrom(nextId, freedIds)
      <4>1. id \in Ids
        BY <3>2, NewIdType
      <4>2. nextId' \in EntityId
        BY <2>1, <2>t DEF createEntity, nextIdAfter, TypeOK, EntityId
      <4>3. freedIds' \in Seq(Ids)
        BY <2>1, PopFreedStack DEF createEntity, freedIdsAfter, TypeOK
      <4>4. comps' \in [AllComps -> SUBSET Ids]
        <5>1. comps' = [comps EXCEPT ![EXISTENCE] = @ \union {id}]
          BY <2>1, <3>2 DEF createEntity, try_emplace
        <5>2. EXISTENCE \in AllComps /\ comps \in [AllComps -> SUBSET Ids]
          BY <2>t DEF TypeOK, AllComps
        <5> QED
          BY <4>1, <5>1, <5>2
      <4>5. componentsPresent' \in [Ids -> compMask]
        <5>1. componentsPresent' = [componentsPresent EXCEPT ![id] = @ \union {EXISTENCE}]
          BY <2>1, <3>2 DEF createEntity, turnOnFlags
        <5>2. componentsPresent[id] \union {EXISTENCE} \in compMask
          BY <4>1 DEF TypeOK, AllComps, compMask
        <5> QED
          BY <5>1, <5>2 DEF TypeOK
      <4> QED
        BY <2>1, <3>2, <4>2, <4>3, <4>4, <4>5
           DEF createEntity, Return, systemVars, TypeOK, CompOpReturn
    <3> QED
      BY <3>1, <3>2
  <2>2. ASSUME NEW id \in EntityId, NEW c \in Comps, addComp(id, c)
        PROVE  TypeOK'
    <3>1. CASE ret' # "SUCCESS"
      BY <2>2, <3>1 DEF addComp, Reject, Return, stateVars, systemVars, TypeOK, CompOpReturn
    <3>2. CASE ret' = "SUCCESS"
      <4>1. /\ id \in Ids
            /\ comps' = [comps EXCEPT ![c] = try_emplace(@, id)]
            /\ discover(id, addFires(id, c))
            /\ componentsPresent' = [componentsPresent EXCEPT ![id] = turnOnFlags(@, {c})]
            /\ UNCHANGED << nextId, freedIds, addCallbacks, remCallbacks, constructed >>
            /\ UNCHANGED << call, victim, pos, doomed >>
        BY <2>2, <2>t, <3>2 DEF addComp, Reject, Return, count
      <4>2. addFires(id, c) \in SUBSET Listeners
        BY DEF TypeOK, addFires
      <4>3. registry' \in [Listeners -> [Ids -> 0 .. MaxCopies]]
        BY <4>1, <4>2, DiscoverType
      <4>4. comps' \in [AllComps -> SUBSET Ids]
        BY <4>1 DEF TypeOK, try_emplace, AllComps
      <4>5. componentsPresent' \in [Ids -> compMask]
        BY <4>1 DEF TypeOK, turnOnFlags, compMask, AllComps
      <4> QED
        BY <3>2, <4>1, <4>3, <4>4, <4>5 DEF TypeOK, CompOpReturn
    <3> QED
      BY <3>1, <3>2
  <2>3. ASSUME NEW id \in EntityId, NEW c \in Comps, remComp(id, c)
        PROVE  TypeOK'
    <3>1. CASE ret' # "SUCCESS"
      BY <2>3, <3>1 DEF remComp, Reject, Return, stateVars, systemVars, TypeOK, CompOpReturn
    <3>2. CASE ret' = "SUCCESS"
      <4>1. id \in Ids /\ remCompNoChecks(id, c) /\ UNCHANGED << call, victim, pos, doomed >>
        BY <2>3, <2>t, <3>2 DEF remComp, Reject, Return, count
      <4> QED
        BY <3>2, <4>1, RemCompType DEF TypeOK, CompOpReturn
    <3> QED
      BY <3>1, <3>2
  <2>4. ASSUME NEW s \in Systems, listenForLikeEntities(s)
        PROVE  TypeOK'
    BY <2>4 DEF listenForLikeEntities, stateVars, callVars, TypeOK
  <2>5. ASSUME NEW id \in EntityId, clearEntity(id) \/ deleteEntity(id)
        PROVE  TypeOK'
    <3>1. CASE ~count(live, id)
      BY <2>5, <3>1 DEF clearEntity, deleteEntity, beginClearing, Reject, Return,
                        stateVars, systemVars, TypeOK, CompOpReturn
    <3>2. CASE count(live, id)
      BY <2>5, <2>t, <3>2, OrderType
         DEF clearEntity, deleteEntity, beginClearing, count, stateVars, systemVars, TypeOK
    <3> QED
      BY <3>1, <3>2
  <2>6. CASE clear
    BY <2>6, <2>t DEF clear, idsToErase, stateVars, systemVars, TypeOK
  <2>7. ASSUME NEW id \in Ids, clearNext(id)
        PROVE  TypeOK'
    BY <2>7, OrderType DEF clearNext, stateVars, systemVars, TypeOK, CompOpReturn
  <2>8. CASE clearLoopBody
    <3>1. victim \in Ids /\ CompOrder[pos] \in Comps /\ pos' \in 1 .. Len(CompOrder) + 1
      BY <2>8, OrderType DEF clearLoopBody, TypeOK
    <3> QED
      BY <2>8, <3>1, RemCompType DEF clearLoopBody, TypeOK
  <2>9. CASE clearEntityReturns
    BY <2>9, OrderType DEF clearEntityReturns, clearedStatus, stateVars, systemVars, TypeOK,
                           CompOpReturn
  <2>10. CASE deleteEntityReturns
    <3>1. victim \in Ids
      BY <2>10 DEF deleteEntityReturns, clearLoopDone, TypeOK
    <3>2. comps' \in [AllComps -> SUBSET Ids]
      <4>1. \/ comps' = [comps EXCEPT ![EXISTENCE] = @ \ {victim}]
            \/ comps' = comps
        BY <2>10 DEF deleteEntityReturns, erase
      <4>2. comps[EXISTENCE] \ {victim} \in SUBSET Ids
        BY <2>t DEF live
      <4> QED
        BY <4>1, <4>2 DEF TypeOK
    <3>3. componentsPresent' \in [Ids -> compMask]
      <4>1. {} \in compMask
        BY DEF compMask
      <4> QED
        BY <2>10, <4>1 DEF deleteEntityReturns, TypeOK
    <3>4. freedIds' \in Seq(Ids)
      <4>1. pushFreed(freedIds, victim) \in Seq(Ids)
        BY <3>1, PushFreedStack DEF TypeOK
      <4> QED
        BY <2>10, <4>1 DEF deleteEntityReturns, TypeOK
    <3> QED
      BY <2>10, <3>2, <3>3, <3>4, OrderType
         DEF deleteEntityReturns, clearedStatus, systemVars, TypeOK, CompOpReturn
  <2>11. CASE clearReturns
    BY <2>11 DEF clearReturns, stateVars, systemVars, TypeOK
  <2>12. CASE UNCHANGED vars
    BY <2>12 DEF vars, stateVars, systemVars, callVars, TypeOK
  <2> QED
    BY <2>1, <2>2, <2>3, <2>4, <2>5, <2>6, <2>7, <2>8, <2>9, <2>10, <2>11, <2>12 DEF Next
<1> QED
  BY <1>1, <1>2, PTL DEF Spec

--------------------------------------------------------------------------
(* What a step does to entities, from the actions, in terms of sets *)

\* createEntity makes one entity, which has no component yet, or none.
Created(id) ==
    /\ ~outOfIds(nextId, freedIds) /\ id = newIdFrom(nextId, freedIds)
    /\ nextId' = nextIdAfter(nextId, freedIds)
    /\ freedIds' = freedIdsAfter(freedIds)
    /\ comps' = [comps EXCEPT ![EXISTENCE] = @ \union {id}]
    /\ componentsPresent' = [componentsPresent EXCEPT ![id] = @ \union {EXISTENCE}]

NotCreated ==
    /\ outOfIds(nextId, freedIds)
    /\ nextId' = nextIdAfter(nextId, freedIds)
    /\ freedIds' = freedIdsAfter(freedIds)
    /\ UNCHANGED << comps, componentsPresent >>

LEMMA CreateEntityEffect ==
    ASSUME TypeOK, createEntity
    PROVE  /\ (\E id \in Ids : Created(id)) \/ NotCreated
           /\ call = "idle"
           /\ ret' \in {"SUCCESS", "MAX_ID_REACHED"}
           /\ UNCHANGED << systemVars, call, victim, pos, doomed >>
<1>1. CASE outOfIds(nextId, freedIds)
  BY <1>1 DEF createEntity, NotCreated, Return
<1>2. CASE ~outOfIds(nextId, freedIds)
  BY <1>2, NewIdType DEF createEntity, Created, Return, try_emplace, turnOnFlags
<1> QED
  BY <1>1, <1>2

\* addComp gives an entity with the prerequisites one more component, or
\* does nothing.
Added(id, c) ==
    /\ id \in live /\ requiredComps(c) \subseteq componentsPresent[id]
    /\ comps' = [comps EXCEPT ![c] = @ \union {id}]
    /\ componentsPresent' = [componentsPresent EXCEPT ![id] = @ \union {c}]
    /\ discover(id, addFires(id, c))
    /\ UNCHANGED << nextId, freedIds, addCallbacks, remCallbacks, constructed >>

LEMMA AddCompEffect ==
    ASSUME TypeOK, NEW id \in EntityId, NEW c \in Comps, addComp(id, c)
    PROVE  /\ \/ id \in Ids /\ Added(id, c)
              \/ UNCHANGED << stateVars, systemVars >>
           /\ call = "idle"
           /\ ret' # "SOMETHING_REALLY_BAD"
           /\ UNCHANGED << call, victim, pos, doomed >>
<1>1. live \subseteq Ids
  BY DEF TypeOK, live, AllComps
<1>2. CASE ret' # "SUCCESS"
  BY <1>2 DEF addComp, Reject, Return
<1>3. CASE ret' = "SUCCESS"
  BY <1>1, <1>3 DEF addComp, Added, Reject, Return, count, try_emplace, turnOnFlags,
                    passesPrerequisitesForAddition
<1> QED
  BY <1>2, <1>3

\* remCompNoChecks takes a component away, if it is there.
Removed(id, c) ==
    /\ comps' = [comps EXCEPT ![c] = @ \ {id}]
    /\ componentsPresent' = [componentsPresent EXCEPT ![id] = @ \ {c}]
    /\ forget(id, remFires(id, c))
    /\ UNCHANGED << nextId, freedIds, addCallbacks, remCallbacks, constructed >>

LEMMA RemCompEffect ==
    ASSUME TypeOK, NEW id \in EntityId, NEW c \in Comps, remComp(id, c)
    PROVE  /\ \/ /\ id \in Ids /\ Removed(id, c)
                 /\ dependentComps(c) \intersect componentsPresent[id] = {}
              \/ UNCHANGED << stateVars, systemVars >>
           /\ call = "idle"
           /\ ret' # "SOMETHING_REALLY_BAD"
           /\ UNCHANGED << call, victim, pos, doomed >>
<1>1. live \subseteq Ids
  BY DEF TypeOK, live, AllComps
<1>2. CASE ret' # "SUCCESS"
  BY <1>2 DEF remComp, Reject, Return
<1>3. CASE ret' = "SUCCESS"
  BY <1>1, <1>3 DEF remComp, Removed, remCompNoChecks, Reject, Return, count, erase, turnOffFlags,
                    passesDependenciesForRemoval
<1> QED
  BY <1>2, <1>3

LEMMA ClearLoopBodyEffect ==
    ASSUME TypeOK, clearLoopBody
    PROVE  /\ victim \in Ids
           /\ pos \in 1 .. Len(CompOrder) /\ CompOrder[pos] \in Comps
           /\ Removed(victim, CompOrder[pos])
           /\ pos' = pos + 1
           /\ UNCHANGED << call, victim, doomed, ret >>
  BY OrderType DEF clearLoopBody, TypeOK, Removed, remCompNoChecks, erase, turnOffFlags

\* The end of deleteEntity erases the entity and keeps its id for later.
Erased(id) ==
    /\ componentsPresent[id] = {EXISTENCE}
    /\ comps' = [comps EXCEPT ![EXISTENCE] = @ \ {id}]
    /\ componentsPresent' = [componentsPresent EXCEPT ![id] = {}]
    /\ freedIds' = pushFreed(freedIds, id)

LEMMA DeleteEntityEffect ==
    ASSUME TypeOK, deleteEntityReturns
    PROVE  /\ victim \in Ids /\ pos > Len(CompOrder)
           /\ call \in {"deleteEntity", "clear"}
           /\ \/ Erased(victim) /\ ret' = "SUCCESS"
              \/ /\ componentsPresent[victim] # {EXISTENCE}
                 /\ UNCHANGED << comps, componentsPresent, freedIds >>
           /\ call' = IF call = "clear" THEN "clear" ELSE "idle"
           /\ victim' = 0 /\ pos' = 1
           /\ UNCHANGED << nextId, systemVars, doomed >>
<1>1. victim \in Ids /\ pos > Len(CompOrder)
  BY DEF deleteEntityReturns, clearLoopDone, TypeOK
<1>2. CASE componentsPresent[victim] = {EXISTENCE}
  BY <1>1, <1>2 DEF deleteEntityReturns, clearedStatus, Erased, erase
<1>3. CASE componentsPresent[victim] # {EXISTENCE}
  BY <1>1, <1>3 DEF deleteEntityReturns, clearedStatus
<1> QED
  BY <1>2, <1>3 DEF deleteEntityReturns

\* The remaining steps leave every entity and registry as it is.
LEMMA BeginClearingEffect ==
    ASSUME TypeOK, NEW id \in EntityId, clearEntity(id) \/ deleteEntity(id)
    PROVE  /\ call = "idle"
           /\ \/ /\ id \in Ids /\ id \in live
                 /\ call' \in {"clearEntity", "deleteEntity"}
                 /\ victim' = id /\ pos' = 1 /\ ret' = ret
              \/ /\ ret' = "NONEXISTENT_ENT"
                 /\ UNCHANGED << call, victim, pos >>
           /\ UNCHANGED << stateVars, systemVars, doomed >>
<1>1. live \subseteq Ids
  BY DEF TypeOK, live, AllComps
<1>2. CASE ~count(live, id)
  BY <1>2 DEF clearEntity, deleteEntity, beginClearing, Reject, Return
<1>3. CASE count(live, id)
  BY <1>1, <1>3 DEF clearEntity, deleteEntity, beginClearing, count
<1> QED
  BY <1>2, <1>3

--------------------------------------------------------------------------
(* Masks and collections *)

LEMMA StoreStep ==
    ASSUME TypeOK, TypeOK', StoreMatchesMask, [Next]_vars
    PROVE  StoreMatchesMask'
<1>1. ASSUME NEW id \in Ids, NEW c \in AllComps,
             comps' = [comps EXCEPT ![c] = @ \union {id}],
             componentsPresent' = [componentsPresent EXCEPT ![id] = @ \union {c}]
      PROVE  StoreMatchesMask'
  BY <1>1 DEF StoreMatchesMask, TypeOK
<1>2. ASSUME NEW id \in Ids, NEW c \in AllComps,
             comps' = [comps EXCEPT ![c] = @ \ {id}],
             componentsPresent' = [componentsPresent EXCEPT ![id] = @ \ {c}]
      PROVE  StoreMatchesMask'
  BY <1>2 DEF StoreMatchesMask, TypeOK
<1>3. ASSUME UNCHANGED << comps, componentsPresent >>
      PROVE  StoreMatchesMask'
  BY <1>3 DEF StoreMatchesMask
<1>4. EXISTENCE \in AllComps /\ \A c \in Comps : c \in AllComps
  BY DEF AllComps
<1>5. CASE createEntity
  BY <1>1, <1>3, <1>4, <1>5, CreateEntityEffect DEF Created, NotCreated
<1>6. ASSUME NEW id \in EntityId, NEW c \in Comps, addComp(id, c)
      PROVE  StoreMatchesMask'
  BY <1>1, <1>3, <1>4, <1>6, AddCompEffect DEF Added, stateVars
<1>7. ASSUME NEW id \in EntityId, NEW c \in Comps, remComp(id, c)
      PROVE  StoreMatchesMask'
  BY <1>2, <1>3, <1>4, <1>7, RemCompEffect DEF Removed, stateVars
<1>8. CASE clearLoopBody
  BY <1>2, <1>4, <1>8, ClearLoopBodyEffect DEF Removed
<1>9. CASE deleteEntityReturns
  <2>1. CASE Erased(victim)
    <3>1. victim \in Ids
      BY <1>9, DeleteEntityEffect
    <3>2. componentsPresent' = [componentsPresent EXCEPT ![victim] = @ \ {EXISTENCE}]
      BY <2>1, <3>1 DEF Erased, TypeOK
    <3> QED
      BY <1>2, <1>4, <2>1, <3>1, <3>2 DEF Erased
  <2> QED
    BY <1>3, <1>9, <2>1, DeleteEntityEffect
<1>10. ASSUME NEW id \in EntityId, clearEntity(id) \/ deleteEntity(id)
       PROVE  StoreMatchesMask'
  BY <1>3, <1>10, BeginClearingEffect DEF stateVars
<1>11. ASSUME \/ \E s \in Systems : listenForLikeEntities(s)
              \/ clear \/ (\E id \in Ids : clearNext(id))
              \/ clearEntityReturns \/ clearReturns \/ UNCHANGED vars
       PROVE  StoreMatchesMask'
  BY <1>3, <1>11 DEF listenForLikeEntities, clear, clearNext, clearEntityReturns, clearReturns,
                     vars, stateVars
<1> QED
  BY <1>5, <1>6, <1>7, <1>8, <1>9, <1>10, <1>11 DEF Next

\* At every step of every call, an entity's mask names exactly the
\* collections that hold its id, whatever the prerequisites and their order.
THEOREM StoreCorrect == Spec => []StoreMatchesMask
<1>1. Init => StoreMatchesMask
  BY DEF Init, StoreMatchesMask, AllComps
<1>2. TypeOK /\ TypeOK' /\ StoreMatchesMask /\ [Next]_vars => StoreMatchesMask'
  BY StoreStep
<1> QED
  BY <1>1, <1>2, TypeCorrect, PTL DEF Spec

--------------------------------------------------------------------------
(* Clearing *)

\* What holds while a clearing method runs: its entity exists and has lost
\* the components the loop has passed, and between two methods there is no
\* such entity.
ClearingOK ==
    /\ call \in {"clearEntity", "deleteEntity"} <=> (victim # 0 /\ call # "clear")
    /\ victim # 0 =>
        /\ EXISTENCE \in componentsPresent[victim]
        /\ \A i \in 1 .. pos - 1 : CompOrder[i] \notin componentsPresent[victim]

\* When the loop is done nothing but Existence is left.
LEMMA ClearedVictim ==
    ASSUME TypeOK, ClearingOK, victim # 0, pos > Len(CompOrder)
    PROVE  componentsPresent[victim] = {EXISTENCE}
<1>1. victim \in Ids /\ pos - 1 = Len(CompOrder)
  BY OrderType DEF TypeOK
<1>2. \A c \in Comps : c \notin componentsPresent[victim]
  BY <1>1, OrderType DEF ClearingOK
<1>3. componentsPresent[victim] \subseteq AllComps
  BY <1>1 DEF TypeOK, compMask
<1> QED
  BY <1>2, <1>3 DEF ClearingOK, AllComps

LEMMA ClearingStep ==
    ASSUME TypeOK, TypeOK', StoreMatchesMask, ClearingOK, [Next]_vars
    PROVE  ClearingOK'
<1>1. CASE createEntity
  BY <1>1, CreateEntityEffect DEF ClearingOK
<1>2. ASSUME NEW id \in EntityId, NEW c \in Comps, addComp(id, c)
      PROVE  ClearingOK'
  BY <1>2, AddCompEffect DEF ClearingOK
<1>3. ASSUME NEW id \in EntityId, NEW c \in Comps, remComp(id, c)
      PROVE  ClearingOK'
  BY <1>3, RemCompEffect DEF ClearingOK
<1>4. ASSUME NEW id \in EntityId, clearEntity(id) \/ deleteEntity(id)
      PROVE  ClearingOK'
  <2>1. CASE id \in Ids /\ id \in live /\ victim' = id
    <3>1. EXISTENCE \in componentsPresent'[id]
      BY <1>4, <2>1, BeginClearingEffect DEF StoreMatchesMask, live, AllComps, stateVars
    <3>2. victim' # 0 /\ pos' = 1 /\ call' \in {"clearEntity", "deleteEntity"}
      BY <1>4, <2>1, BeginClearingEffect DEF ClearingOK, Ids, TypeOK
    <3> QED
      BY <2>1, <3>1, <3>2 DEF ClearingOK
  <2> QED
    BY <1>4, <2>1, BeginClearingEffect DEF ClearingOK, stateVars
<1>5. ASSUME NEW id \in Ids, clearNext(id)
      PROVE  ClearingOK'
  <2>1. CASE count(live, id)
    <3>1. EXISTENCE \in componentsPresent'[id] /\ victim' = id /\ pos' = 1
      BY <1>5, <2>1 DEF clearNext, StoreMatchesMask, live, AllComps, stateVars, count
    <3> QED
      BY <1>5, <3>1 DEF ClearingOK, clearNext
  <2>2. CASE ~count(live, id)
    BY <1>5, <2>2 DEF ClearingOK, clearNext, stateVars
  <2> QED
    BY <2>1, <2>2
<1>6. CASE clearLoopBody
  <2>1. /\ victim \in Ids /\ pos \in 1 .. Len(CompOrder) /\ CompOrder[pos] \in Comps
        /\ componentsPresent'[victim] = componentsPresent[victim] \ {CompOrder[pos]}
        /\ pos' = pos + 1
        /\ UNCHANGED << call, victim >>
    BY <1>6, ClearLoopBodyEffect DEF Removed, TypeOK
  <2>2. victim # 0 /\ EXISTENCE # CompOrder[pos]
    BY <1>6, <2>1, CompsAssumption DEF clearLoopBody
  <2>3. \A i \in 1 .. pos' - 1 : CompOrder[i] \notin componentsPresent'[victim]
    BY <2>1, <2>2, OrderType DEF ClearingOK
  <2> QED
    BY <2>1, <2>2, <2>3 DEF ClearingOK
<1>7. CASE deleteEntityReturns
  BY <1>7, DeleteEntityEffect DEF ClearingOK
<1>8. CASE clearEntityReturns
  BY <1>8 DEF clearEntityReturns, ClearingOK
<1>9. CASE clear
  BY <1>9 DEF clear, ClearingOK, stateVars
<1>10. CASE clearReturns
  BY <1>10 DEF clearReturns, ClearingOK, stateVars
<1>11. ASSUME NEW s \in Systems, listenForLikeEntities(s)
       PROVE  ClearingOK'
  BY <1>11 DEF listenForLikeEntities, ClearingOK, stateVars, callVars
<1>12. CASE UNCHANGED vars
  BY <1>12 DEF vars, stateVars, callVars, ClearingOK
<1> QED
  BY <1>1, <1>2, <1>3, <1>4, <1>5, <1>6, <1>7, <1>8, <1>9, <1>10, <1>11, <1>12 DEF Next

LEMMA ClearingCorrect == Spec => []ClearingOK
<1>1. Init => ClearingOK
  BY DEF Init, ClearingOK
<1>2. TypeOK /\ TypeOK' /\ StoreMatchesMask /\ ClearingOK /\ [Next]_vars => ClearingOK'
  BY ClearingStep
<1> QED
  BY <1>1, <1>2, TypeCorrect, StoreCorrect, PTL DEF Spec

\* clearEntity's final test never fails: the generated loop has reached every
\* component type there is, in whatever order they were declared.
THEOREM NothingReallyBadHappens == Spec => []NothingReallyBad
<1>1. Init => NothingReallyBad
  BY DEF Init, NothingReallyBad
<1>2. TypeOK /\ ClearingOK /\ NothingReallyBad /\ [Next]_vars => NothingReallyBad'
  <2> SUFFICES ASSUME TypeOK, ClearingOK, NothingReallyBad, [Next]_vars
               PROVE  ret' # "SOMETHING_REALLY_BAD"
    BY DEF NothingReallyBad
  <2>1. CASE createEntity
    BY <2>1, CreateEntityEffect
  <2>2. ASSUME NEW id \in EntityId, NEW c \in Comps, addComp(id, c) \/ remComp(id, c)
        PROVE  ret' # "SOMETHING_REALLY_BAD"
    BY <2>2, AddCompEffect, RemCompEffect
  <2>3. ASSUME NEW id \in EntityId, clearEntity(id) \/ deleteEntity(id)
        PROVE  ret' # "SOMETHING_REALLY_BAD"
    BY <2>3, BeginClearingEffect DEF NothingReallyBad
  <2>4. CASE deleteEntityReturns
    BY <2>4, ClearedVictim, DeleteEntityEffect DEF Ids, deleteEntityReturns, clearLoopDone
  <2>5. CASE clearEntityReturns
    <3>1. componentsPresent[victim] = {EXISTENCE}
      BY <2>5, ClearedVictim DEF clearEntityReturns, clearLoopDone, TypeOK
    <3> QED
      BY <2>5, <3>1 DEF clearEntityReturns, clearedStatus
  <2>6. ASSUME NEW id \in Ids, clearNext(id)
        PROVE  ret' # "SOMETHING_REALLY_BAD"
    BY <2>6 DEF clearNext, NothingReallyBad
  <2>7. ASSUME \/ \E s \in Systems : listenForLikeEntities(s)
               \/ clear \/ clearReturns \/ clearLoopBody \/ UNCHANGED vars
        PROVE  ret' # "SOMETHING_REALLY_BAD"
    BY <2>7 DEF listenForLikeEntities, clear, clearReturns, clearLoopBody, vars, callVars,
                NothingReallyBad
  <2> QED
    BY <2>1, <2>2, <2>3, <2>4, <2>5, <2>6, <2>7 DEF Next
<1> QED
  BY <1>1, <1>2, TypeCorrect, ClearingCorrect, PTL DEF Spec

--------------------------------------------------------------------------
(* Prerequisites *)

LEMMA PrerequisitesStep ==
    ASSUME TypeOK, TypeOK', StoreMatchesMask, StoreMatchesMask', ClearingOK, ClearingOK',
           PrerequisitesHeld, [Next]_vars
    PROVE  PrerequisitesHeld'
<1>1. ASSUME UNCHANGED << componentsPresent, victim >>
      PROVE  PrerequisitesHeld'
  BY <1>1 DEF PrerequisitesHeld
<1>2. ASSUME UNCHANGED componentsPresent, victim = 0
      PROVE  PrerequisitesHeld'
  BY <1>2 DEF PrerequisitesHeld, Ids
<1>3. ASSUME victim \in Ids, componentsPresent[victim] = {EXISTENCE}, victim' = 0,
             componentsPresent' \in {componentsPresent, [componentsPresent EXCEPT ![victim] = {}]}
      PROVE  PrerequisitesHeld'
  <2>1. \A id \in Ids \ {victim} : componentsPresent'[id] = componentsPresent[id]
    BY <1>3 DEF TypeOK
  <2>2. componentsPresent'[victim] \intersect Comps = {}
    <3>1. componentsPresent'[victim] \in {{}, {EXISTENCE}}
      BY <1>3 DEF TypeOK
    <3> QED
      BY <3>1, CompsAssumption
  <2> QED
    BY <2>1, <2>2 DEF PrerequisitesHeld
<1>4. CASE createEntity
  <2>1. CASE NotCreated
    BY <1>1, <1>4, <2>1, CreateEntityEffect DEF NotCreated
  <2>2. ASSUME NEW id \in Ids, Created(id)
        PROVE  PrerequisitesHeld'
    BY SMTT(20), <1>4, <2>2, CompsAssumption, CreateEntityEffect DEF Created, PrerequisitesHeld, TypeOK
  <2> QED
    BY <1>4, <2>1, <2>2, CreateEntityEffect
<1>5. ASSUME NEW id \in EntityId, NEW c \in Comps, addComp(id, c)
      PROVE  PrerequisitesHeld'
  <2>1. CASE id \in Ids /\ Added(id, c)
    BY <1>5, <2>1, AddCompEffect DEF Added, PrerequisitesHeld, TypeOK
  <2> QED
    BY <1>1, <1>5, <2>1, AddCompEffect DEF stateVars
<1>6. ASSUME NEW id \in EntityId, NEW c \in Comps, remComp(id, c)
      PROVE  PrerequisitesHeld'
  <2>1. CASE /\ id \in Ids /\ Removed(id, c)
             /\ dependentComps(c) \intersect componentsPresent[id] = {}
    <3>1. \A d \in componentsPresent[id] \intersect Comps : c \notin requiredComps(d)
      BY <2>1, CompsAssumption DEF dependentComps, requiredComps
    <3>2. /\ componentsPresent'[id] = componentsPresent[id] \ {c}
          /\ \A other \in Ids \ {id} : componentsPresent'[other] = componentsPresent[other]
          /\ victim' = victim
      BY <1>6, <2>1, RemCompEffect DEF Removed, TypeOK
    <3>3. ASSUME NEW d \in componentsPresent'[id] \intersect Comps, id # victim
          PROVE  requiredComps(d) \subseteq componentsPresent'[id]
      BY <2>1, <3>1, <3>2, <3>3 DEF PrerequisitesHeld
    <3> QED
      BY <3>2, <3>3 DEF PrerequisitesHeld
  <2> QED
    BY <1>1, <1>6, <2>1, RemCompEffect DEF stateVars
<1>7. ASSUME NEW id \in EntityId, clearEntity(id) \/ deleteEntity(id)
      PROVE  PrerequisitesHeld'
  BY <1>2, <1>7, BeginClearingEffect DEF stateVars, ClearingOK
<1>8. ASSUME NEW id \in Ids, clearNext(id)
      PROVE  PrerequisitesHeld'
  BY <1>2, <1>8 DEF clearNext, stateVars
<1>9. CASE clearLoopBody
  BY <1>9, ClearLoopBodyEffect DEF Removed, PrerequisitesHeld, TypeOK
<1>10. CASE deleteEntityReturns
  BY <1>3, <1>10, ClearedVictim, DeleteEntityEffect
     DEF Erased, deleteEntityReturns, clearLoopDone
<1>11. CASE clearEntityReturns
  <2>1. componentsPresent[victim] = {EXISTENCE} /\ victim \in Ids
    BY <1>11, ClearedVictim DEF clearEntityReturns, clearLoopDone, TypeOK
  <2> QED
    BY <1>3, <1>11, <2>1 DEF clearEntityReturns, stateVars
<1>12. ASSUME \/ \E s \in Systems : listenForLikeEntities(s)
              \/ clear \/ clearReturns \/ UNCHANGED vars
       PROVE  PrerequisitesHeld'
  BY <1>1, <1>12 DEF listenForLikeEntities, clear, clearReturns, vars, stateVars, callVars
<1> QED
  BY <1>4, <1>5, <1>6, <1>7, <1>8, <1>9, <1>10, <1>11, <1>12 DEF Next

\* No sequence of additions and removals leaves a component without one of
\* its prerequisites, for any prerequisite relation, cyclic ones included.
THEOREM PrerequisitesCorrect == Spec => []PrerequisitesHeld
<1>1. Init => PrerequisitesHeld
  BY DEF Init, PrerequisitesHeld
<1>2. TypeOK /\ TypeOK' /\ StoreMatchesMask /\ StoreMatchesMask' /\ ClearingOK /\ ClearingOK'
         /\ PrerequisitesHeld /\ [Next]_vars => PrerequisitesHeld'
  BY PrerequisitesStep
<1> QED
  BY <1>1, <1>2, TypeCorrect, StoreCorrect, ClearingCorrect, PTL DEF Spec

--------------------------------------------------------------------------
(* Ids *)

\* The parts of IdsAccounted, for a counter n, a set of entities and a stack.
Handed(n, alive, s) ==
    \A id \in Ids : id <= n <=> (id \in alive \/ \E i \in DOMAIN s : s[i] = id)
Apart(alive, s) == \A i \in DOMAIN s : s[i] \notin alive
Once(s) == \A i, j \in DOMAIN s : s[i] = s[j] => i = j

\* A fresh id: the counter passes it.
LEMMA FreshId ==
    ASSUME TypeOK, IdsAccounted, freedIds = << >>, ~outOfIds(nextId, freedIds)
    PROVE  /\ nextId + 1 \in Ids /\ nextId + 1 \notin live
           /\ Handed(nextId + 1, live \union {nextId + 1}, << >>)
<1>1. nextId + 1 \in Ids
  BY NewIdType DEF newIdFrom
<1>2. nextId \in Int
  BY <1>1, MaxIdAssumption DEF TypeOK, EntityId
<1>3. \A id \in Ids : id \in Int /\ (id <= nextId <=> id \in live)
  BY MaxIdAssumption DEF IdsAccounted, Ids
<1> QED
  BY <1>1, <1>2, <1>3 DEF Handed

\* A freed id: it leaves the stack as it comes alive.
LEMMA PoppedId ==
    ASSUME TypeOK, IdsAccounted, freedIds # << >>
    PROVE  /\ Head(freedIds) \in Ids /\ Head(freedIds) \notin live
           /\ Handed(nextId, live \union {Head(freedIds)}, freedIdsAfter(freedIds))
           /\ Apart(live \union {Head(freedIds)}, freedIdsAfter(freedIds))
           /\ Once(freedIdsAfter(freedIds))
<1> DEFINE s == freedIds
           t == freedIdsAfter(freedIds)
<1>1. /\ s[1] = Head(s) /\ Head(s) \in Ids
      /\ Len(s) \in Nat /\ Len(s) >= 1
      /\ DOMAIN s = 1 .. Len(s) /\ DOMAIN t = 1 .. Len(s) - 1
      /\ \A i \in DOMAIN t : i + 1 \in DOMAIN s /\ t[i] = s[i + 1]
  <2>1. s \in Seq(Ids) /\ s # << >>
    BY DEF TypeOK
  <2>2. /\ Head(s) = s[1] /\ Head(s) \in Ids
        /\ Len(s) \in Nat /\ Len(s) >= 1
        /\ DOMAIN t = 1 .. Len(s) - 1
        /\ \A i \in 1 .. Len(s) - 1 : t[i] = s[i + 1]
    BY <2>1, PopFreedStack
  <2>3. DOMAIN s = 1 .. Len(s)
    BY <2>1
  <2> HIDE DEF s, t
  <2> QED
    BY <2>2, <2>3
<1>2. 1 \in DOMAIN s /\ Head(s) \notin live
  BY <1>1 DEF IdsAccounted
<1>3. \A i \in DOMAIN s : i = 1 \/ (i - 1 \in DOMAIN t /\ t[i - 1] = s[i])
  BY <1>1
<1>4. ASSUME NEW id \in Ids
      PROVE  (id \in live \/ \E i \in DOMAIN s : s[i] = id)
                <=> (id \in live \union {Head(s)} \/ \E i \in DOMAIN t : t[i] = id)
  BY <1>1, <1>2, <1>3
<1>5. Handed(nextId, live \union {Head(s)}, t)
  BY <1>4 DEF IdsAccounted, Handed
<1>6. Apart(live \union {Head(s)}, t)
  <2>1. ASSUME NEW i \in DOMAIN t
        PROVE  t[i] \notin live /\ t[i] # Head(s)
    <3>1. i + 1 \in DOMAIN s /\ t[i] = s[i + 1] /\ i + 1 # 1
      BY <1>1
    <3> QED
      BY <1>1, <1>2, <3>1 DEF IdsAccounted
  <2> QED
    BY <2>1 DEF Apart
<1>7. Once(t)
  <2>1. ASSUME NEW i \in DOMAIN t, NEW j \in DOMAIN t, t[i] = t[j]
        PROVE  i = j
    <3>1. i + 1 = j + 1
      BY <1>1, <2>1 DEF IdsAccounted
    <3> QED
      BY <1>1, <3>1
  <2> QED
    BY <2>1 DEF Once
<1> QED
  BY <1>1, <1>2, <1>5, <1>6, <1>7

\* A deleted id: it goes on the stack as its entity leaves.
LEMMA PushedId ==
    ASSUME TypeOK, IdsAccounted, NEW id \in live
    PROVE  /\ Handed(nextId, live \ {id}, pushFreed(freedIds, id))
           /\ Apart(live \ {id}, pushFreed(freedIds, id))
           /\ Once(pushFreed(freedIds, id))
<1> DEFINE s == freedIds
           t == pushFreed(freedIds, id)
<1>1. id \in Ids /\ s \in Seq(Ids)
  BY DEF TypeOK, live, AllComps
<1>2. /\ t[1] = id
      /\ Len(s) \in Nat
      /\ DOMAIN s = 1 .. Len(s) /\ DOMAIN t = 1 .. Len(s) + 1
      /\ \A i \in DOMAIN s : i + 1 \in DOMAIN t /\ t[i + 1] = s[i]
  <2>1. /\ t[1] = id
        /\ DOMAIN t = 1 .. Len(s) + 1
        /\ \A i \in 1 .. Len(s) : t[i + 1] = s[i]
    BY <1>1, PushFreedStack
  <2>2. Len(s) \in Nat /\ DOMAIN s = 1 .. Len(s)
    BY <1>1
  <2> HIDE DEF s, t
  <2> QED
    BY <2>1, <2>2
<1>3. 1 \in DOMAIN t /\ \A i \in DOMAIN t : i = 1 \/ (i - 1 \in DOMAIN s /\ t[i] = s[i - 1])
  <2>1. \A i \in DOMAIN t : i # 1 => i - 1 \in DOMAIN s /\ i = (i - 1) + 1
    BY <1>2
  <2> QED
    BY <1>2, <2>1
<1>4. \A i \in DOMAIN s : s[i] # id
  BY DEF IdsAccounted
<1>5. ASSUME NEW other \in Ids
      PROVE  (other \in live \/ \E i \in DOMAIN s : s[i] = other)
                <=> (other \in live \ {id} \/ \E i \in DOMAIN t : t[i] = other)
  BY <1>2, <1>3
<1>6. Handed(nextId, live \ {id}, t)
  BY <1>5 DEF IdsAccounted, Handed
<1>7. Apart(live \ {id}, t)
  BY <1>2, <1>3 DEF IdsAccounted, Apart
<1>8. Once(t)
  <2>1. ASSUME NEW i \in DOMAIN t, NEW j \in DOMAIN t, t[i] = t[j]
        PROVE  i = j
    <3>1. CASE i = 1 \/ j = 1
      BY <1>2, <1>3, <1>4, <2>1, <3>1
    <3>2. CASE i # 1 /\ j # 1
      <4>1. i - 1 = j - 1
        BY <1>3, <2>1, <3>2 DEF IdsAccounted
      <4> QED
        BY <1>2, <4>1
    <3> QED
      BY <3>1, <3>2
  <2> QED
    BY <2>1 DEF Once
<1> QED
  BY <1>6, <1>7, <1>8

LEMMA IdsStep ==
    ASSUME TypeOK, TypeOK', StoreMatchesMask, ClearingOK, IdsAccounted, [Next]_vars
    PROVE  IdsAccounted'
<1>1. ASSUME UNCHANGED << nextId, freedIds, live >>
      PROVE  IdsAccounted'
  BY <1>1 DEF IdsAccounted, live
<1>2. ASSUME Handed(nextId', live', freedIds'), Apart(live', freedIds'), Once(freedIds')
      PROVE  IdsAccounted'
  BY <1>2 DEF IdsAccounted, Handed, Apart, Once, live
<1>3. CASE createEntity
  <2>1. CASE NotCreated
    <3>1. freedIds = << >> /\ freedIds' = << >> /\ UNCHANGED live
      BY <2>1 DEF NotCreated, outOfIds, freedIdsAfter, live
    <3>2. \A id \in Ids : id <= nextId' <=> id <= nextId
      BY <2>1, <3>1, MaxIdAssumption
         DEF NotCreated, outOfIds, nextIdAfter, TypeOK, EntityId, Ids
    <3> QED
      BY <1>2, <3>1, <3>2 DEF IdsAccounted, Handed, Apart, Once
  <2>2. ASSUME NEW id \in Ids, Created(id)
        PROVE  IdsAccounted'
    <3>1. live' = live \union {id}
      BY <2>2 DEF Created, live, TypeOK, AllComps
    <3>2. CASE freedIds = << >>
      <4>1. id = nextId + 1 /\ freedIds' = << >> /\ nextId' = nextId + 1
        BY <2>2, <3>2, MaxIdAssumption
           DEF Created, newIdFrom, nextIdAfter, freedIdsAfter, outOfIds
      <4> QED
        <5>1. Handed(nextId', live', freedIds')
          BY <2>2, <3>1, <3>2, <4>1, FreshId DEF Created
        <5>2. Apart(live', << >>) /\ Once(<< >>)
          BY DEF Apart, Once
        <5> QED
          BY <1>2, <4>1, <5>1, <5>2
    <3>3. CASE freedIds # << >>
      <4>1. id = Head(freedIds) /\ freedIds' = freedIdsAfter(freedIds) /\ nextId' = nextId
        BY <2>2, <3>3 DEF Created, newIdFrom, nextIdAfter
      <4> QED
        BY <1>2, <3>1, <3>3, <4>1, PoppedId
    <3> QED
      BY <3>2, <3>3
  <2> QED
    BY <1>3, <2>1, <2>2, CreateEntityEffect
<1>4. ASSUME NEW id \in Ids, NEW c \in Comps, Added(id, c) \/ Removed(id, c)
      PROVE  IdsAccounted'
  BY <1>1, <1>4, CompsAssumption DEF Added, Removed, live, TypeOK, AllComps
<1>5. ASSUME NEW id \in EntityId, NEW c \in Comps, addComp(id, c) \/ remComp(id, c)
      PROVE  IdsAccounted'
  BY <1>1, <1>4, <1>5, AddCompEffect, RemCompEffect DEF stateVars, live
<1>6. CASE clearLoopBody
  BY <1>4, <1>6, ClearLoopBodyEffect
<1>7. CASE deleteEntityReturns
  <2>1. CASE Erased(victim)
    <3>1. victim \in live
      BY <1>7, <2>1, DeleteEntityEffect DEF Erased, StoreMatchesMask, live, AllComps
    <3>2. live' = live \ {victim} /\ freedIds' = pushFreed(freedIds, victim) /\ nextId' = nextId
      BY <1>7, <2>1, DeleteEntityEffect DEF Erased, live, TypeOK, AllComps
    <3> QED
      BY <1>2, <3>1, <3>2, PushedId
  <2> QED
    BY <1>1, <1>7, <2>1, DeleteEntityEffect DEF live
<1>8. ASSUME NEW id \in EntityId, clearEntity(id) \/ deleteEntity(id)
      PROVE  IdsAccounted'
  BY <1>1, <1>8, BeginClearingEffect DEF stateVars, live
<1>9. ASSUME \/ \E s \in Systems : listenForLikeEntities(s)
             \/ clear \/ (\E id \in Ids : clearNext(id))
             \/ clearEntityReturns \/ clearReturns \/ UNCHANGED vars
      PROVE  IdsAccounted'
  BY <1>1, <1>9 DEF listenForLikeEntities, clear, clearNext, clearEntityReturns, clearReturns,
                    vars, stateVars, live
<1> QED
  BY <1>3, <1>5, <1>6, <1>7, <1>8, <1>9 DEF Next

\* No id is lost, none is handed out twice, and the stack of freed ids holds
\* neither an entity that exists nor the same id twice.
THEOREM IdsCorrect == Spec => []IdsAccounted
<1>1. Init => IdsAccounted
  BY DEF Init, IdsAccounted, live, Ids, AllComps
<1>2. TypeOK /\ TypeOK' /\ StoreMatchesMask /\ ClearingOK /\ IdsAccounted /\ [Next]_vars
         => IdsAccounted'
  BY IdsStep
<1> QED
  BY <1>1, <1>2, TypeCorrect, StoreCorrect, ClearingCorrect, PTL DEF Spec

--------------------------------------------------------------------------
(* Registries *)

\* A listener is on the lists of the component types in its likeness from
\* the moment its System is constructed, and its registry is empty before.
CallbacksOK ==
    /\ \A c \in Comps : \A l \in Listeners :
          /\ l \in addCallbacks[c] <=> (Owner[l] \in constructed /\ c \in Likeness[l])
          /\ l \in remCallbacks[c] <=> (Owner[l] \in constructed /\ c \in Likeness[l])
    /\ \A l \in Listeners : Owner[l] \notin constructed => registry[l] = [id \in Ids |-> 0]

\* The effect of discover and forget on one registry and one id.
LEMMA DiscoverEffect ==
    ASSUME TypeOK, NEW id \in Ids, NEW fired \in SUBSET Listeners, discover(id, fired)
    PROVE  \A l \in Listeners :
             /\ l \notin fired => registry'[l] = registry[l]
             /\ \A other \in Ids \ {id} : registry'[l][other] = registry[l][other]
             /\ registry'[l][id] \in {registry[l][id], registry[l][id] + 1}
             /\ l \in fired \ PickyDiscover => registry'[l][id] = registry[l][id] + 1
<1>1. PICK refused \in SUBSET (fired \intersect PickyDiscover) :
        registry' = [l \in Listeners |->
              IF l \in fired \ refused
              THEN [registry[l] EXCEPT ![id] = @ + 1] ELSE registry[l]]
  BY DEF discover
<1>2. \A l \in Listeners : registry[l] \in [Ids -> 0 .. MaxCopies]
  BY DEF TypeOK
<1> QED
  BY <1>1, <1>2

LEMMA ForgetEffect ==
    ASSUME TypeOK, NEW id \in Ids, NEW fired \in SUBSET Listeners, forget(id, fired)
    PROVE  \A l \in Listeners :
             /\ l \notin fired => registry'[l] = registry[l]
             /\ \A other \in Ids \ {id} : registry'[l][other] = registry[l][other]
             /\ registry'[l][id] \in {registry[l][id], registry[l][id] - 1}
             /\ l \in fired \ PickyForget /\ registry[l][id] > 0
                   => registry'[l][id] = registry[l][id] - 1
             /\ registry[l][id] = 0 => registry'[l][id] = 0
<1>1. PICK refused \in SUBSET {l \in fired \intersect PickyForget : registry[l][id] > 0} :
        registry' = [l \in Listeners |->
              IF l \in fired \ refused /\ registry[l][id] > 0
              THEN [registry[l] EXCEPT ![id] = @ - 1] ELSE registry[l]]
  BY DEF forget
<1>2. \A l \in Listeners : registry[l] \in [Ids -> 0 .. MaxCopies]
  BY DEF TypeOK
<1> QED
  BY <1>1, <1>2

LEMMA FiresType ==
    ASSUME TypeOK, NEW id \in Ids, NEW c \in Comps
    PROVE  addFires(id, c) \in SUBSET Listeners /\ remFires(id, c) \in SUBSET Listeners
  BY DEF TypeOK, addFires, remFires

\* How one step treats a registry: it stays out of it, or the entity gains or
\* loses one component and the delegates that fire are exactly those of the
\* listening registries whose likeness is gained or lost by that.
Untouched == UNCHANGED registry /\ \A l \in heedable : \A id \in Ids : matches(l, id)' <=> matches(l, id)

LEMMA AddFiresExactly ==
    ASSUME TypeOK, CallbacksOK, NEW id \in Ids, NEW c \in Comps, Added(id, c),
           NEW l \in Listeners
    PROVE  /\ l \in addFires(id, c) <=> (Owner[l] \in constructed /\ ~matches(l, id) /\ matches(l, id)')
           /\ matches(l, id) => matches(l, id)'
           /\ \A other \in Ids \ {id} : matches(l, other)' <=> matches(l, other)
<1>1. /\ componentsPresent'[id] = componentsPresent[id] \union {c}
      /\ \A other \in Ids \ {id} : componentsPresent'[other] = componentsPresent[other]
  BY DEF Added, TypeOK
<1>2. addCallbacks[c] \subseteq Listeners
  BY DEF TypeOK
<1> QED
  BY <1>1, <1>2 DEF CallbacksOK, addFires, shouldFireAdditionDlgt, matches

LEMMA RemFiresExactly ==
    ASSUME TypeOK, CallbacksOK, NEW id \in Ids, NEW c \in Comps, Removed(id, c),
           NEW l \in Listeners
    PROVE  /\ l \in remFires(id, c) <=> (Owner[l] \in constructed /\ matches(l, id) /\ ~matches(l, id)')
           /\ matches(l, id)' => matches(l, id)
           /\ \A other \in Ids \ {id} : matches(l, other)' <=> matches(l, other)
<1>1. /\ componentsPresent'[id] = componentsPresent[id] \ {c}
      /\ \A other \in Ids \ {id} : componentsPresent'[other] = componentsPresent[other]
  BY DEF Removed, TypeOK
<1>2. remCallbacks[c] \subseteq Listeners
  BY DEF TypeOK
<1> QED
  BY <1>1, <1>2 DEF CallbacksOK, remFires, shouldFireRemovalDlgt, matches

LEMMA RegistryCases ==
    ASSUME TypeOK, StoreMatchesMask, ClearingOK, PrerequisitesHeld, IdsAccounted, [Next]_vars
    PROVE  \/ Untouched /\ UNCHANGED << addCallbacks, remCallbacks, constructed >>
           \/ Untouched /\ \E s \in Systems : listenForLikeEntities(s)
           \/ \E id \in Ids, c \in Comps : Added(id, c) \/ Removed(id, c)
<1>1. ASSUME UNCHANGED << componentsPresent, registry >>
      PROVE  Untouched
  BY <1>1 DEF Untouched, matches
<1>2. CASE createEntity
  <2>1. CASE NotCreated
    BY <1>1, <1>2, <2>1, CreateEntityEffect DEF NotCreated, systemVars
  <2>2. ASSUME NEW id \in Ids, Created(id)
        PROVE  Untouched
    <3>1. id \notin live
      BY <2>2, FreshId, PoppedId DEF Created, newIdFrom
    <3>2. componentsPresent[id] \intersect Comps = {}
      <4>1. EXISTENCE \notin componentsPresent[id] /\ id # victim
        BY <1>2, <3>1, CreateEntityEffect DEF StoreMatchesMask, live, AllComps, ClearingOK, Ids
      <4> QED
        BY <4>1 DEF PrerequisitesHeld, requiredComps
    <3>3. /\ componentsPresent'[id] = componentsPresent[id] \union {EXISTENCE}
          /\ \A other \in Ids \ {id} : componentsPresent'[other] = componentsPresent[other]
      BY <2>2 DEF Created, TypeOK
    <3>4. \A l \in heedable : ~matches(l, id) /\ ~matches(l, id)'
      BY <3>2, <3>3, CompsAssumption DEF heedable, matches
    <3>5. \A l \in heedable : \A other \in Ids \ {id} : matches(l, other)' <=> matches(l, other)
      BY <3>3 DEF matches
    <3> QED
      BY <1>2, <3>4, <3>5, CreateEntityEffect DEF Untouched, systemVars
  <2> QED
    BY <1>2, <2>1, <2>2, CreateEntityEffect DEF systemVars
<1>3. CASE deleteEntityReturns
  <2>1. ASSUME NEW id \in Ids, id = victim, Erased(id)
        PROVE  Untouched
    <3>1. /\ componentsPresent[id] = {EXISTENCE} /\ componentsPresent'[id] = {}
          /\ \A other \in Ids \ {id} : componentsPresent'[other] = componentsPresent[other]
      BY <2>1 DEF Erased, TypeOK
    <3>2. \A l \in heedable : ~matches(l, id) /\ ~matches(l, id)'
      BY <3>1, CompsAssumption DEF heedable, matches
    <3>3. \A l \in heedable : \A other \in Ids \ {id} : matches(l, other)' <=> matches(l, other)
      BY <3>1 DEF matches
    <3> QED
      BY <1>3, <3>2, <3>3, DeleteEntityEffect DEF Untouched, systemVars
  <2> QED
    BY <1>1, <1>3, <2>1, DeleteEntityEffect DEF systemVars
<1>4. ASSUME NEW id \in EntityId, NEW c \in Comps, addComp(id, c) \/ remComp(id, c)
      PROVE  \/ Untouched /\ UNCHANGED << addCallbacks, remCallbacks, constructed >>
             \/ id \in Ids /\ (Added(id, c) \/ Removed(id, c))
  BY <1>1, <1>4, AddCompEffect, RemCompEffect DEF stateVars, systemVars
<1>5. CASE clearLoopBody
  BY <1>5, ClearLoopBodyEffect
<1>6. ASSUME NEW id \in EntityId, clearEntity(id) \/ deleteEntity(id)
      PROVE  Untouched /\ UNCHANGED << addCallbacks, remCallbacks, constructed >>
  BY <1>1, <1>6, BeginClearingEffect DEF stateVars, systemVars
<1>7. ASSUME NEW s \in Systems, listenForLikeEntities(s)
      PROVE  Untouched
  BY <1>1, <1>7 DEF listenForLikeEntities, stateVars
<1>8. ASSUME \/ clear \/ (\E id \in Ids : clearNext(id))
             \/ clearEntityReturns \/ clearReturns \/ UNCHANGED vars
      PROVE  Untouched /\ UNCHANGED << addCallbacks, remCallbacks, constructed >>
  BY <1>1, <1>8 DEF clear, clearNext, clearEntityReturns, clearReturns, vars, stateVars, systemVars
<1> QED
  BY <1>2, <1>3, <1>4, <1>5, <1>6, <1>7, <1>8 DEF Next

LEMMA CallbacksStep ==
    ASSUME TypeOK, TypeOK', StoreMatchesMask, ClearingOK, PrerequisitesHeld, IdsAccounted,
           CallbacksOK, [Next]_vars
    PROVE  CallbacksOK'
<1>1. ASSUME UNCHANGED << addCallbacks, remCallbacks, constructed, registry >>
      PROVE  CallbacksOK'
  BY <1>1 DEF CallbacksOK
<1>2. ASSUME NEW s \in Systems, listenForLikeEntities(s)
      PROVE  CallbacksOK'
  <2>1. /\ constructed' = constructed \union {s} /\ registry' = registry
        /\ \A c \in Comps :
              /\ addCallbacks'[c] = addCallbacks[c] \union {l \in Listeners : Owner[l] = s /\ c \in Likeness[l]}
              /\ remCallbacks'[c] = remCallbacks[c] \union {l \in Listeners : Owner[l] = s /\ c \in Likeness[l]}
    BY <1>2 DEF listenForLikeEntities
  <2> QED
    BY <2>1 DEF CallbacksOK
<1>3. ASSUME NEW id \in Ids, NEW c \in Comps, Added(id, c) \/ Removed(id, c)
      PROVE  CallbacksOK'
  <2>1. \A l \in Listeners : Owner[l] \notin constructed => registry'[l] = registry[l]
    <3>1. ASSUME Added(id, c), NEW l \in Listeners, Owner[l] \notin constructed
          PROVE  registry'[l] = registry[l]
      <4>1. l \notin addFires(id, c)
        BY <3>1, AddFiresExactly
      <4> QED
        BY <3>1, <4>1, FiresType, DiscoverEffect DEF Added
    <3>2. ASSUME Removed(id, c), NEW l \in Listeners, Owner[l] \notin constructed
          PROVE  registry'[l] = registry[l]
      <4>1. l \notin remFires(id, c)
        BY <3>2, RemFiresExactly
      <4> QED
        BY <3>2, <4>1, FiresType, ForgetEffect DEF Removed
    <3> QED
      BY <1>3, <3>1, <3>2
  <2>2. UNCHANGED << addCallbacks, remCallbacks, constructed >>
    BY <1>3 DEF Added, Removed
  <2> QED
    BY <2>1, <2>2 DEF CallbacksOK
<1> QED
  BY <1>1, <1>2, <1>3, RegistryCases DEF Untouched

LEMMA RegistryStep ==
    ASSUME TypeOK, TypeOK', StoreMatchesMask, ClearingOK, PrerequisitesHeld, IdsAccounted,
           CallbacksOK, RegistrySound, [Next]_vars
    PROVE  /\ RegistrySound'
           /\ FollowsLikeness(listening)
<1> DEFINE Kept(l, id) == l \notin PickyForget =>
                 registry'[l][id] <= 1 /\ (registry'[l][id] > 0 => matches(l, id)')
           Followed(l, id) == Owner[l] \in constructed =>
                 /\ l \notin PickyDiscover /\ ~matches(l, id) /\ matches(l, id)' => registry'[l][id] > 0
                 /\ l \notin PickyForget /\ matches(l, id) /\ ~matches(l, id)' => registry'[l][id] = 0
<1>1. SUFFICES ASSUME NEW l \in heedable, NEW id \in Ids
               PROVE  Kept(l, id) /\ Followed(l, id)
  BY DEF RegistrySound, FollowsLikeness, listening, heedable
<1>2. /\ l \in Listeners
      /\ registry[l][id] \in Nat /\ registry'[l][id] \in Nat
      /\ l \notin PickyForget => registry[l][id] \in {0, 1} /\ (registry[l][id] = 1 => matches(l, id))
  <2>1. l \in Listeners
    BY DEF heedable
  <2>2. registry[l][id] \in Nat /\ registry'[l][id] \in Nat
    BY <2>1, ListenersAssumption DEF TypeOK
  <2> QED
    BY <2>1, <2>2 DEF RegistrySound
<1>3. ASSUME registry'[l][id] = registry[l][id], matches(l, id)' <=> matches(l, id)
      PROVE  Kept(l, id) /\ Followed(l, id)
  BY <1>2, <1>3
<1>4. CASE Untouched
  BY <1>3, <1>4 DEF Untouched
<1>5. ASSUME NEW x \in Ids, NEW c \in Comps, Added(x, c)
      PROVE  Kept(l, id) /\ Followed(l, id)
  <2>1. discover(x, addFires(x, c)) /\ addFires(x, c) \in SUBSET Listeners
    BY <1>5, FiresType DEF Added
  <2>2. CASE id # x
    BY <1>2, <1>3, <1>5, <2>1, <2>2, AddFiresExactly, DiscoverEffect
  <2>3. CASE id = x /\ l \notin addFires(x, c)
    BY <1>2, <1>5, <2>1, <2>3, AddFiresExactly, DiscoverEffect
  <2>4. CASE id = x /\ l \in addFires(x, c)
    <3>1. ~matches(l, id) /\ matches(l, id)'
      BY <1>2, <1>5, <2>4, AddFiresExactly
    <3>2. /\ registry'[l][id] \in {registry[l][id], registry[l][id] + 1}
          /\ l \notin PickyDiscover => registry'[l][id] = registry[l][id] + 1
      BY <1>2, <2>1, <2>4, DiscoverEffect
    <3> QED
      BY <1>2, <3>1, <3>2
  <2> QED
    BY <2>2, <2>3, <2>4
<1>6. ASSUME NEW x \in Ids, NEW c \in Comps, Removed(x, c)
      PROVE  Kept(l, id) /\ Followed(l, id)
  <2>1. forget(x, remFires(x, c)) /\ remFires(x, c) \in SUBSET Listeners
    BY <1>6, FiresType DEF Removed
  <2>2. CASE id # x
    BY <1>2, <1>3, <1>6, <2>1, <2>2, RemFiresExactly, ForgetEffect
  <2>3. CASE id = x /\ l \notin remFires(x, c)
    <3>1. registry'[l] = registry[l]
      BY <1>2, <2>1, <2>3, ForgetEffect
    <3>2. Owner[l] \in constructed => (matches(l, id)' <=> matches(l, id))
      BY <1>2, <1>6, <2>3, RemFiresExactly
    <3>3. Owner[l] \notin constructed => registry[l][id] = 0
      BY <1>2 DEF CallbacksOK
    <3> QED
      BY <1>2, <3>1, <3>2, <3>3
  <2>4. CASE id = x /\ l \in remFires(x, c)
    <3>1. matches(l, id) /\ ~matches(l, id)'
      BY <1>2, <1>6, <2>4, RemFiresExactly
    <3>2. /\ l \notin PickyForget /\ registry[l][id] > 0 => registry'[l][id] = registry[l][id] - 1
          /\ registry[l][id] = 0 => registry'[l][id] = 0
      BY <1>2, <2>1, <2>4, ForgetEffect
    <3> QED
      BY <1>2, <3>1, <3>2
  <2> QED
    BY <2>2, <2>3, <2>4
<1> QED
  BY <1>4, <1>5, <1>6, RegistryCases

LEMMA CallbacksCorrect == Spec => []CallbacksOK
<1>1. Init => CallbacksOK
  BY DEF Init, CallbacksOK
<1>2. TypeOK /\ TypeOK' /\ StoreMatchesMask /\ ClearingOK /\ PrerequisitesHeld /\ IdsAccounted /\ CallbacksOK
         /\ [Next]_vars => CallbacksOK'
  BY CallbacksStep
<1> QED
  BY <1>1, <1>2, TypeCorrect, StoreCorrect, ClearingCorrect, PrerequisitesCorrect, IdsCorrect,
     PTL DEF Spec

\* A registry whose forgetHandler never refuses holds an id at most once and
\* only while that entity has the likeness, through deletion and reuse of ids.
THEOREM RegistryCorrect == Spec => []RegistrySound
<1>1. Init => RegistrySound
  BY DEF Init, RegistrySound, heedable
<1>2. TypeOK /\ TypeOK' /\ StoreMatchesMask /\ ClearingOK /\ PrerequisitesHeld /\ IdsAccounted /\ CallbacksOK
         /\ RegistrySound /\ [Next]_vars => RegistrySound'
  BY RegistryStep
<1> QED
  BY <1>1, <1>2, TypeCorrect, StoreCorrect, ClearingCorrect, PrerequisitesCorrect, IdsCorrect,
     CallbacksCorrect, PTL DEF Spec

\* A System hears, in the step itself, of every entity that gains or loses
\* the likeness of one of its registries.
THEOREM RegistryFollowsLikeness == Spec => RegistryFollows
<1>1. TypeOK /\ TypeOK' /\ StoreMatchesMask /\ ClearingOK /\ PrerequisitesHeld /\ IdsAccounted /\ CallbacksOK
         /\ RegistrySound /\ [Next]_vars => [FollowsLikeness(listening)]_vars
  BY RegistryStep
<1> QED
  BY <1>1, TypeCorrect, StoreCorrect, ClearingCorrect, PrerequisitesCorrect, IdsCorrect,
     CallbacksCorrect, RegistryCorrect, PTL DEF Spec, RegistryFollows

--------------------------------------------------------------------------
(* Persistence *)

persistent(id) == componentsPresent[id] \intersect persistenceMask # {}

\* While clear runs, the entities without a persistent component are those it
\* has yet to take up and the one it is deleting.
DoomedOK ==
    /\ call # "clear" => doomed = {}
    /\ \A id \in doomed : id \in live /\ ~persistent(id)
    /\ call = "clear" =>
        /\ victim # 0 => ~persistent(victim) /\ victim \notin doomed
        /\ \A id \in live : persistent(id) \/ id \in doomed \/ id = victim

LEMMA DoomedStep ==
    ASSUME TypeOK, TypeOK', StoreMatchesMask, ClearingOK, ClearingOK', DoomedOK, [Next]_vars
    PROVE  DoomedOK'
<1>1. ASSUME call' # "clear", doomed' = {}
      PROVE  DoomedOK'
  BY <1>1 DEF DoomedOK
<1>2. call = "idle" => doomed = {}
  BY DEF DoomedOK
<1>3. CASE createEntity
  BY <1>1, <1>2, <1>3, CreateEntityEffect
<1>4. ASSUME NEW id \in EntityId, NEW c \in Comps, addComp(id, c) \/ remComp(id, c)
      PROVE  DoomedOK'
  BY <1>1, <1>2, <1>4, AddCompEffect, RemCompEffect
<1>5. ASSUME NEW id \in EntityId, clearEntity(id) \/ deleteEntity(id)
      PROVE  DoomedOK'
  BY <1>1, <1>2, <1>5, BeginClearingEffect
<1>6. CASE clear
  BY <1>6 DEF clear, idsToErase, stateVars, DoomedOK, ClearingOK, live, persistent
<1>7. ASSUME NEW id \in Ids, clearNext(id)
      PROVE  DoomedOK'
  <2>1. /\ call = "clear" /\ call' = "clear" /\ victim = 0 /\ id \in doomed /\ id \in live
        /\ doomed' = doomed \ {id} /\ victim' = id
        /\ UNCHANGED << comps, componentsPresent >>
    BY <1>7 DEF clearNext, count, stateVars, DoomedOK
  <2> QED
    <3>1. live' = live /\ \A other : persistent(other)' <=> persistent(other)
      BY <2>1 DEF live, persistent
    <3>2. \A other \in live : other # 0
      BY MaxIdAssumption DEF TypeOK, live, AllComps, Ids
    <3>3. ~persistent(id) /\ \A other \in live : persistent(other) \/ other \in doomed
      BY <2>1, <3>2 DEF DoomedOK
    <3>4. \A other \in doomed' : other \in live' /\ ~persistent(other)'
      BY <2>1, <3>1 DEF DoomedOK
    <3>5. victim' \notin doomed' /\ \A other \in live' : persistent(other)' \/ other \in doomed' \/ other = victim'
      BY <2>1, <3>1, <3>3
    <3>6. ~persistent(victim)'
      BY <2>1, <3>3 DEF persistent
    <3> QED
      BY <2>1, <3>4, <3>5, <3>6 DEF DoomedOK
<1>8. CASE clearLoopBody
  <2>1. /\ victim \in Ids /\ victim' = victim /\ doomed' = doomed /\ call' = call
        /\ live' = live
        /\ componentsPresent'[victim] = componentsPresent[victim] \ {CompOrder[pos]}
        /\ \A id \in Ids \ {victim} : componentsPresent'[id] = componentsPresent[id]
    BY <1>8, ClearLoopBodyEffect, CompsAssumption DEF Removed, TypeOK, live, AllComps
  <2>2. live \subseteq Ids /\ victim # 0
    BY <1>8 DEF TypeOK, live, AllComps, clearLoopBody
  <2>3. CASE call = "clear"
    BY <2>1, <2>2, <2>3 DEF DoomedOK, persistent
  <2> QED
    BY <1>1, <2>1, <2>3 DEF DoomedOK
<1>9. CASE deleteEntityReturns
  <2>1. CASE call = "clear"
    <3>1. victim # 0 /\ componentsPresent[victim] = {EXISTENCE}
      BY <1>9, ClearedVictim DEF deleteEntityReturns, clearLoopDone
    <3>2. /\ victim \in Ids /\ victim' = 0 /\ doomed' = doomed /\ call' = call
          /\ live' = live \ {victim}
          /\ \A id \in Ids \ {victim} : componentsPresent'[id] = componentsPresent[id]
      BY <1>9, <2>1, <3>1, DeleteEntityEffect DEF Erased, TypeOK, live, AllComps
    <3>3. live \subseteq Ids
      BY DEF TypeOK, live, AllComps
    <3> QED
      BY <2>1, <3>1, <3>2, <3>3 DEF DoomedOK, persistent
  <2>2. CASE call # "clear"
    BY <1>1, <1>9, <2>2, DeleteEntityEffect DEF DoomedOK
  <2> QED
    BY <2>1, <2>2
<1>10. CASE clearEntityReturns \/ clearReturns
  BY <1>1, <1>10 DEF clearEntityReturns, clearReturns, DoomedOK
<1>11. CASE (\E s \in Systems : listenForLikeEntities(s)) \/ UNCHANGED vars
  BY <1>11 DEF listenForLikeEntities, vars, stateVars, callVars, DoomedOK, live, persistent
<1> QED
  BY <1>3, <1>4, <1>5, <1>6, <1>7, <1>8, <1>9, <1>10, <1>11 DEF Next

LEMMA DoomedCorrect == Spec => []DoomedOK
<1>1. Init => DoomedOK
  BY DEF Init, DoomedOK
<1>2. TypeOK /\ TypeOK' /\ StoreMatchesMask /\ ClearingOK /\ ClearingOK' /\ DoomedOK /\ [Next]_vars
         => DoomedOK'
  BY DoomedStep
<1> QED
  BY <1>1, <1>2, TypeCorrect, StoreCorrect, ClearingCorrect, PTL DEF Spec

\* clear never touches an entity with a persistent component and leaves no
\* other entity.
THEOREM ClearCorrect == Spec => ClearSparesPersistent
<1>1. TypeOK /\ ClearingOK /\ DoomedOK /\ [Next]_vars => [clearSparesPersistent]_vars
  <2> SUFFICES ASSUME TypeOK, ClearingOK, DoomedOK, [Next]_vars, call = "clear"
               PROVE  /\ \A id \in live : persistent(id) => componentsPresent'[id] = componentsPresent[id]
                      /\ call' = "idle" => \A id \in live' : persistent(id)'
    BY DEF clearSparesPersistent, persistent
  <2>1. live \subseteq Ids
    BY DEF TypeOK, live, AllComps
  <2>2. CASE clearLoopBody
    BY <2>1, <2>2, ClearLoopBodyEffect DEF clearLoopBody, Removed, DoomedOK, TypeOK
  <2>3. CASE deleteEntityReturns
    BY <2>1, <2>3, DeleteEntityEffect DEF deleteEntityReturns, clearLoopDone, Erased, DoomedOK, TypeOK
  <2>4. CASE clearReturns
    <3>1. /\ victim = 0 /\ doomed = {} /\ UNCHANGED << comps, componentsPresent >>
      BY <2>4 DEF clearReturns, stateVars
    <3>2. \A id \in live : id # 0
      BY <2>1, MaxIdAssumption DEF Ids
    <3>3. \A id \in live : persistent(id)
      BY <3>1, <3>2 DEF DoomedOK
    <3> QED
      BY <3>1, <3>3 DEF live, persistent
  <2>5. CASE (\E id \in Ids : clearNext(id)) \/ UNCHANGED vars
    BY <2>5 DEF clearNext, vars, stateVars, callVars
  <2>6. ~createEntity /\ ~clear /\ ~clearEntityReturns
    BY DEF createEntity, clear, clearEntityReturns
  <2>7. \A id \in EntityId : /\ ~clearEntity(id) /\ ~deleteEntity(id)
                             /\ \A c \in Comps : ~addComp(id, c) /\ ~remComp(id, c)
    BY DEF clearEntity, deleteEntity, beginClearing, addComp, remComp
  <2>8. \A s \in Systems : ~listenForLikeEntities(s)
    BY DEF listenForLikeEntities
  <2> QED
    BY <2>2, <2>3, <2>4, <2>5, <2>6, <2>7, <2>8 DEF Next
<1> QED
  BY <1>1, TypeCorrect, ClearingCorrect, DoomedCorrect, PTL DEF Spec, ClearSparesPersistent
====
