---- MODULE EcsState ----
(***************************************************************************)
(* One State (source/ecsState.cpp and the code ecsGenerator.cpp writes     *)
(* into it) and the Systems that listen to it (source/ecsSystem.hpp).      *)
(*                                                                         *)
(* State has no threads and no locks: a public method runs to its end      *)
(* before the caller does anything else.  What can observe it in the       *)
(* middle are the delegates it fires, so clearEntity, deleteEntity and     *)
(* clear take one step for every component they remove; the other methods  *)
(* fire their delegates around a single change and are one step.  Here     *)
(* the handlers behind the delegates read the State and answer yes or no,  *)
(* and do not call back into it.                                           *)
(***************************************************************************)
EXTENDS EcsComponents, EntityIds, KvMap

CONSTANTS
    Systems,        \* the System objects of the program
    Listeners,      \* the IdRegistry objects of all Systems together
    Owner,          \* [Listeners -> Systems], the System a registry is in
    Likeness,       \* [Listeners -> compMask], what it asks to hear about
    PickyDiscover,  \* the registries whose discoverHandler may refuse an id
    PickyForget,    \* the registries whose forgetHandler may refuse
    MaxCopies       \* bound: times one id is kept in one registry

ASSUME ListenersAssumption ==
    /\ Owner \in [Listeners -> Systems]
    /\ Likeness \in [Listeners -> compMask]
    /\ PickyDiscover \subseteq Listeners
    /\ PickyForget \subseteq Listeners
    /\ MaxCopies \in Nat \ {0}

VARIABLES
    nextId,             \* the counter of fresh ids
    freedIds,           \* the stack of ids to use again, top first
    comps,              \* comps[c]: the keys of the collection comps_<c>
    componentsPresent,  \* the mask in an entity's Existence component
    addCallbacks,       \* addCallbacks[c]: listeners in addCallbacks_<c>
    remCallbacks,       \* remCallbacks[c]: listeners in remCallbacks_<c>
    constructed,        \* the Systems whose constructor has run
    registry,           \* registry[l][id]: how often ids of l holds id
    call,               \* the clearing method that is running, or "idle"
    victim,             \* the entity being cleared, 0 between two entities
    pos,                \* the next component of the clearing loop
    doomed,             \* idsToErase in clear
    ret                 \* what the last method to return returned

stateVars  == << nextId, freedIds, comps, componentsPresent >>
systemVars == << addCallbacks, remCallbacks, constructed, registry >>
callVars   == << call, victim, pos, doomed, ret >>
vars == << stateVars, systemVars, callVars >>

CompOpReturn ==
    {"SUCCESS", "NONEXISTENT_ENT", "NONEXISTENT_COMP", "REDUNDANT",
     "PREREQ_FAIL", "DEPEND_FAIL", "MAX_ID_REACHED", "SOMETHING_REALLY_BAD"}

\* The entities that exist: the keys of comps_Existence.
live == comps[EXISTENCE]

\* An entity with at least the components of the likeness.
matches(l, id) == Likeness[l] \subseteq componentsPresent[id]

\* The listeners whose likeness names a component type of the configuration
\* file, and of those the ones whose System is there.
heedable == {l \in Listeners : Likeness[l] \intersect Comps # {}}
listening == {l \in heedable : Owner[l] \in constructed}

--------------------------------------------------------------------------
(* Notifications *)

addFires(id, c) ==
    {l \in addCallbacks[c] :
        shouldFireAdditionDlgt(Likeness[l], componentsPresent[id], c)}

remFires(id, c) ==
    {l \in remCallbacks[c] :
        shouldFireRemovalDlgt(Likeness[l], componentsPresent[id], c)}

\* discover: push the id unless the handler says no.
discover(id, fired) ==
    \E refused \in SUBSET (fired \intersect PickyDiscover) :
        /\ \A l \in fired \ refused : registry[l][id] < MaxCopies
        /\ registry' = [l \in Listeners |->
              IF l \in fired \ refused
              THEN [registry[l] EXCEPT ![id] = @ + 1] ELSE registry[l]]

\* forget: erase the first copy of the id, if there is one and the handler
\* agrees.
forget(id, fired) ==
    \E refused \in SUBSET {l \in fired \intersect PickyForget : registry[l][id] > 0} :
        registry' = [l \in Listeners |->
              IF l \in fired \ refused /\ registry[l][id] > 0
              THEN [registry[l] EXCEPT ![id] = @ - 1] ELSE registry[l]]

--------------------------------------------------------------------------
(* Methods that return at once *)

Return(status) == ret' = status /\ UNCHANGED << call, victim, pos, doomed >>

\* A call that fails changes nothing but what it returns.
Reject(status) == Return(status) /\ UNCHANGED << stateVars, systemVars >>

createEntity ==
    /\ call = "idle"
    /\ nextId' = nextIdAfter(nextId, freedIds)
    /\ freedIds' = freedIdsAfter(freedIds)
    /\ \/ /\ outOfIds(nextId, freedIds)
          /\ Return("MAX_ID_REACHED")
          /\ UNCHANGED << comps, componentsPresent >>
       \/ /\ ~outOfIds(nextId, freedIds)
          /\ LET id == newIdFrom(nextId, freedIds)
             IN  /\ comps' = [comps EXCEPT ![EXISTENCE] = try_emplace(@, id)]
                 /\ componentsPresent' = [componentsPresent EXCEPT
                        ![id] = turnOnFlags(@, {EXISTENCE})]
          /\ Return("SUCCESS")
    /\ UNCHANGED systemVars

\* addComp and insertComp, which differ in how the component is built: store
\* it, notify while its flag is still off, turn the flag on.
addComp(id, c) ==
    /\ call = "idle"
    /\ \/ ~count(live, id) /\ Reject("NONEXISTENT_ENT")
       \/ /\ count(live, id)
          /\ ~passesPrerequisitesForAddition(componentsPresent[id], requiredComps(c))
          /\ Reject("PREREQ_FAIL")
       \/ /\ count(live, id)
          /\ passesPrerequisitesForAddition(componentsPresent[id], requiredComps(c))
          /\ count(comps[c], id)
          /\ Reject("REDUNDANT")
       \/ /\ count(live, id)
          /\ passesPrerequisitesForAddition(componentsPresent[id], requiredComps(c))
          /\ ~count(comps[c], id)
          /\ comps' = [comps EXCEPT ![c] = try_emplace(@, id)]
          /\ discover(id, addFires(id, c))
          /\ componentsPresent' = [componentsPresent EXCEPT ![id] = turnOnFlags(@, {c})]
          /\ Return("SUCCESS")
          /\ UNCHANGED << nextId, freedIds, addCallbacks, remCallbacks, constructed >>

\* remCompNoChecks: notify, erase, turn the flag off.  The component need
\* not be there.
remCompNoChecks(id, c) ==
    /\ forget(id, remFires(id, c))
    /\ comps' = [comps EXCEPT ![c] = erase(@, id)]
    /\ componentsPresent' = [componentsPresent EXCEPT ![id] = turnOffFlags(@, {c})]
    /\ UNCHANGED << nextId, freedIds, addCallbacks, remCallbacks, constructed >>

remComp(id, c) ==
    /\ call = "idle"
    /\ \/ ~count(live, id) /\ Reject("NONEXISTENT_ENT")
       \/ /\ count(live, id)
          /\ ~count(comps[c], id)
          /\ Reject("NONEXISTENT_COMP")
       \/ /\ count(live, id)
          /\ count(comps[c], id)
          /\ ~passesDependenciesForRemoval(componentsPresent[id], dependentComps(c))
          /\ Reject("DEPEND_FAIL")
       \/ /\ count(live, id)
          /\ count(comps[c], id)
          /\ passesDependenciesForRemoval(componentsPresent[id], dependentComps(c))
          /\ remCompNoChecks(id, c)
          /\ Return("SUCCESS")

\* The constructor of System s: listenForLikeEntities for each of its
\* registries, which pushes the pair of delegates on the two lists of every
\* component type in the likeness.  Existence has no such lists, and no
\* handler is called for the entities that are there already.
listenForLikeEntities(s) ==
    LET mine == {l \in Listeners : Owner[l] = s}
    IN  /\ call = "idle"
        /\ s \notin constructed
        /\ constructed' = constructed \union {s}
        /\ addCallbacks' = [c \in Comps |->
              addCallbacks[c] \union {l \in mine : c \in Likeness[l]}]
        /\ remCallbacks' = [c \in Comps |->
              remCallbacks[c] \union {l \in mine : c \in Likeness[l]}]
        /\ UNCHANGED << stateVars, registry, callVars >>

--------------------------------------------------------------------------
(* clearEntity, deleteEntity and clear *)

\* The top of clearEntity, which deleteEntity calls first: without an entity
\* the call returns at once.
beginClearing(id, method) ==
    /\ call = "idle"
    /\ \/ ~count(live, id) /\ Reject("NONEXISTENT_ENT")
       \/ /\ count(live, id)
          /\ call' = method
          /\ victim' = id
          /\ pos' = 1
          /\ UNCHANGED << stateVars, systemVars, doomed, ret >>

clearEntity(id) == beginClearing(id, "clearEntity")

deleteEntity(id) == beginClearing(id, "deleteEntity")

\* The entities clear collects.  The bug variant does not ask for
\* persistence.
everyEntity == live
idsToErase == {id \in live : componentsPresent[id] \intersect persistenceMask = {}}

clear ==
    /\ call = "idle"
    /\ call' = "clear"
    /\ doomed' = idsToErase
    /\ UNCHANGED << stateVars, systemVars, victim, pos, ret >>

\* clear's second loop; the order is that of the hash map, so any.
clearNext(id) ==
    /\ call = "clear" /\ victim = 0
    /\ id \in doomed
    /\ doomed' = doomed \ {id}
    /\ IF count(live, id)
       THEN victim' = id /\ pos' = 1 /\ UNCHANGED ret
       ELSE ret' = "NONEXISTENT_ENT" /\ UNCHANGED << victim, pos >>
    /\ UNCHANGED << stateVars, systemVars, call >>

clearReturns ==
    /\ call = "clear" /\ victim = 0 /\ doomed = {}
    /\ call' = "idle"
    /\ UNCHANGED << stateVars, systemVars, victim, pos, doomed, ret >>

\* One line of the generated clearing loop: every component type in the
\* order of declaration, present or not.
clearLoopBody ==
    /\ victim # 0 /\ pos <= Len(CompOrder)
    /\ remCompNoChecks(victim, CompOrder[pos])
    /\ pos' = pos + 1
    /\ UNCHANGED << call, victim, doomed, ret >>

\* The bug variant stops one component short.
clearLoopCutShort == victim # 0 /\ pos >= Len(CompOrder)
clearLoopDone == victim # 0 /\ pos > Len(CompOrder)

clearedStatus ==
    IF componentsPresent[victim] = {EXISTENCE} THEN "SUCCESS" ELSE "SOMETHING_REALLY_BAD"

clearEntityReturns ==
    /\ call = "clearEntity" /\ clearLoopDone
    /\ ret' = clearedStatus
    /\ call' = "idle" /\ victim' = 0 /\ pos' = 1
    /\ UNCHANGED << stateVars, systemVars, doomed >>

\* What deleteEntity does after clearEntity, and how it returns to its
\* caller, which may be clear.
deleteEntityReturns ==
    /\ call \in {"deleteEntity", "clear"} /\ clearLoopDone
    /\ ret' = clearedStatus
    /\ IF clearedStatus = "SUCCESS"
       THEN /\ comps' = [comps EXCEPT ![EXISTENCE] = erase(@, victim)]
            /\ componentsPresent' = [componentsPresent EXCEPT ![victim] = {}]
            /\ freedIds' = pushFreed(freedIds, victim)
       ELSE UNCHANGED << comps, componentsPresent, freedIds >>
    /\ call' = IF call = "clear" THEN "clear" ELSE "idle"
    /\ victim' = 0 /\ pos' = 1
    /\ UNCHANGED << nextId, systemVars, doomed >>

--------------------------------------------------------------------------
Init ==
    /\ nextId = 0
    /\ freedIds = << >>
    /\ comps = [c \in AllComps |-> {}]
    /\ componentsPresent = [id \in Ids |-> {}]
    /\ addCallbacks = [c \in Comps |-> {}]
    /\ remCallbacks = [c \in Comps |-> {}]
    /\ constructed = {}
    /\ registry = [l \in Listeners |-> [id \in Ids |-> 0]]
    /\ call = "idle" /\ victim = 0 /\ pos = 1 /\ doomed = {}
    /\ ret = "SUCCESS"

Next ==
    \/ createEntity
    \/ \E id \in EntityId, c \in Comps : addComp(id, c)
    \/ \E id \in EntityId, c \in Comps : remComp(id, c)
    \/ \E s \in Systems : listenForLikeEntities(s)
    \/ \E id \in EntityId : clearEntity(id)
    \/ \E id \in EntityId : deleteEntity(id)
    \/ clear
    \/ \E id \in Ids : clearNext(id)
    \/ clearLoopBody
    \/ clearEntityReturns
    \/ deleteEntityReturns
    \/ clearReturns

Spec == Init /\ [][Next]_vars

--------------------------------------------------------------------------
(* Properties *)

\* Every variable has its type.  That ids handed out stay below the maximum
\* of entityId, so that 0 can mean failure and the counter never wraps, is
\* part of it: nextId is bounded and the collections hold only Ids.
TypeOK ==
    /\ nextId \in EntityId
    /\ freedIds \in Seq(Ids)
    /\ comps \in [AllComps -> SUBSET Ids]
    /\ componentsPresent \in [Ids -> compMask]
    /\ addCallbacks \in [Comps -> SUBSET Listeners]
    /\ remCallbacks \in [Comps -> SUBSET Listeners]
    /\ constructed \subseteq Systems
    /\ registry \in [Listeners -> [Ids -> 0 .. MaxCopies]]
    /\ call \in {"idle", "clearEntity", "deleteEntity", "clear"}
    /\ victim \in {0} \union Ids
    /\ pos \in 1 .. Len(CompOrder) + 1
    /\ doomed \subseteq Ids
    /\ ret \in CompOpReturn

\* The mask in the Existence component and the keys of the collections say
\* the same thing, for Existence too: getComponents (the mask) and get<Comp>
\* (the collection) never disagree, at any point of a clearing call.
StoreMatchesMask ==
    \A c \in AllComps : \A id \in Ids :
        id \in comps[c] <=> c \in componentsPresent[id]

\* Every id the counter has passed is either alive or on the stack of freed
\* ids once, never both, and no other id is: no id is lost, and createEntity
\* never hands out the id of an entity that is there.
IdsAccounted ==
    /\ \A id \in Ids : id <= nextId <=> (id \in live \/ \E i \in DOMAIN freedIds : freedIds[i] = id)
    /\ \A i \in DOMAIN freedIds : freedIds[i] \notin live
    /\ \A i, j \in DOMAIN freedIds : freedIds[i] = freedIds[j] => i = j

\* A component is there only together with its prerequisites, whatever
\* sequence of additions and removals led here; only the entity that is being
\* cleared may be without them.
PrerequisitesHeld ==
    \A id \in Ids \ {victim} : \A c \in componentsPresent[id] \intersect Comps :
        requiredComps(c) \subseteq componentsPresent[id]

\* clearEntity's last test never fails: the loop reaches every component.
NothingReallyBad == ret # "SOMETHING_REALLY_BAD"

\* A registry whose forgetHandler never refuses holds an id at most once, and
\* only while the entity has the likeness, also between two steps of a
\* clearing call and after the id went to another entity.
RegistrySound ==
    \A l \in heedable \ PickyForget : \A id \in Ids :
        /\ registry[l][id] <= 1
        /\ registry[l][id] > 0 => matches(l, id)

\* A System hears of every entity that gains or loses the likeness of one of
\* its registries, in the step in which it does: with handlers that agree the
\* id is there after the one and gone after the other.
FollowsLikeness(L) ==
    \A l \in L : \A id \in Ids :
        /\ l \notin PickyDiscover /\ ~matches(l, id) /\ matches(l, id)' => registry'[l][id] > 0
        /\ l \notin PickyForget /\ matches(l, id) /\ ~matches(l, id)' => registry'[l][id] = 0

RegistryFollows == [][FollowsLikeness(listening)]_vars

\* clear leaves persistent entities alone, every component of theirs, and
\* when it returns they are all that is left.
clearSparesPersistent ==
    call = "clear" =>
        /\ \A id \in live : componentsPresent[id] \intersect persistenceMask # {}
              => componentsPresent'[id] = componentsPresent[id]
        /\ call' = "idle"
              => \A id \in live' : componentsPresent'[id] \intersect persistenceMask # {}

ClearSparesPersistent == [][clearSparesPersistent]_vars

--------------------------------------------------------------------------
(* What the documentation says and the code does not do *)

\* "whenever an entity with at least the components described by 'likeness'
\* comes into or leaves existence" (ecsState.hpp:148), for any likeness.
AnyLikenessIsHeard ==
    [][FollowsLikeness({l \in Listeners : Owner[l] \in constructed})]_vars

\* "the ECS would not allow you to remove a Position, Orientation, or Mesh
\* component from an entity possessing a Visibility component unless the
\* Visibility component is removed first" (ecsComponents.hpp:40-41), as the
\* removal delegates see it: the entity they are called about never lacks a
\* prerequisite of a component it has.
DelegatesSeePrerequisites ==
    (victim # 0 /\ pos <= Len(CompOrder) /\ remFires(victim, CompOrder[pos]) # {})
        => \A c \in componentsPresent[victim] \intersect Comps :
              requiredComps(c) \subseteq componentsPresent[victim]

====
