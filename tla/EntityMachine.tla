---- MODULE EntityMachine ----
(***************************************************************************)
(* The entities of one State as a value: the counter and the stack of ids  *)
(* and the component mask of every id, {} where there is no entity.  Each  *)
(* operator is what a whole method of State does to that value, for the    *)
(* modules in which several States run side by side.                       *)
(***************************************************************************)
EXTENDS EcsComponents, EntityIds

machine == [nextId : EntityId, freedIds : Seq(Ids), mask : [Ids -> compMask]]

emptyMachine ==
    [nextId |-> 0, freedIds |-> << >>, mask |-> [id \in Ids |-> {}]]

\* getComponents, NONE for an id without entity.
getComponents(m, id) == IF id \in Ids THEN m.mask[id] ELSE {}
lives(m, id) == getComponents(m, id) # {}

\* createEntity, with newId: the id it reports, 0 when it fails.
newId(m) ==
    IF outOfIds(m.nextId, m.freedIds) THEN 0 ELSE newIdFrom(m.nextId, m.freedIds)
created(m) ==
    [nextId   |-> nextIdAfter(m.nextId, m.freedIds),
     freedIds |-> freedIdsAfter(m.freedIds),
     mask     |-> [id \in Ids |-> IF id = newId(m) THEN {EXISTENCE} ELSE m.mask[id]]]

\* deleteEntity.
deleted(m, id) ==
    IF lives(m, id)
    THEN [m EXCEPT !.mask[id] = {}, !.freedIds = pushFreed(@, id)]
    ELSE m

\* addComp and insertComp: whether they succeed, and the result.
insertable(m, id, c) ==
    /\ lives(m, id)
    /\ passesPrerequisitesForAddition(m.mask[id], requiredComps(c))
    /\ c \notin m.mask[id]
inserted(m, id, c) ==
    IF insertable(m, id, c) THEN [m EXCEPT !.mask[id] = turnOnFlags(@, {c})] ELSE m

\* remComp.
removable(m, id, c) ==
    /\ lives(m, id)
    /\ c \in m.mask[id]
    /\ passesDependenciesForRemoval(m.mask[id], dependentComps(c))
removed(m, id, c) ==
    IF removable(m, id, c) THEN [m EXCEPT !.mask[id] = turnOffFlags(@, {c})] ELSE m

\* clearEntity.
cleared(m, id) == IF lives(m, id) THEN [m EXCEPT !.mask[id] = {EXISTENCE}] ELSE m

\* Component masks a sequence of additions can lead to.
closed(mask) == \A c \in mask \intersect Comps : requiredComps(c) \subseteq mask

====
