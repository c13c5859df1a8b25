---- MODULE EcsReentrant ----
(***************************************************************************)
(* A State whose delegates call back into it.  EcsState lets a handler     *)
(* only answer; here the handler of an IdRegistry may call any method of   *)
(* State before it returns, and that call may fire delegates in turn.      *)
(*                                                                         *)
(* What a running call remembers is on the stack: the reference it took    *)
(* for the id, the pointer to the entity's Existence component, its place  *)
(* in the list of callbacks, and the position forget has found.  All of    *)
(* them can go stale while a handler runs.  A call that State refuses      *)
(* changes nothing and is no step here; what handlers answer is the        *)
(* subject of EcsState, here they say yes.                                 *)
(***************************************************************************)
EXTENDS EcsComponents, EntityIds, KvMap, SequencesExt

CONSTANTS
    Systems,        \* the System objects of the program
    Listeners,      \* the IdRegistry objects of all Systems together
    Registries,     \* [Systems -> Seq(Listeners)], the members of each System
    Likeness,       \* [Listeners -> compMask]
    MaxNesting,     \* bound: handlers on the stack that call State
    Rules           \* what the game's handlers keep to

ASSUME ReentrantAssumption ==
    /\ Registries \in [Systems -> Seq(Listeners)]
    /\ \A s, t \in Systems : \A i \in DOMAIN Registries[s], j \in DOMAIN Registries[t] :
          Registries[s][i] = Registries[t][j] => s = t /\ i = j
    /\ Likeness \in [Listeners -> compMask]
    /\ MaxNesting \in Nat
    /\ Rules \subseteq {"others", "pinned", "systems", "clear"}

VARIABLES
    nextId, freedIds, comps, componentsPresent,     \* as in EcsState
    callbacks,      \* callbacks[c]: addCallbacks_<c>, and remCallbacks_<c>,
                    \* which holds the same registries in the same order
    constructed,    \* the Systems whose constructor has run
    ids,            \* ids[l]: the vector in registry l
    stack           \* the running calls and handlers, the innermost last

idVars == << nextId, freedIds >>
stateVars == << idVars, comps, componentsPresent >>
systemVars == << callbacks, constructed, ids >>
vars == << stateVars, systemVars, stack >>

live == comps[EXISTENCE]
matches(l, id) == Likeness[l] \subseteq componentsPresent[id]

--------------------------------------------------------------------------
(* The stack *)

\* An id that is passed by value, or by reference to a place in a registry.
byValue(id) == [id |-> id, ref |-> << >>]
byReference(l, i) == [id |-> ids[l][i], ref |-> << l, i >>]
arguments ==
    {byValue(id) : id \in live}
        \union UNION {{byReference(l, i) : i \in DOMAIN ids[l]} : l \in Listeners}

\* A frame: the id as its reference reads now, and the entity that the id
\* named when the call began, to which the pointer to Existence belongs.
frame(op, arg) ==
    [op |-> op, id |-> arg.id, ref |-> arg.ref, entity |-> arg.id, stale |-> FALSE]

\* The range-for over the callbacks of c, which fixes its end at the start.
notifying(f, op, c) ==
    [op |-> op, id |-> f.id, ref |-> f.ref, entity |-> f.entity, stale |-> FALSE,
     c |-> c, pos |-> 1, last |-> Len(callbacks[c])]

\* A clearing call.  "was" is no part of it: the mask the entity came with.
clearing(op, arg) ==
    [op |-> op, id |-> arg.id, ref |-> arg.ref, entity |-> arg.id, stale |-> FALSE,
     pos |-> 1, was |-> componentsPresent[arg.id]]

\* std::find in forget.  The bug variant is one place too far.
positionAfter(l, id) == SelectInSeq(ids[l], LAMBDA x : x = id) + 1
position(l, id) == SelectInSeq(ids[l], LAMBDA x : x = id)

handler(f, l) ==
    [op |-> IF f.op = "add" THEN "discover" ELSE "forget",
     id |-> f.id, ref |-> f.ref, entity |-> f.entity, stale |-> FALSE,
     l |-> l, at |-> position(l, f.id)]

top == Last(stack)
returned == Front(stack)
moved(pos) == [stack EXCEPT ![Len(stack)].pos = pos]

\* Nothing is said of a program that goes on with what has gone stale.
resumes(ops) == stack # << >> /\ top.op \in ops /\ ~top.stale

calls == {"add", "rem", "clearEntity", "deleteEntity"}
handlers == {"discover", "forget"}
onStack(ops) == {stack[i] : i \in {j \in DOMAIN stack : stack[j].op \in ops}}

\* Frames whose pointer or iterator is gone, when it is.
spoil(frames, bad(_)) ==
    [i \in DOMAIN frames |-> [frames[i] EXCEPT !.stale = @ \/ bad(frames[i])]]

\* References into a registry read what the vector has in that place now.  A
\* place beyond its end still holds what it held.
reread(frames, l, newIds) ==
    [i \in DOMAIN frames |->
        LET f == frames[i]
        IN  IF f.ref # << >> /\ f.ref[1] = l /\ f.ref[2] \in DOMAIN newIds
            THEN [f EXCEPT !.id = newIds[f.ref[2]]] ELSE f]

placedIn(f, l) == (f.ref # << >> /\ f.ref[1] = l) \/ (f.op = "forget" /\ f.l = l)

--------------------------------------------------------------------------
(* What the game keeps to *)

\* The program is in its main loop, or in a handler.
inControl ==
    \/ stack = << >>
    \/ /\ resumes(handlers)
       /\ Cardinality({i \in DOMAIN stack : stack[i].op \in handlers}) <= MaxNesting

busy == {f.entity : f \in onStack(calls)}
pinned(arg) ==
    {f.l : f \in onStack({"forget"})}
        \union {r[1] : r \in ({arg.ref} \union {f.ref : f \in onStack(calls)}) \ {<< >>}}

\* "others": a handler calls nothing for an entity that a running call is
\*     about.
\* "pinned": nothing makes a registry grow or shrink while its forgetHandler
\*     runs, or while a call runs that took its id by reference from it.
\* "systems": handlers construct no System.
\* "clear": handlers that run inside clear neither create entities nor add
\*     persistent components.
keepsRules(arg, wouldFire(_)) ==
    /\ "others" \in Rules => arg.id \notin busy
    /\ "pinned" \in Rules => \A l \in pinned(arg) : ~wouldFire(l)
onlyAtTop(rule) == rule \in Rules => stack = << >>
outsideClear == "clear" \in Rules => onStack({"clear"}) = {}

--------------------------------------------------------------------------
(* Calls, from the main loop or a handler *)

createEntity ==
    /\ inControl /\ outsideClear
    /\ nextId' = nextIdAfter(nextId, freedIds)
    /\ freedIds' = freedIdsAfter(freedIds)
    /\ IF outOfIds(nextId, freedIds)
       THEN UNCHANGED << comps, componentsPresent >>
       ELSE LET id == newIdFrom(nextId, freedIds)
            IN  /\ comps' = [comps EXCEPT ![EXISTENCE] = try_emplace(@, id)]
                /\ componentsPresent' = [componentsPresent EXCEPT
                       ![id] = turnOnFlags(@, {EXISTENCE})]
    /\ UNCHANGED << systemVars, stack >>

\* addComp and insertComp up to their loop: the component is stored.
addComp(arg, c) ==
    /\ inControl /\ (c \in Persistent => outsideClear)
    /\ keepsRules(arg, LAMBDA l :
          shouldFireAdditionDlgt(Likeness[l], componentsPresent[arg.id], c))
    /\ passesPrerequisitesForAddition(componentsPresent[arg.id], requiredComps(c))
    /\ ~count(comps[c], arg.id)
    /\ comps' = [comps EXCEPT ![c] = try_emplace(@, arg.id)]
    /\ stack' = Append(stack, notifying(frame("add", arg), "add", c))
    /\ UNCHANGED << idVars, componentsPresent, systemVars >>

remComp(arg, c) ==
    /\ inControl
    /\ keepsRules(arg, LAMBDA l :
          shouldFireRemovalDlgt(Likeness[l], componentsPresent[arg.id], c))
    /\ count(live, arg.id) /\ count(comps[c], arg.id)
    /\ passesDependenciesForRemoval(componentsPresent[arg.id], dependentComps(c))
    /\ stack' = Append(stack, notifying(frame("rem", arg), "rem", c))
    /\ UNCHANGED << stateVars, systemVars >>

\* clearEntity, and deleteEntity, which begins with it.
clearEntity(arg, op) ==
    /\ inControl
    /\ keepsRules(arg, LAMBDA l : matches(l, arg.id))
    /\ count(live, arg.id)
    /\ stack' = Append(stack, clearing(op, arg))
    /\ UNCHANGED << stateVars, systemVars >>

\* The entities clear collects before it deletes them.  The bug variant does
\* not ask for persistence.
everyEntity == live
idsToErase == {id \in live : componentsPresent[id] \intersect persistenceMask = {}}

clear ==
    /\ inControl
    /\ \A id \in idsToErase : keepsRules(byValue(id), LAMBDA l : matches(l, id))
    /\ stack' = Append(stack, [op |-> "clear", ref |-> << >>, stale |-> FALSE,
                               doomed |-> idsToErase])
    /\ UNCHANGED << stateVars, systemVars >>

\* The registries of s that ask about c, in the order of their construction.
interested(s, c) ==
    LET among[k \in 0 .. Len(Registries[s])] ==
            IF k = 0 THEN << >>
            ELSE IF c \in Likeness[Registries[s][k]]
            THEN Append(among[k - 1], Registries[s][k]) ELSE among[k - 1]
    IN  among[Len(Registries[s])]

\* The constructor of a System registers its delegates.  A list that grows
\* may move, and a loop over it then goes on in memory that is freed.
listenForLikeEntities(s) ==
    LET grows(c) == interested(s, c) # << >>
    IN  /\ inControl /\ onlyAtTop("systems")
        /\ s \notin constructed
        /\ constructed' = constructed \union {s}
        /\ callbacks' = [c \in Comps |-> callbacks[c] \o interested(s, c)]
        /\ \E moves \in BOOLEAN :
              stack' = spoil(stack, LAMBDA f : moves /\ f.op \in {"add", "rem"} /\ grows(f.c))
        /\ UNCHANGED << stateVars, ids >>

--------------------------------------------------------------------------
(* What the innermost frame does next *)

\* The callbacks a loop has still to fire, by the mask as it is now; forget
\* does nothing for an id it does not find.
toFire(f) ==
    {i \in f.pos .. f.last :
        LET l == callbacks[f.c][i]
        IN  IF f.op = "add"
            THEN shouldFireAdditionDlgt(Likeness[l], componentsPresent[f.entity], f.c)
            ELSE /\ shouldFireRemovalDlgt(Likeness[l], componentsPresent[f.entity], f.c)
                 /\ Contains(ids[l], f.id)}

fire ==
    /\ resumes({"add", "rem"})
    /\ toFire(top) # {}
    /\ LET next == Min(toFire(top))
       IN  stack' = Append(moved(next + 1), handler(top, callbacks[top.c][next]))
    /\ UNCHANGED << stateVars, systemVars >>

\* The discoverHandler agrees: the id goes to the end of the vector, which
\* may move it.
discoverReturns ==
    /\ resumes({"discover"})
    /\ ids' = [ids EXCEPT ![top.l] = Append(@, top.id)]
    /\ \E moves \in BOOLEAN :
          stack' = spoil(reread(returned, top.l, ids'[top.l]),
                         LAMBDA f : moves /\ placedIn(f, top.l))
    /\ UNCHANGED << stateVars, callbacks, constructed >>

\* The forgetHandler agrees: what stands at the position is erased.
forgetReturns ==
    /\ resumes({"forget"})
    /\ top.at \in DOMAIN ids[top.l]
    /\ ids' = [ids EXCEPT ![top.l] = RemoveAt(@, top.at)]
    /\ stack' = reread(returned, top.l, ids'[top.l])
    /\ UNCHANGED << stateVars, callbacks, constructed >>

\* The end of addComp.
addCompReturns ==
    /\ resumes({"add"})
    /\ toFire(top) = {}
    /\ componentsPresent' = [componentsPresent EXCEPT ![top.entity] = turnOnFlags(@, {top.c})]
    /\ stack' = returned
    /\ UNCHANGED << idVars, comps, systemVars >>

\* The end of remCompNoChecks: the collection is asked for the id, the mask
\* is the one behind the pointer.
remCompReturns ==
    /\ resumes({"rem"})
    /\ toFire(top) = {}
    /\ comps' = [comps EXCEPT ![top.c] = erase(@, top.id)]
    /\ componentsPresent' = [componentsPresent EXCEPT ![top.entity] = turnOffFlags(@, {top.c})]
    /\ stack' = returned
    /\ UNCHANGED << idVars, systemVars >>

\* The next line of the generated clearing loop.
clearLoopBody ==
    /\ resumes({"clearEntity", "deleteEntity"})
    /\ top.pos <= Len(CompOrder)
    /\ stack' = Append(moved(top.pos + 1), notifying(top, "rem", CompOrder[top.pos]))
    /\ UNCHANGED << stateVars, systemVars >>

\* The bug variant stops one component short.
clearLoopCutShort == top.pos >= Len(CompOrder)
clearLoopDone == top.pos > Len(CompOrder)

clearEntityReturns ==
    /\ resumes({"clearEntity"})
    /\ clearLoopDone
    /\ stack' = returned
    /\ UNCHANGED << stateVars, systemVars >>

\* deleteEntity erases the Existence component the id now names, and with it
\* what other calls may point to.
deleteEntityReturns ==
    /\ resumes({"deleteEntity"})
    /\ clearLoopDone
    /\ IF componentsPresent[top.entity] = {EXISTENCE}
       THEN /\ comps' = [comps EXCEPT ![EXISTENCE] = erase(@, top.id)]
            /\ componentsPresent' = [componentsPresent EXCEPT ![top.id] = {}]
            /\ freedIds' = pushFreed(freedIds, top.id)
            /\ stack' = spoil(returned, LAMBDA f : f.op \in calls /\ f.entity = top.id)
       ELSE stack' = returned /\ UNCHANGED << comps, componentsPresent, freedIds >>
    /\ UNCHANGED << nextId, systemVars >>

\* clear's second loop, in any order.
clearNext ==
    /\ resumes({"clear"})
    /\ \E id \in top.doomed :
          LET rest == [stack EXCEPT ![Len(stack)].doomed = @ \ {id}]
          IN  stack' = IF count(live, id) THEN Append(rest, clearing("deleteEntity", byValue(id)))
                       ELSE rest
    /\ UNCHANGED << stateVars, systemVars >>

clearReturns ==
    /\ resumes({"clear"}) /\ top.doomed = {}
    /\ stack' = returned
    /\ UNCHANGED << stateVars, systemVars >>

--------------------------------------------------------------------------
Init ==
    /\ nextId = 0 /\ freedIds = << >>
    /\ comps = [c \in AllComps |-> {}]
    /\ componentsPresent = [id \in Ids |-> {}]
    /\ callbacks = [c \in Comps |-> << >>] /\ constructed = {}
    /\ ids = [l \in Listeners |-> << >>]
    /\ stack = << >>

Next ==
    \/ createEntity
    \/ \E arg \in arguments, c \in Comps : addComp(arg, c) \/ remComp(arg, c)
    \/ \E arg \in arguments, op \in {"clearEntity", "deleteEntity"} : clearEntity(arg, op)
    \/ clear
    \/ \E s \in Systems : listenForLikeEntities(s)
    \/ fire \/ discoverReturns \/ forgetReturns
    \/ addCompReturns \/ remCompReturns
    \/ clearLoopBody \/ clearEntityReturns \/ deleteEntityReturns
    \/ clearNext \/ clearReturns

Spec == Init /\ [][Next]_vars

--------------------------------------------------------------------------
(* Properties *)

TypeOK ==
    /\ nextId \in EntityId /\ freedIds \in Seq(Ids)
    /\ comps \in [AllComps -> SUBSET Ids]
    /\ componentsPresent \in [Ids -> compMask]
    /\ \A c \in Comps : callbacks[c] \in Seq(Listeners)
    /\ constructed \subseteq Systems
    /\ \A l \in Listeners : ids[l] \in Seq(Ids)
    /\ \A i \in DOMAIN stack : stack[i].op \in calls \union handlers \union {"clear"}

\* A call or a handler that goes on finds what it took: its id still names
\* the entity it was called for, the Existence component, the callbacks and
\* the place in the registry are where they were (the references, pointers
\* and iterators of addComp, remCompNoChecks, clearEntity and forget).
HoldsWhatItTook ==
    stack # << >> =>
        /\ ~top.stale
        /\ top.op \in calls => top.id = top.entity
        /\ top.op = "forget" => top.at \in DOMAIN ids[top.l] /\ ids[top.l][top.at] = top.id

\* The mask of an entity and the collections agree, at every point at which
\* a handler can look at them, except for the component that is just being
\* added.
StoreMatchesMask ==
    \A c \in AllComps : \A id \in Ids :
        id \in comps[c] <=>
            \/ c \in componentsPresent[id]
            \/ \E f \in onStack({"add"}) : f.entity = id /\ f.c = c

\* A registry holds an id once, and only while the entity has the likeness,
\* unless a running call is about the entity.
RegistrySound ==
    \A l \in Listeners : \A i, j \in DOMAIN ids[l] :
        /\ ids[l][i] = ids[l][j] => i = j
        /\ ids[l][i] \in busy \/ matches(l, ids[l][i])

\* Whatever handlers do, a System hears of an entity that gains or loses the
\* likeness of one of its registries before the mask says so.
followsLikeness ==
    \A l \in UNION {ToSet(callbacks[c]) : c \in Comps} : \A id \in Ids :
        /\ ~matches(l, id) /\ matches(l, id)' => Contains(ids'[l], id)
        /\ matches(l, id) /\ ~matches(l, id)' => ~Contains(ids'[l], id)
RegistryFollows == [][followsLikeness]_vars

\* clear deletes no entity that has a persistent component, also when
\* handlers change entities after clear has collected what to delete.
ClearSparesPersistent ==
    \A i \in 1 .. Len(stack) - 1 :
        stack[i].op = "clear" /\ stack[i + 1].op = "deleteEntity"
            => stack[i + 1].was \intersect persistenceMask = {}

\* Calls inside calls are still atomic: each changes the entities at once,
\* as EntityStore says, at the moment it returns.  Until then an entity that
\* is being cleared counts as what it was.
storeBeforeReturn ==
    [nextId |-> nextId, freedIds |-> freedIds,
     mask |-> [id \in Ids |->
        LET clears == {f \in onStack({"clearEntity", "deleteEntity"}) : f.entity = id}
        IN  IF clears = {} THEN componentsPresent[id]
            ELSE (CHOOSE f \in clears : TRUE).was]]

Store == INSTANCE EntityStore WITH store <- storeBeforeReturn

CallsAtomic == Store!Spec

\* "Deletes an entity", the one its id names (ecsState.hpp, deleteEntity):
\* when deleteEntity returns that entity is gone, and no other.
deletesEntityNamed ==
    stack # << >> /\ top.op = "deleteEntity" /\ stack' = returned
        => top.entity \notin live' /\ live \ live' \subseteq {top.entity}
DeletesEntityNamed == [][deletesEntityNamed]_vars

====
