---- MODULE EntityIds ----
(***************************************************************************)
(* How State hands out entity ids (createEntity and deleteEntity in        *)
(* source/ecsState.cpp).  An id is an unsigned integer of fixed width.     *)
(* Fresh ids come from the counter nextId, which starts at 0; the ids of   *)
(* deleted entities go on the stack freedIds and are handed out again,     *)
(* last freed first, before any fresh one.                                 *)
(***************************************************************************)
EXTENDS Integers, Sequences

CONSTANT MaxId      \* std::numeric_limits<entityId>::max()

ASSUME MaxIdAssumption == MaxId \in Nat \ {0}

\* Every value an entityId can have.
EntityId == 0 .. MaxId

\* The values createEntity may hand out: 0 means failure, and the counter
\* fails on reaching MaxId.
Ids == 1 .. (MaxId - 1)

--------------------------------------------------------------------------
\* createEntity's test on the counter, `nextId == max || ++nextId == max`,
\* reached only when no freed id is left.  The bug variant forgets that the
\* incremented counter may be the maximum itself.
outOfIdsAfterMax(nextId, freedIds) == freedIds = << >> /\ nextId = MaxId
outOfIds(nextId, freedIds) == freedIds = << >> /\ nextId + 1 >= MaxId

\* The id handed out when there is one: the top of the stack, or the
\* incremented counter.
newIdFrom(nextId, freedIds) ==
    IF freedIds = << >> THEN nextId + 1 ELSE Head(freedIds)

\* The counter after the call.  It stays at the maximum once it is there,
\* so ++nextId never wraps around.
nextIdAfter(nextId, freedIds) ==
    IF freedIds = << >> /\ nextId # MaxId THEN nextId + 1 ELSE nextId

\* freedIds.pop(), when there is an id to take.  The bug variant leaves the
\* id on the stack.
freedIdsKept(freedIds) == freedIds
freedIdsAfter(freedIds) == IF freedIds = << >> THEN << >> ELSE Tail(freedIds)

\* freedIds.push(id).
pushFreed(freedIds, id) == << id >> \o freedIds

====
