---- MODULE EntityRequestsProofs ----
(***************************************************************************)
(* Proofs about EntityRequests, for any number of clients, component       *)
(* types, ids and manual entities.  First what one State is after any      *)
(* calls, and what writing and reading an entity does: what is written is  *)
(* read back.  On that rest the invariant that each client is behind the   *)
(* server by the packets under way to it, the fulfilment of requests and   *)
(* the step-by-step implementation of ReplicatedStore.                     *)
(***************************************************************************)
EXTENDS EntityRequests, Induction, SequenceTheorems

--------------------------------------------------------------------------
(* One State *)

\* What a State is after any calls: an entity has Existence and the
\* prerequisites of what it has, its id was handed out, and an id that is freed
\* is so once and is nobody's.
Sound(m) ==
    /\ m \in machine
    /\ \A id \in Ids : closed(m.mask[id]) /\ (m.mask[id] # {} => EXISTENCE \in m.mask[id])
    /\ \A id \in Ids : m.mask[id] # {} => id <= m.nextId
    /\ \A i \in 1 .. Len(m.freedIds) : m.freedIds[i] <= m.nextId /\ m.mask[m.freedIds[i]] = {}
    /\ \A i, j \in 1 .. Len(m.freedIds) : m.freedIds[i] = m.freedIds[j] => i = j

\* The parts of such a State.
LEMMA SoundParts ==
    ASSUME NEW m, Sound(m)
    PROVE  /\ m = [nextId |-> m.nextId, freedIds |-> m.freedIds, mask |-> m.mask]
           /\ m.nextId \in EntityId /\ m.nextId \in Nat /\ m.nextId <= MaxId
           /\ m.freedIds \in Seq(Ids)
           /\ m.mask \in [Ids -> compMask]
           /\ MaxId \in Nat \ {0}
  BY MaxIdAssumption DEF Sound, machine, EntityId

\* A State in which nothing was done yet is sound.
LEMMA EmptySound == Sound(emptyMachine)
<1>1. emptyMachine \in machine
  <2>1. 0 \in EntityId /\ << >> \in Seq(Ids) /\ [id \in Ids |-> {}] \in [Ids -> compMask]
    BY MaxIdAssumption DEF EntityId, compMask
  <2> QED
    BY <2>1 DEF emptyMachine, machine
<1>2. \A id \in Ids : emptyMachine.mask[id] = {} /\ closed({})
  BY DEF emptyMachine, closed
<1>3. emptyMachine.freedIds = << >> /\ Len(<< >>) = 0
  BY DEF emptyMachine
<1>4. \A id \in Ids : emptyMachine.mask[id] # {} => id <= emptyMachine.nextId
  BY <1>2
<1>5. 1 .. Len(emptyMachine.freedIds) = {}
  BY <1>3
<1> HIDE DEF emptyMachine
<1> QED
  BY <1>1, <1>2, <1>4, <1>5 DEF Sound

\* m with these components for id.
withMask(m, id, k) == [m EXCEPT !.mask[id] = k]

\* An entity that is alive may have anything that is closed.
LEMMA MaskSound ==
    ASSUME NEW m, Sound(m), NEW id \in Ids, m.mask[id] # {},
           NEW k \in SUBSET AllComps, EXISTENCE \in k, closed(k)
    PROVE  /\ Sound(withMask(m, id, k))
           /\ withMask(m, id, k) = [nextId |-> m.nextId, freedIds |-> m.freedIds,
                                    mask |-> [m.mask EXCEPT ![id] = k]]
<1> DEFINE w == [nextId |-> m.nextId, freedIds |-> m.freedIds, mask |-> [m.mask EXCEPT ![id] = k]]
<1>1. withMask(m, id, k) = w
  BY SoundParts DEF withMask
<1>2. w \in machine
  BY SoundParts DEF machine, compMask
<1>3. /\ w.nextId = m.nextId /\ w.freedIds = m.freedIds
      /\ w.mask[id] = k /\ \A j \in Ids : j # id => w.mask[j] = m.mask[j]
  BY SoundParts
<1>4. \A i \in 1 .. Len(m.freedIds) : m.freedIds[i] \in Ids
  BY SoundParts
<1> HIDE DEF w
<1>5. Sound(w)
  <2>1. \A j \in Ids : closed(w.mask[j]) /\ (w.mask[j] # {} => EXISTENCE \in w.mask[j])
    BY <1>3 DEF Sound
  <2>2. \A j \in Ids : w.mask[j] # {} => j <= w.nextId
    BY <1>3 DEF Sound
  <2>3. \A i \in 1 .. Len(w.freedIds) : w.freedIds[i] <= w.nextId /\ w.mask[w.freedIds[i]] = {}
    BY <1>3, <1>4 DEF Sound
  <2>4. \A i, j \in 1 .. Len(w.freedIds) : w.freedIds[i] = w.freedIds[j] => i = j
    BY <1>3 DEF Sound
  <2> QED
    BY <1>2, <2>1, <2>2, <2>3, <2>4 DEF Sound
<1> QED
  BY <1>1, <1>5 DEF w

\* The State after an entity was created and got the components k.
withEntity(m, k) ==
    [nextId   |-> nextIdAfter(m.nextId, m.freedIds),
     freedIds |-> freedIdsAfter(m.freedIds),
     mask     |-> [id \in Ids |-> IF id = newId(m) THEN {EXISTENCE} \union k ELSE m.mask[id]]]

\* A new id is nobody's.
LEMMA NewIdFree ==
    ASSUME NEW m, Sound(m)
    PROVE  /\ newId(m) \in {0} \union Ids
           /\ newId(m) # 0 => newId(m) \in Ids /\ m.mask[newId(m)] = {}
           /\ 0 \notin Ids
<1>1. 0 \notin Ids /\ Ids \subseteq Nat
  BY MaxIdAssumption DEF Ids
<1>2. CASE outOfIds(m.nextId, m.freedIds)
  BY <1>1, <1>2 DEF newId
<1>3. CASE ~outOfIds(m.nextId, m.freedIds) /\ m.freedIds = << >>
  <2>1. newId(m) = m.nextId + 1 /\ m.nextId + 1 < MaxId
    BY <1>3, SoundParts DEF newId, outOfIds, newIdFrom
  <2>2. newId(m) \in Ids
    BY <2>1, SoundParts DEF Ids
  <2>3. m.mask[newId(m)] = {}
    BY <2>1, <2>2, SoundParts DEF Sound
  <2> QED
    BY <1>1, <2>2, <2>3
<1>4. CASE m.freedIds # << >>
  <2>1. newId(m) = Head(m.freedIds)
    BY <1>4 DEF newId, outOfIds, newIdFrom
  <2>2. 1 \in 1 .. Len(m.freedIds) /\ Head(m.freedIds) = m.freedIds[1] /\ m.freedIds[1] \in Ids
    BY <1>4, SoundParts
  <2>3. m.mask[m.freedIds[1]] = {}
    BY <2>2 DEF Sound
  <2> QED
    BY <1>1, <2>1, <2>2, <2>3
<1> QED
  BY <1>2, <1>3, <1>4

\* createEntity with the components that are added next leaves a State sound.
LEMMA EntitySound ==
    ASSUME NEW m, Sound(m), NEW k \in SUBSET Comps, closed({EXISTENCE} \union k)
    PROVE  /\ Sound(withEntity(m, k))
           /\ \A id \in Ids : withEntity(m, k).mask[id] =
                                  IF id = newId(m) THEN {EXISTENCE} \union k ELSE m.mask[id]
<1> DEFINE w == withEntity(m, k)
<1>1. /\ w.nextId = nextIdAfter(m.nextId, m.freedIds)
      /\ w.freedIds = freedIdsAfter(m.freedIds)
      /\ \A id \in Ids : w.mask[id] = IF id = newId(m) THEN {EXISTENCE} \union k ELSE m.mask[id]
  BY DEF withEntity
<1>2. w.nextId \in EntityId /\ m.nextId <= w.nextId
  BY <1>1, SoundParts DEF nextIdAfter, EntityId
<1>3. w.freedIds \in Seq(Ids)
  BY <1>1, SoundParts DEF freedIdsAfter
<1>4. w \in machine
  <2>1. {EXISTENCE} \union k \in compMask
    BY DEF compMask, AllComps
  <2>2. [id \in Ids |-> IF id = newId(m) THEN {EXISTENCE} \union k ELSE m.mask[id]] \in [Ids -> compMask]
    BY <2>1, SoundParts
  <2> QED
    BY <1>1, <1>2, <1>3, <2>2 DEF withEntity, machine
<1>5. \A id \in Ids : closed(w.mask[id]) /\ (w.mask[id] # {} => EXISTENCE \in w.mask[id])
  BY <1>1 DEF Sound
<1>6. \A id \in Ids : w.mask[id] # {} => id <= w.nextId
  <2> SUFFICES ASSUME NEW id \in Ids, w.mask[id] # {} PROVE id <= w.nextId
    OBVIOUS
  <2>1. CASE id # newId(m)
    <3>1. id <= m.nextId /\ id \in Nat
      BY <1>1, <2>1 DEF Sound, Ids
    <3> QED
      BY <1>2, <3>1, SoundParts DEF EntityId
  <2>2. CASE id = newId(m) /\ m.freedIds = << >>
    <3>1. id = m.nextId + 1 /\ m.nextId + 1 < MaxId
      BY <2>2, SoundParts, NewIdFree DEF newId, outOfIds, newIdFrom
    <3>2. w.nextId = m.nextId + 1
      BY <1>1, <2>2, <3>1, SoundParts DEF nextIdAfter
    <3> QED
      BY <3>1, <3>2, SoundParts
  <2>3. CASE id = newId(m) /\ m.freedIds # << >>
    <3>1. id = m.freedIds[1] /\ 1 \in 1 .. Len(m.freedIds)
      BY <2>3, SoundParts DEF newId, outOfIds, newIdFrom
    <3>2. id <= m.nextId /\ id \in Nat
      BY <3>1 DEF Sound, Ids
    <3> QED
      BY <1>2, <3>2, SoundParts DEF EntityId
  <2> QED
    BY <2>1, <2>2, <2>3
<1>7. /\ \A i \in 1 .. Len(w.freedIds) : w.freedIds[i] <= w.nextId /\ w.mask[w.freedIds[i]] = {}
      /\ \A i, j \in 1 .. Len(w.freedIds) : w.freedIds[i] = w.freedIds[j] => i = j
  <2>1. CASE m.freedIds = << >>
    BY <1>1, <2>1 DEF freedIdsAfter
  <2>2. CASE m.freedIds # << >>
    <3>1. w.freedIds = Tail(m.freedIds)
      BY <1>1, <2>2 DEF freedIdsAfter
    <3>2. /\ Len(w.freedIds) = Len(m.freedIds) - 1 /\ Len(m.freedIds) \in Nat \ {0}
          /\ \A i \in 1 .. Len(w.freedIds) : w.freedIds[i] = m.freedIds[i + 1]
      BY <2>2, <3>1, SoundParts
    <3>3. newId(m) = m.freedIds[1]
      BY <2>2, SoundParts DEF newId, outOfIds, newIdFrom
    <3>4. ASSUME NEW i \in 1 .. Len(w.freedIds)
          PROVE  w.freedIds[i] <= w.nextId /\ w.mask[w.freedIds[i]] = {}
      <4>1. PICK j \in 1 .. Len(m.freedIds) : j = i + 1
        BY <3>2
      <4>2. w.freedIds[i] = m.freedIds[j] /\ m.freedIds[j] \in Ids /\ m.freedIds[j] \in Nat
        <5>1. m.freedIds \in Seq(Ids) /\ w.freedIds[i] = m.freedIds[j]
          BY <3>2, <4>1, SoundParts
        <5>2. PICK f \in Seq(Ids) : f = m.freedIds
          BY <5>1
        <5>3. f[j] \in Ids
          BY <5>2
        <5> QED
          BY <5>1, <5>2, <5>3 DEF Ids
      <4>3. m.freedIds[j] <= m.nextId /\ m.mask[m.freedIds[j]] = {}
        BY DEF Sound
      <4>4. m.freedIds[j] # newId(m)
        <5>1. 1 \in 1 .. Len(m.freedIds) /\ j # 1
          BY <3>2, <4>1
        <5> QED
          BY <3>3, <5>1 DEF Sound
      <4>5. w.mask[m.freedIds[j]] = {}
        BY <1>1, <4>2, <4>3, <4>4
      <4>6. m.freedIds[j] <= w.nextId
        BY <1>2, <4>2, <4>3, SoundParts DEF EntityId
      <4> QED
        BY <4>2, <4>5, <4>6
    <3>5. ASSUME NEW i \in 1 .. Len(w.freedIds), NEW j \in 1 .. Len(w.freedIds), w.freedIds[i] = w.freedIds[j]
          PROVE  i = j
      <4>1. PICK a \in 1 .. Len(m.freedIds), b \in 1 .. Len(m.freedIds) : a = i + 1 /\ b = j + 1
        BY <3>2
      <4>2. m.freedIds[a] = m.freedIds[b]
        BY <3>2, <3>5, <4>1
      <4>3. a = b
        BY <4>2 DEF Sound
      <4> QED
        BY <3>2, <4>1, <4>3
    <3> QED
      BY <3>4, <3>5
  <2> QED
    BY <2>1, <2>2
<1> HIDE DEF w
<1>8. Sound(w)
  BY <1>4, <1>5, <1>6, <1>7 DEF Sound
<1> QED
  BY <1>1, <1>8 DEF w

\* createEntity alone is that without components.
LEMMA CreatedIsEntity ==
    ASSUME NEW m
    PROVE  created(m) = withEntity(m, {}) /\ closed({EXISTENCE} \union {})
  BY CompsAssumption DEF created, withEntity, closed

\* It leaves a State sound.
LEMMA CreatedSound ==
    ASSUME NEW m, Sound(m)
    PROVE  /\ Sound(created(m))
           /\ newId(m) # 0 => created(m).mask[newId(m)] = {EXISTENCE}
<1>1. Sound(withEntity(m, {})) /\ \A id \in Ids : withEntity(m, {}).mask[id] =
                                  IF id = newId(m) THEN {EXISTENCE} \union {} ELSE m.mask[id]
  BY CreatedIsEntity, EntitySound
<1> QED
  BY <1>1, CreatedIsEntity, NewIdFree

\* deleteEntity frees the id of an entity that was there.
LEMMA DeletedSound ==
    ASSUME NEW m, Sound(m), NEW id
    PROVE  Sound(deleted(m, id))
<1>1. CASE ~lives(m, id)
  BY <1>1 DEF deleted
<1>2. CASE lives(m, id)
  <2> DEFINE w == [nextId |-> m.nextId, freedIds |-> << id >> \o m.freedIds,
                   mask |-> [m.mask EXCEPT ![id] = {}]]
             n == Len(m.freedIds)
  <2>1. id \in Ids /\ m.mask[id] # {}
    BY <1>2 DEF lives, getComponents
  <2>2. deleted(m, id) = w
    <3>1. m = [nextId |-> m.nextId, freedIds |-> m.freedIds, mask |-> m.mask]
      BY SoundParts
    <3>2. deleted(m, id) = [m EXCEPT !.mask[id] = {}, !.freedIds = << id >> \o m.freedIds]
      BY <1>2 DEF deleted, pushFreed
    <3> QED
      BY <3>1, <3>2
  <2>3. w \in machine
    BY <2>1, SoundParts DEF machine, compMask
  <2>4. /\ w.nextId = m.nextId /\ w.mask[id] = {}
        /\ \A j \in Ids : j # id => w.mask[j] = m.mask[j]
    BY <2>1, SoundParts
  <2>5. n \in Nat /\ Len(w.freedIds) = n + 1 /\ w.freedIds[1] = id
    BY <2>1, SoundParts
  <2>6. \A i \in 2 .. n + 1 : w.freedIds[i] = m.freedIds[i - 1]
    BY <2>1, SoundParts
  <2> HIDE DEF w, n
  <2>7. \A i \in 1 .. n + 1 : i = 1 \/ \E j \in 1 .. n : i = j + 1 /\ w.freedIds[i] = m.freedIds[j]
    <3> TAKE i \in 1 .. n + 1
    <3> SUFFICES ASSUME i # 1 PROVE \E j \in 1 .. n : i = j + 1 /\ w.freedIds[i] = m.freedIds[j]
      OBVIOUS
    <3>1. i - 1 \in 1 .. n /\ i = (i - 1) + 1 /\ i \in 2 .. n + 1
      BY <2>5
    <3> QED
      BY <2>6, <3>1
  <2>8. \A j \in 1 .. n : m.freedIds[j] \in Ids /\ m.freedIds[j] # id /\ m.freedIds[j] <= m.nextId
                          /\ m.mask[m.freedIds[j]] = {}
    <3>1. \A j \in 1 .. n : m.freedIds[j] \in Ids
      BY SoundParts DEF n
    <3> QED
      BY <2>1, <3>1 DEF Sound, n
  <2>9. \A i \in 1 .. n + 1 : w.freedIds[i] <= w.nextId /\ w.mask[w.freedIds[i]] = {}
    <3>1. id <= m.nextId
      BY <2>1 DEF Sound
    <3>2. ASSUME NEW i \in 1 .. n + 1 PROVE w.freedIds[i] <= w.nextId /\ w.mask[w.freedIds[i]] = {}
      <4>1. CASE i = 1
        BY <2>4, <2>5, <3>1, <4>1
      <4>2. CASE i # 1
        <5>1. PICK j \in 1 .. n : w.freedIds[i] = m.freedIds[j]
          BY <2>7, <4>2
        <5> QED
          BY <2>4, <2>8, <5>1
      <4> QED
        BY <4>1, <4>2
    <3> QED
      BY <3>2
  <2>10. \A i, j \in 1 .. n + 1 : w.freedIds[i] = w.freedIds[j] => i = j
    <3>1. \A i, j \in 1 .. n : m.freedIds[i] = m.freedIds[j] => i = j
      BY DEF Sound, n
    <3>2. ASSUME NEW i \in 1 .. n + 1, NEW j \in 1 .. n + 1, w.freedIds[i] = w.freedIds[j]
          PROVE  i = j
      <4>1. CASE i = 1 /\ j = 1
        BY <4>1
      <4>2. CASE i = 1 /\ j # 1
        <5>1. PICK b \in 1 .. n : w.freedIds[j] = m.freedIds[b]
          BY <2>7, <4>2
        <5> QED
          BY <2>5, <2>8, <3>2, <4>2, <5>1
      <4>3. CASE i # 1 /\ j = 1
        <5>1. PICK a \in 1 .. n : w.freedIds[i] = m.freedIds[a]
          BY <2>7, <4>3
        <5> QED
          BY <2>5, <2>8, <3>2, <4>3, <5>1
      <4>4. CASE i # 1 /\ j # 1
        <5>1. PICK a \in 1 .. n : i = a + 1 /\ w.freedIds[i] = m.freedIds[a]
          BY <2>7, <4>4
        <5>2. PICK b \in 1 .. n : j = b + 1 /\ w.freedIds[j] = m.freedIds[b]
          BY <2>7, <4>4
        <5>3. a = b
          BY <3>1, <3>2, <5>1, <5>2
        <5> QED
          BY <5>1, <5>2, <5>3
      <4> QED
        BY <4>1, <4>2, <4>3, <4>4
    <3> QED
      BY <3>2
  <2>11. \A j \in Ids : closed(w.mask[j]) /\ (w.mask[j] # {} => EXISTENCE \in w.mask[j])
    <3>1. closed({})
      BY DEF closed
    <3> QED
      BY <2>4, <3>1 DEF Sound
  <2>12. \A j \in Ids : w.mask[j] # {} => j <= w.nextId
    BY <2>4 DEF Sound
  <2>13. Sound(w)
    BY <2>3, <2>5, <2>9, <2>10, <2>11, <2>12 DEF Sound
  <2> QED
    BY <2>2, <2>13
<1> QED
  BY <1>1, <1>2

\* insertComp changes the components of the entity at most, and to a closed
\* set.
LEMMA InsertedSound ==
    ASSUME NEW m, Sound(m), NEW id, NEW c \in Comps
    PROVE  /\ Sound(inserted(m, id, c))
           /\ \/ inserted(m, id, c) = m
              \/ /\ id \in Ids /\ m.mask[id] # {}
                 /\ inserted(m, id, c) = withMask(m, id, m.mask[id] \union {c})
                 /\ closed(m.mask[id] \union {c})
<1>1. CASE ~insertable(m, id, c)
  BY <1>1 DEF inserted
<1>2. CASE insertable(m, id, c)
  <2>1. id \in Ids /\ m.mask[id] # {} /\ requiredComps(c) \subseteq m.mask[id]
    BY <1>2 DEF insertable, lives, getComponents, passesPrerequisitesForAddition
  <2> DEFINE k == m.mask[id] \union {c}
  <2>2. k \in SUBSET AllComps /\ EXISTENCE \in k
    <3>1. m.mask[id] \in compMask /\ c \in AllComps
      BY <2>1, SoundParts DEF AllComps
    <3>2. EXISTENCE \in m.mask[id]
      BY <2>1 DEF Sound
    <3> QED
      BY <3>1, <3>2 DEF compMask
  <2>3. closed(k)
    <3>1. closed(m.mask[id])
      BY <2>1 DEF Sound
    <3> QED
      BY <2>1, <3>1 DEF closed
  <2>4. inserted(m, id, c) = withMask(m, id, k)
    BY <1>2 DEF inserted, withMask, turnOnFlags
  <2>5. Sound(withMask(m, id, k))
    BY <2>1, <2>2, <2>3, MaskSound
  <2> QED
    BY <2>1, <2>3, <2>4, <2>5
<1> QED
  BY <1>1, <1>2

--------------------------------------------------------------------------
(* Reading components into an entity *)

\* What m may become when only the components of id change.
Reached(m, id) ==
    {w \in machine : Sound(w) /\
        \/ w = m
        \/ /\ id \in Ids /\ m.mask[id] # {}
           /\ \E k \in SUBSET AllComps : EXISTENCE \in k /\ closed(k) /\ w = withMask(m, id, k)}

Reading(m, id) == [m : Reached(m, id), rest : Seq(Token), ahead : SUBSET Comps, sane : BOOLEAN]

\* From one of them to the next.
LEMMA ReachedOnward ==
    ASSUME NEW m, Sound(m), NEW id, NEW w \in Reached(m, id), id \in Ids, w.mask[id] # {},
           NEW k \in SUBSET AllComps, EXISTENCE \in k, closed(k)
    PROVE  withMask(w, id, k) \in Reached(m, id)
<1>1. Sound(w)
  BY DEF Reached
<1>2. m.mask[id] # {} /\ withMask(w, id, k) = withMask(m, id, k)
  <2>1. CASE w = m
    BY <2>1
  <2>2. CASE w # m
    <3>1. PICK j \in SUBSET AllComps : /\ m.mask[id] # {} /\ EXISTENCE \in j /\ closed(j)
                                       /\ w = withMask(m, id, j)
      BY <2>2 DEF Reached
    <3>2. w = [nextId |-> m.nextId, freedIds |-> m.freedIds, mask |-> [m.mask EXCEPT ![id] = j]]
      BY <3>1, MaskSound
    <3>3. withMask(w, id, k) = [nextId |-> w.nextId, freedIds |-> w.freedIds,
                                mask |-> [w.mask EXCEPT ![id] = k]]
      BY <1>1, MaskSound
    <3>4. withMask(m, id, k) = [nextId |-> m.nextId, freedIds |-> m.freedIds,
                                mask |-> [m.mask EXCEPT ![id] = k]]
      BY <3>1, MaskSound
    <3>5. [w.mask EXCEPT ![id] = k] = [m.mask EXCEPT ![id] = k]
      BY <3>2, SoundParts
    <3> QED
      BY <3>1, <3>2, <3>3, <3>4, <3>5
  <2> QED
    BY <2>1, <2>2
<1>3. Sound(withMask(w, id, k))
  BY <1>1, MaskSound
<1>4. withMask(w, id, k) \in machine
  BY <1>3 DEF Sound
<1> QED
  BY <1>2, <1>3, <1>4 DEF Reached

\* One component is read.
LEMMA ReadOneReached ==
    ASSUME NEW m, Sound(m), NEW id, NEW r \in Reading(m, id), NEW c \in Comps
    PROVE  readOne(r, id, c) \in Reading(m, id)
<1>1. /\ r.m \in Reached(m, id) /\ r.rest \in Seq(Token) /\ r.ahead \in SUBSET Comps
      /\ r.sane \in BOOLEAN
      /\ r = [m |-> r.m, rest |-> r.rest, ahead |-> r.ahead, sane |-> r.sane]
  BY DEF Reading
<1>2. inserted(r.m, id, c) \in Reached(m, id)
  <2>1. Sound(r.m)
    BY <1>1 DEF Reached
  <2>2. CASE inserted(r.m, id, c) = r.m
    BY <1>1, <2>2
  <2>3. CASE inserted(r.m, id, c) # r.m
    <3> DEFINE k == r.m.mask[id] \union {c}
    <3>1. /\ id \in Ids /\ r.m.mask[id] # {}
          /\ inserted(r.m, id, c) = withMask(r.m, id, k) /\ closed(k)
      BY <2>1, <2>3, InsertedSound
    <3>2. k \in SUBSET AllComps /\ EXISTENCE \in k
      <4>1. r.m.mask[id] \in compMask /\ c \in AllComps
        BY <2>1, <3>1, SoundParts DEF AllComps
      <4>2. EXISTENCE \in r.m.mask[id]
        BY <2>1, <3>1 DEF Sound
      <4> QED
        BY <4>1, <4>2 DEF compMask
    <3> HIDE DEF k
    <3> QED
      BY <1>1, <3>1, <3>2, ReachedOnward
  <2> QED
    BY <2>2, <2>3
<1> DEFINE expected == IF c \in NoArgs THEN << Yes >> ELSE << Yes, Fields(c) >>
           after == SubSeq(r.rest, Len(expected) + 1, Len(r.rest))
           fits  == Len(r.rest) >= Len(expected) /\ SubSeq(r.rest, 1, Len(expected)) = expected
           twice == c \notin NoArgs /\ ~insertable(r.m, id, c) /\ after # << >>
<1>3. after \in Seq(Token)
  <2>1. Len(expected) \in Nat /\ Len(r.rest) \in Nat
    BY <1>1
  <2>2. \A i \in Len(expected) + 1 .. Len(r.rest) : i \in 1 .. Len(r.rest)
    BY <2>1
  <2> QED
    BY <1>1, <2>1, <2>2
<1>4. readOne(r, id, c) =
         IF ~r.sane THEN r
         ELSE IF r.rest # << >> /\ Head(r.rest) = No
         THEN [r EXCEPT !.rest = Tail(@), !.ahead = @ \ {c}]
         ELSE IF fits
         THEN [m |-> inserted(r.m, id, c), rest |-> after, ahead |-> r.ahead \ {c}, sane |-> ~twice]
         ELSE [r EXCEPT !.sane = FALSE]
  BY DEF readOne
<1>5. (~twice) \in BOOLEAN
  OBVIOUS
<1>6. [m |-> inserted(r.m, id, c), rest |-> after, ahead |-> r.ahead \ {c}, sane |-> ~twice]
         \in Reading(m, id)
  <2> HIDE DEF after, twice
  <2> QED
    BY <1>1, <1>2, <1>3, <1>5 DEF Reading
<1>7. r.rest # << >> => [r EXCEPT !.rest = Tail(@), !.ahead = @ \ {c}] \in Reading(m, id)
  <2> SUFFICES ASSUME r.rest # << >>
               PROVE  [r EXCEPT !.rest = Tail(@), !.ahead = @ \ {c}] \in Reading(m, id)
    OBVIOUS
  <2>0. Tail(r.rest) \in Seq(Token) /\ r.ahead \ {c} \in SUBSET Comps
    BY <1>1
  <2>1. PICK t \in Seq(Token), u \in SUBSET Comps : t = Tail(r.rest) /\ u = r.ahead \ {c}
    BY <2>0, Zenon
  <2>2. [r EXCEPT !.rest = t, !.ahead = u] \in Reading(m, id)
    BY DEF Reading
  <2> QED
    BY <2>1, <2>2
<1>8. [r EXCEPT !.sane = FALSE] \in Reading(m, id)
  BY <1>1 DEF Reading
<1> HIDE DEF expected, after, fits, twice
<1> QED
  BY <1>4, <1>6, <1>7, <1>8

serials == Len(SerialOrder)

\* The order in which components go on the wire names types, each once.
LEMMA SerialParts ==
    /\ serials \in Nat
    /\ \A i \in 1 .. serials : SerialOrder[i] \in Comps
    /\ \A i, j \in 1 .. serials : SerialOrder[i] = SerialOrder[j] => i = j
  BY SerialAssumption DEF serials

readingFrom(m, tokens) == [m |-> m, rest |-> tokens, ahead |-> Comps, sane |-> TRUE]

\* The steps in which an entity is read.
ReadBy(f, id) == \A k \in 1 .. serials : f[k] = readOne(f[k - 1], id, SerialOrder[k])

\* readAll takes them.
LEMMA ReadingExists ==
    ASSUME NEW m, Sound(m), NEW id, NEW tokens \in Seq(Token)
    PROVE  \E f \in [0 .. serials -> Reading(m, id)] :
              f[0] = readingFrom(m, tokens) /\ ReadBy(f, id) /\ readAll(m, id, tokens) = f[serials]
<1> DEFINE n == serials
           start == readingFrom(m, tokens)
           S == Reading(m, id)
           step == [k \in 1 .. n |-> [r \in S |-> readOne(r, id, SerialOrder[k])]]
           upTo[i \in 0 .. n] == IF i = 0 THEN start ELSE readOne(upTo[i - 1], id, SerialOrder[i])
<1>1. n \in Nat /\ \A k \in 1 .. n : SerialOrder[k] \in Comps
  BY SerialParts
<1>2. readAll(m, id, tokens) = upTo[n]
  BY DEF readAll, readingFrom, serials
<1>3. start \in S
  <2>1. m \in Reached(m, id)
    BY DEF Reached, Sound
  <2> QED
    BY <2>1 DEF Reading, readingFrom
<1>4. step \in [1 .. n -> [S -> S]]
  <2>1. \A k \in 1 .. n, r \in S : readOne(r, id, SerialOrder[k]) \in S
    BY <1>1, ReadOneReached
  <2> HIDE DEF n, S
  <2> QED
    BY <2>1
<1> HIDE DEF n, S, start
<1>5. PICK f \in [0 .. n -> S] : Recursion(f, n, start, step)
  <2> HIDE DEF step
  <2> QED
    BY <1>1, <1>3, <1>4, RecursionExists
<1>6. \A k \in 0 .. n : f[k] = IF k = 0 THEN start ELSE readOne(f[k - 1], id, SerialOrder[k])
  <2> TAKE k \in 0 .. n
  <2>1. f[k] = IF k = 0 THEN start ELSE step[k][f[k - 1]]
    BY <1>5 DEF Recursion
  <2>2. CASE k = 0
    BY <2>1, <2>2
  <2>3. CASE k # 0
    <3>1. k \in 1 .. n /\ f[k - 1] \in S
      BY <1>1, <1>5, <2>3
    <3> QED
      BY <2>1, <2>3, <3>1
  <2> QED
    BY <2>2, <2>3
<1>7. upTo = [k \in 0 .. n |-> IF k = 0 THEN start ELSE readOne(upTo[k - 1], id, SerialOrder[k])]
  <2>1. f = [k \in 0 .. n |-> IF k = 0 THEN start ELSE readOne(f[k - 1], id, SerialOrder[k])]
    BY <1>5, <1>6
  <2> QED
    BY <2>1 DEF upTo
<1> HIDE DEF upTo, step
<1>8. \A k \in 1 .. n : k \in 0 .. n /\ k # 0
  BY <1>1
<1>9. 0 \in 0 .. n /\ n \in 0 .. n
  BY <1>1
<1>10. f[0] = start /\ \A k \in 1 .. n : f[k] = readOne(f[k - 1], id, SerialOrder[k])
  BY <1>6, <1>8, <1>9
<1>11. upTo[0] = start /\ \A k \in 1 .. n : upTo[k] = readOne(upTo[k - 1], id, SerialOrder[k])
  <2>1. \A k \in 0 .. n : upTo[k] = IF k = 0 THEN start ELSE readOne(upTo[k - 1], id, SerialOrder[k])
    BY <1>7
  <2> QED
    BY <1>8, <1>9, <2>1
<1>12. upTo[n] = f[n]
  <2>1. GoOnAlike(upTo, f, n)
    BY <1>10, <1>11 DEF GoOnAlike
  <2>2. \A k \in 0 .. n : upTo[k] = f[k]
    BY <1>1, <2>1, AlikeUpTo
  <2> QED
    BY <1>9, <2>2
<1> QED
  BY <1>2, <1>5, <1>10, <1>12 DEF n, S, start, ReadBy

\* There is no other way.
LEMMA ReadingUnique ==
    ASSUME NEW m, Sound(m), NEW id, NEW tokens \in Seq(Token),
           NEW f, f[0] = readingFrom(m, tokens), ReadBy(f, id)
    PROVE  readAll(m, id, tokens) = f[serials]
<1>1. PICK g \in [0 .. serials -> Reading(m, id)] :
         g[0] = readingFrom(m, tokens) /\ ReadBy(g, id) /\ readAll(m, id, tokens) = g[serials]
  BY ReadingExists
<1>2. GoOnAlike(f, g, serials)
  BY <1>1 DEF ReadBy, GoOnAlike
<1>3. serials \in Nat /\ serials \in 0 .. serials
  BY SerialParts
<1>4. \A k \in 0 .. serials : f[k] = g[k]
  BY <1>2, <1>3, AlikeUpTo
<1> QED
  BY <1>1, <1>3, <1>4

\* Whatever is read, only the components of the entity change, and to a
\* closed set.
LEMMA ReadIntoReached ==
    ASSUME NEW m, Sound(m), NEW id, NEW tokens \in Seq(Token), NEW w \in readInto(m, id, tokens)
    PROVE  w \in Reached(m, id)
<1> DEFINE r == readAll(m, id, tokens)
<1>1. r \in Reading(m, id)
  <2>1. PICK f \in [0 .. serials -> Reading(m, id)] : r = f[serials]
    BY ReadingExists
  <2>2. serials \in 0 .. serials
    BY SerialParts
  <2> QED
    BY <2>1, <2>2
<1>2. w \in IF r.sane \/ ~lives(r.m, id) THEN {r.m}
            ELSE {[r.m EXCEPT !.mask[id] = @ \union extra] :
                    extra \in {x \in SUBSET r.ahead : closed(r.m.mask[id] \union x)}}
  BY DEF readInto
<1> HIDE DEF r
<1>3. r.m \in Reached(m, id) /\ r.ahead \in SUBSET Comps
  BY <1>1 DEF Reading
<1>4. CASE r.sane \/ ~lives(r.m, id)
  BY <1>2, <1>3, <1>4
<1>5. CASE ~(r.sane \/ ~lives(r.m, id))
  <2>1. PICK x \in SUBSET r.ahead : /\ closed(r.m.mask[id] \union x)
                                    /\ w = [r.m EXCEPT !.mask[id] = @ \union x]
    BY <1>2, <1>5
  <2>2. id \in Ids /\ r.m.mask[id] # {}
    BY <1>5 DEF lives, getComponents
  <2>3. Sound(r.m)
    BY <1>3 DEF Reached
  <2>4. r.m.mask[id] \union x \in SUBSET AllComps /\ EXISTENCE \in r.m.mask[id] \union x
    <3>1. r.m.mask[id] \in compMask /\ x \subseteq AllComps
      BY <1>3, <2>2, <2>3, SoundParts DEF AllComps
    <3>2. EXISTENCE \in r.m.mask[id]
      BY <2>2, <2>3 DEF Sound
    <3> QED
      BY <3>1, <3>2 DEF compMask
  <2> DEFINE k == r.m.mask[id] \union x
  <2>5. w = withMask(r.m, id, k)
    BY <2>1 DEF withMask
  <2>6. k \in SUBSET AllComps /\ EXISTENCE \in k /\ closed(k)
    BY <2>1, <2>4
  <2> HIDE DEF k
  <2> QED
    BY <1>3, <2>2, <2>5, <2>6, ReachedOnward
<1> QED
  BY <1>4, <1>5

\* A request that is fulfilled brings a whole entity, or nothing but the
\* counter when there is no id left.
LEMMA FulfilledWhole ==
    ASSUME NEW m, Sound(m), NEW tokens \in Seq(Token),
           NEW w \in readInto(created(m), newId(m), tokens)
    PROVE  /\ Sound(w)
           /\ \E k \in SUBSET Comps : closed({EXISTENCE} \union k) /\ w = withEntity(m, k)
<1> DEFINE id == newId(m)
<1>1. Sound(created(m)) /\ w \in Reached(created(m), id)
  BY CreatedSound, ReadIntoReached
<1>2. Sound(w)
  BY <1>1 DEF Reached
<1>3. CASE w = created(m)
  <2>1. {} \in SUBSET Comps /\ closed({EXISTENCE} \union {}) /\ w = withEntity(m, {})
    BY <1>3, CreatedIsEntity
  <2> QED
    BY <1>2, <2>1
<1>4. CASE w # created(m)
  <2>1. PICK j \in SUBSET AllComps : /\ id \in Ids /\ created(m).mask[id] # {}
                                     /\ EXISTENCE \in j /\ closed(j)
                                     /\ w = withMask(created(m), id, j)
    BY <1>1, <1>4 DEF Reached
  <2> DEFINE k == j \ {EXISTENCE}
  <2>2. k \in SUBSET Comps /\ {EXISTENCE} \union k = j
    BY <2>1 DEF AllComps
  <2>3. w = [nextId |-> created(m).nextId, freedIds |-> created(m).freedIds,
             mask |-> [created(m).mask EXCEPT ![id] = j]]
    BY <1>1, <2>1, MaskSound
  <2>4. [created(m).mask EXCEPT ![id] = j]
           = [i \in Ids |-> IF i = id THEN j ELSE m.mask[i]]
    BY DEF created
  <2>5. w = withEntity(m, k)
    BY <2>2, <2>3, <2>4 DEF created, withEntity
  <2> HIDE DEF k
  <2> QED
    BY <1>2, <2>1, <2>2, <2>5
<1> QED
  BY <1>3, <1>4

--------------------------------------------------------------------------
(* Writing components *)

\* The pieces that still follow the first i ones: s[0] is the whole stream.
Follows(s, piece) ==
    s[serials] = << >> /\ \A i \in 1 .. serials : s[i - 1] = piece[SerialOrder[i]] \o s[i]

\* What is written is its first piece and what follows it, and so on.
LEMMA WrittenFollows ==
    ASSUME NEW piece \in [Comps -> Seq(Token)]
    PROVE  \E s \in [0 .. serials -> Seq(Token)] :
              Follows(s, piece) /\ s[0] = inSerialOrder(piece)
<1> DEFINE n == serials
           S == Seq(Token)
           p == [i \in 1 .. n |-> piece[SerialOrder[i]]]
           fore == [i \in 1 .. n |-> [q \in S |-> q \o p[i]]]
           back == [i \in 1 .. n |-> [q \in S |-> p[n - i + 1] \o q]]
           upTo[i \in 0 .. n] == IF i = 0 THEN << >> ELSE upTo[i - 1] \o piece[SerialOrder[i]]
<1>1. n \in Nat /\ \A i \in 1 .. n : SerialOrder[i] \in Comps
  BY SerialParts
<1>2. inSerialOrder(piece) = upTo[n]
  BY DEF inSerialOrder, serials
<1>3. p \in [1 .. n -> S] /\ \A i \in 1 .. n : p[i] = piece[SerialOrder[i]]
  BY <1>1
<1>4. << >> \in S
  OBVIOUS
<1> HIDE DEF p, n, S
<1>5. \A q, r \in S : q \o r \in S
  BY DEF S
<1>6. fore \in [1 .. n -> [S -> S]] /\ back \in [1 .. n -> [S -> S]]
  <2>1. \A i \in 1 .. n : n - i + 1 \in 1 .. n
    BY <1>1
  <2>2. \A i \in 1 .. n, q \in S : q \o p[i] \in S
    BY <1>3, <1>5
  <2>3. \A i \in 1 .. n, q \in S : p[n - i + 1] \o q \in S
    BY <1>3, <1>5, <2>1
  <2> QED
    BY <2>2, <2>3
<1>7. PICK f \in [0 .. n -> S] : Recursion(f, n, << >>, fore)
  <2> HIDE DEF fore
  <2> QED
    BY <1>1, <1>4, <1>6, RecursionExists
<1>8. PICK b \in [0 .. n -> S] : Recursion(b, n, << >>, back)
  <2> HIDE DEF back
  <2> QED
    BY <1>1, <1>4, <1>6, RecursionExists
<1>9. \A i \in 1 .. n : i \in 0 .. n /\ i # 0 /\ i - 1 \in 0 .. n
  BY <1>1
<1>10. 0 \in 0 .. n /\ n \in 0 .. n
  BY <1>1
<1>11. f[0] = << >> /\ b[0] = << >>
  BY <1>7, <1>8, <1>10 DEF Recursion
<1>12. \A i \in 1 .. n : f[i] = f[i - 1] \o p[i]
  <2> TAKE i \in 1 .. n
  <2>1. f[i] = fore[i][f[i - 1]]
    BY <1>7, <1>9 DEF Recursion
  <2>2. f[i - 1] \in S
    BY <1>9
  <2> QED
    BY <2>1, <2>2
<1>13. \A i \in 1 .. n : b[i] = p[n - i + 1] \o b[i - 1]
  <2> TAKE i \in 1 .. n
  <2>1. b[i] = back[i][b[i - 1]]
    BY <1>8, <1>9 DEF Recursion
  <2>2. b[i - 1] \in S
    BY <1>9
  <2> QED
    BY <2>1, <2>2
<1> HIDE DEF fore, back
<1>14. upTo[n] = f[n]
  <2>1. f = [i \in 0 .. n |-> IF i = 0 THEN << >> ELSE f[i - 1] \o piece[SerialOrder[i]]]
    <3>1. \A i \in 0 .. n : f[i] = IF i = 0 THEN << >> ELSE f[i - 1] \o piece[SerialOrder[i]]
      <4> TAKE i \in 0 .. n
      <4>1. i # 0 => i \in 1 .. n
        BY <1>1
      <4> QED
        BY <1>3, <1>11, <1>12, <4>1
    <3> QED
      BY <3>1
  <2>2. upTo = [i \in 0 .. n |-> IF i = 0 THEN << >> ELSE upTo[i - 1] \o piece[SerialOrder[i]]]
    BY <2>1 DEF upTo
  <2> HIDE DEF upTo
  <2>3. upTo[0] = << >>
    BY <1>10, <2>2
  <2>4. \A i \in 1 .. n : upTo[i] = upTo[i - 1] \o piece[SerialOrder[i]]
    BY <1>9, <2>2
  <2>5. GoOnAlike(upTo, f, n)
    BY <1>3, <1>11, <1>12, <2>3, <2>4 DEF GoOnAlike
  <2>6. \A i \in 0 .. n : upTo[i] = f[i]
    BY <1>1, <2>5, AlikeUpTo
  <2> QED
    BY <1>10, <2>6
<1> HIDE DEF upTo
<1> DEFINE s == [i \in 0 .. n |-> b[n - i]]
<1>15. s \in [0 .. n -> S]
  <2>1. \A i \in 0 .. n : n - i \in 0 .. n
    BY <1>1
  <2> QED
    BY <2>1
<1>16. s[n] = << >> /\ \A i \in 1 .. n : s[i - 1] = p[i] \o s[i]
  <2>1. s[n] = b[0]
    BY <1>1, <1>10
  <2>2. ASSUME NEW i \in 1 .. n PROVE s[i - 1] = p[i] \o s[i]
    <3>1. PICK j \in 1 .. n : j = n - i + 1 /\ j - 1 = n - i /\ n - j + 1 = i /\ n - (i - 1) = j
      BY <1>1
    <3>2. s[i - 1] = b[j] /\ s[i] = b[j - 1]
      BY <1>9, <3>1
    <3>3. b[j] = p[i] \o b[j - 1]
      BY <1>13, <3>1
    <3> QED
      BY <3>2, <3>3
  <2> QED
    BY <1>11, <2>1, <2>2
<1> HIDE DEF s
<1>17. \A i \in 0 .. n : f[i] \o s[i] = s[0]
  <2> DEFINE both == [i \in 0 .. n |-> f[i] \o s[i]]
             whole == [i \in 0 .. n |-> s[0]]
  <2>1. both[0] = whole[0]
    <3>1. s[0] \in S
      BY <1>10, <1>15
    <3>2. << >> \o s[0] = s[0]
      BY <3>1, ConcatEmptySeq DEF S
    <3> QED
      BY <1>10, <1>11, <3>2
  <2>2. ASSUME NEW i \in 1 .. n, both[i - 1] = whole[i - 1] PROVE both[i] = whole[i]
    <3>1. f[i - 1] \o s[i - 1] = s[0]
      BY <1>9, <2>2
    <3>2. f[i] = f[i - 1] \o p[i] /\ s[i - 1] = p[i] \o s[i]
      BY <1>12, <1>16
    <3>3. PICK x \in S, y \in S, z \in S : x = f[i - 1] /\ y = p[i] /\ z = s[i]
      BY <1>3, <1>9, <1>15
    <3>4. (x \o y) \o z = x \o (y \o z)
      BY SMTT(20), ConcatAssociative DEF S
    <3>5. f[i] \o s[i] = s[0]
      BY <3>1, <3>2, <3>3, <3>4
    <3> QED
      BY <1>9, <3>5
  <2>3. GoOnAlike(both, whole, n)
    <3> HIDE DEF both, whole
    <3> QED
      BY <2>1, <2>2 DEF GoOnAlike
  <2>4. \A i \in 0 .. n : both[i] = whole[i]
    <3> HIDE DEF both, whole
    <3> QED
      BY <1>1, <2>3, AlikeUpTo
  <2> QED
    BY <2>4
<1>18. s[0] = f[n]
  <2>1. f[n] \in S /\ f[n] \o s[n] = s[0]
    BY <1>10, <1>17
  <2>2. f[n] \o << >> = f[n]
    BY <2>1, ConcatEmptySeq DEF S
  <2> QED
    BY <1>16, <2>1, <2>2
<1>19. Follows(s, piece)
  BY <1>3, <1>16 DEF Follows, n
<1> QED
  BY <1>2, <1>14, <1>15, <1>18, <1>19 DEF n, S

\* What is written is a stream of tokens.
LEMMA WrittenTokens ==
    ASSUME NEW piece \in [Comps -> Seq(Token)]
    PROVE  inSerialOrder(piece) \in Seq(Token)
<1>1. PICK s \in [0 .. serials -> Seq(Token)] : s[0] = inSerialOrder(piece)
  BY WrittenFollows
<1>2. 0 \in 0 .. serials
  BY SerialParts
<1> QED
  BY <1>1, <1>2

\* The piece of a component that an entity has, or has not.
pieceOf(mask) ==
    [c \in Comps |-> IF c \notin mask THEN << No >>
                     ELSE IF c \in NoArgs THEN << Yes >> ELSE << Yes, Fields(c) >>]

\* The piece of a type is a run of tokens.
LEMMA PieceOfTokens == ASSUME NEW mask PROVE pieceOf(mask) \in [Comps -> Seq(Token)]
<1>1. Yes \in Token /\ No \in Token /\ \A c \in Comps : Fields(c) \in Token
  BY DEF Token
<1> QED
  BY <1>1 DEF pieceOf

\* An entity is written as a stream of tokens.
LEMMA EntityTokens == ASSUME NEW mask PROVE writtenFromEntity(mask) \in Seq(Token)
<1>1. writtenFromEntity(mask) = inSerialOrder(pieceOf(mask))
  BY DEF writtenFromEntity, pieceOf
<1> QED
  BY <1>1, PieceOfTokens, WrittenTokens

\* So is a request.
LEMMA StreamsTokens ==
    ASSUME NEW ctorStreams, \A c \in Comps : ctorStreams[c] \in Seq(Token)
    PROVE  writtenFromStreams(ctorStreams) \in Seq(Token)
<1> DEFINE piece == [c \in Comps |-> IF ctorStreams[c] = << >> THEN << No >> ELSE << Yes >> \o ctorStreams[c]]
<1>1. Yes \in Token /\ No \in Token
  BY DEF Token
<1>2. << Yes >> \in Seq(Token) /\ << No >> \in Seq(Token)
  BY <1>1
<1>3. piece \in [Comps -> Seq(Token)]
  <2>1. \A c \in Comps : << Yes >> \o ctorStreams[c] \in Seq(Token)
    BY <1>2, ConcatProperties
  <2> QED
    BY <1>2, <2>1
<1>4. writtenFromStreams(ctorStreams) = inSerialOrder(piece)
  BY DEF writtenFromStreams
<1> HIDE DEF piece
<1> QED
  BY <1>3, <1>4, WrittenTokens

--------------------------------------------------------------------------
(* Reading what was written *)

\* What readAll has got to.
reading(m, rest, ahead, sane) == [m |-> m, rest |-> rest, ahead |-> ahead, sane |-> sane]
wentOn(r, rest, ahead) == [r EXCEPT !.rest = rest, !.ahead = ahead]

\* Going on sets what is left of the stream and of the types.
LEMMA WentOn ==
    ASSUME NEW a, NEW b, NEW d, NEW e, NEW t, NEW u
    PROVE  wentOn(reading(a, b, d, e), t, u) = reading(a, t, u, e)
<1>1. PICK r : r = [m |-> a, rest |-> b, ahead |-> d, sane |-> e]
  OBVIOUS
<1>2. PICK x : x = [m |-> a, rest |-> t, ahead |-> d, sane |-> e]
  OBVIOUS
<1>3. [r EXCEPT !.rest = t] = x
  BY <1>1, <1>2
<1>4. [x EXCEPT !.ahead = u] = [m |-> a, rest |-> t, ahead |-> u, sane |-> e]
  BY <1>2
<1>5. [r EXCEPT !.rest = t, !.ahead = u] = [[r EXCEPT !.rest = t] EXCEPT !.ahead = u]
  OBVIOUS
<1> QED
  BY <1>1, <1>3, <1>4, <1>5 DEF wentOn, reading

\* The fields of a reading.
LEMMA ReadingFields ==
    ASSUME NEW a, NEW b, NEW d, NEW e
    PROVE  /\ reading(a, b, d, e).m = a /\ reading(a, b, d, e).rest = b
           /\ reading(a, b, d, e).ahead = d /\ reading(a, b, d, e).sane = e
  BY DEF reading

\* The parts of what is put together.
LEMMA ConcatParts ==
    ASSUME NEW S, NEW p \in Seq(S), NEW q \in Seq(S)
    PROVE  /\ Len(p \o q) = Len(p) + Len(q) /\ p \o q \in Seq(S)
           /\ SubSeq(p \o q, 1, Len(p)) = p
           /\ SubSeq(p \o q, Len(p) + 1, Len(p \o q)) = q
           /\ p # << >> => p \o q # << >> /\ Head(p \o q) = p[1]
<1> DEFINE r == p \o q
           a == Len(p)
           b == Len(q)
<1>1. /\ a \in Nat /\ b \in Nat /\ r \in Seq(S) /\ Len(r) = a + b
      /\ \A i \in 1 .. a + b : r[i] = IF i <= a THEN p[i] ELSE q[i - a]
  BY ConcatProperties
<1>2. p # << >> => 1 \in 1 .. a
  BY EmptySeq, <1>1
<1>s. \A i \in 1 .. a + b : r[i] \in S
  <2> HIDE DEF r, a, b
  <2> QED
    BY <1>1
<1> HIDE DEF r, a, b
<1>3. SubSeq(r, 1, a) = p
  <2>1. \A i \in 1 .. a : r[i] \in S
    BY <1>1, <1>s
  <2>2. /\ SubSeq(r, 1, a) \in Seq(S)
        /\ Len(SubSeq(r, 1, a)) = IF 1 <= a THEN a - 1 + 1 ELSE 0
        /\ \A i \in 1 .. a - 1 + 1 : SubSeq(r, 1, a)[i] = r[1 + i - 1]
    BY <1>1, <2>1, SubSeqProperties
  <2>3. \A i \in 1 .. a : SubSeq(r, 1, a)[i] = p[i]
    BY <1>1, <2>2
  <2>4. Len(SubSeq(r, 1, a)) = Len(p) /\ Len(p) = a
    BY <1>1, <2>2 DEF a
  <2> QED
    BY <2>2, <2>3, <2>4, SeqEqual
<1>4. SubSeq(r, a + 1, a + b) = q
  <2>1. \A i \in a + 1 .. a + b : r[i] \in S
    BY <1>1, <1>s
  <2>2. /\ SubSeq(r, a + 1, a + b) \in Seq(S)
        /\ Len(SubSeq(r, a + 1, a + b)) = IF a + 1 <= a + b THEN a + b - (a + 1) + 1 ELSE 0
        /\ \A i \in 1 .. a + b - (a + 1) + 1 : SubSeq(r, a + 1, a + b)[i] = r[a + 1 + i - 1]
    BY <1>1, <2>1, SubSeqProperties
  <2>3. \A i \in 1 .. b : SubSeq(r, a + 1, a + b)[i] = q[i]
    <3> TAKE i \in 1 .. b
    <3>1. PICK j \in 1 .. a + b : j = a + i /\ j = a + 1 + i - 1 /\ ~(j <= a) /\ j - a = i
      BY <1>1
    <3>2. i \in 1 .. a + b - (a + 1) + 1
      BY <1>1
    <3> QED
      BY <1>1, <2>2, <3>1, <3>2
  <2>4. Len(SubSeq(r, a + 1, a + b)) = Len(q) /\ Len(q) = b
    BY <1>1, <2>2 DEF b
  <2> QED
    BY <2>2, <2>3, <2>4, SeqEqual
<1>5. p # << >> => r # << >> /\ Head(r) = p[1]
  <2> SUFFICES ASSUME p # << >> PROVE r # << >> /\ Head(r) = p[1]
    OBVIOUS
  <2>1. 1 \in 1 .. a + b /\ 1 <= a
    BY <1>1, <1>2
  <2>2. r # << >> /\ Head(r) = r[1]
    BY <1>1, <2>1
  <2> QED
    BY <1>1, <2>1, <2>2
<1> QED
  BY <1>1, <1>3, <1>4, <1>5 DEF r, a, b

\* The bits differ.
LEMMA BitsDiffer == Yes # No
<1>1. Yes.value = TRUE /\ No.value = FALSE
  BY DEF Yes, No
<1> QED
  BY <1>1

\* The piece of one component is read as it was written.
PieceRead(w, q, A, id, c, mask) ==
    readOne(reading(w, pieceOf(mask)[c] \o q, A, TRUE), id, c)
        = reading(IF c \in mask THEN inserted(w, id, c) ELSE w, q, A \ {c}, TRUE)

\* readOne takes the piece of its type off the stream, and inserts the
\* component when the piece says it is there.
LEMMA ReadOnePiece ==
    ASSUME NEW w, NEW q \in Seq(Token), NEW A, NEW id, NEW c \in Comps, NEW mask,
           c \in mask => insertable(w, id, c)
    PROVE  PieceRead(w, q, A, id, c, mask)
<1> DEFINE r == reading(w, pieceOf(mask)[c] \o q, A, TRUE)
           expected == IF c \in NoArgs THEN << Yes >> ELSE << Yes, Fields(c) >>
           after == SubSeq(r.rest, Len(expected) + 1, Len(r.rest))
           fits  == Len(r.rest) >= Len(expected) /\ SubSeq(r.rest, 1, Len(expected)) = expected
           twice == c \notin NoArgs /\ ~insertable(r.m, id, c) /\ after # << >>
<1>0. PICK b, y : b = pieceOf(mask)[c] \o q /\ y = TRUE
  OBVIOUS
<1>s. r = reading(w, b, A, y)
  BY <1>0, Zenon
<1>1. r.m = w /\ r.rest = pieceOf(mask)[c] \o q /\ r.ahead = A /\ r.sane = TRUE
  <2> HIDE DEF r
  <2>1. r.m = w /\ r.rest = b /\ r.ahead = A /\ r.sane = y
    BY <1>s, ReadingFields
  <2> QED
    BY <1>0, <2>1
<1>2. readOne(r, id, c) =
         IF ~r.sane THEN r
         ELSE IF r.rest # << >> /\ Head(r.rest) = No
         THEN wentOn(r, Tail(r.rest), r.ahead \ {c})
         ELSE IF fits
         THEN reading(inserted(r.m, id, c), after, r.ahead \ {c}, ~twice)
         ELSE [r EXCEPT !.sane = FALSE]
  BY DEF readOne, wentOn, reading
<1>r. ASSUME NEW t, NEW u PROVE wentOn(r, t, u) = reading(w, t, u, TRUE)
  <2>1. wentOn(r, t, u) = reading(w, t, u, y)
    <3> HIDE DEF r
    <3> QED
      BY <1>s, WentOn
  <2> QED
    BY <1>0, <2>1, Zenon
<1> HIDE DEF r
<1>3. Yes \in Token /\ No \in Token /\ Fields(c) \in Token
  BY DEF Token
<1>4. CASE c \notin mask
  <2>1. r.rest = << No >> \o q
    BY <1>1, <1>4 DEF pieceOf
  <2>2. r.rest # << >> /\ Head(r.rest) = No /\ Tail(r.rest) = q
    BY <1>3, <2>1
  <2> HIDE DEF expected, after, fits, twice
  <2>3. readOne(r, id, c) = wentOn(r, Tail(r.rest), r.ahead \ {c})
    BY <1>1, <1>2, <2>2
  <2>4. readOne(r, id, c) = reading(w, q, A \ {c}, TRUE)
    BY <1>1, <1>r, <2>2, <2>3
  <2> QED
    BY <1>4, <2>4 DEF r, PieceRead
<1>5. CASE c \in mask
  <2>1. r.rest = expected \o q
    BY <1>1, <1>5 DEF pieceOf
  <2>2. expected \in Seq(Token) /\ Len(expected) \in 1 .. 2 /\ expected[1] = Yes
    BY <1>3
  <2> HIDE DEF expected
  <2>3. /\ Len(r.rest) = Len(expected) + Len(q) /\ Len(q) \in Nat
        /\ SubSeq(r.rest, 1, Len(expected)) = expected
        /\ SubSeq(r.rest, Len(expected) + 1, Len(r.rest)) = q
        /\ r.rest # << >> /\ Head(r.rest) = expected[1]
    <3>1. expected # << >>
      BY <2>2
    <3> QED
      BY <2>1, <2>2, <3>1, ConcatParts
  <2>6. after = q
    BY <2>3
  <2>7. fits
    BY <2>2, <2>3
  <2>8. ~twice
    BY <1>1, <1>5
  <2> HIDE DEF after, fits, twice
  <2>9. readOne(r, id, c) = reading(inserted(r.m, id, c), after, r.ahead \ {c}, ~twice)
    BY <1>1, <1>2, <2>2, <2>3, <2>7, BitsDiffer
  <2>10. readOne(r, id, c) = reading(inserted(w, id, c), q, A \ {c}, TRUE)
    BY <1>1, <2>6, <2>8, <2>9
  <2> QED
    BY <1>5, <2>10 DEF r, PieceRead
<1> QED
  BY <1>4, <1>5

\* Every type is serialized: none is marked EZECS_NOSERIALIZE.
EveryTypeSerialized == \A c \in Comps : \E i \in 1 .. serials : SerialOrder[i] = c

\* What an entity of the components k has when the first i types are read.
gotten(k, i) == {EXISTENCE} \union {c \in k : \E j \in 1 .. i : SerialOrder[j] = c}

\* Prerequisites are on the wire before what needs them.
LEMMA OrderFits ==
    \A i \in 1 .. serials : \A d \in Prereqs[SerialOrder[i]] :
        \E j \in 1 .. i - 1 : SerialOrder[j] = d
<1>1. DOMAIN SerialOrder = 1 .. serials
  BY SerialAssumption DEF serials
<1> QED
  BY <1>1, OrderAssumption

\* Nothing but Existence at first.
LEMMA GottenFirst == ASSUME NEW k PROVE gotten(k, 0) = {EXISTENCE}
  BY DEF gotten

\* A type that is read next is new, and finds its prerequisites.
LEMMA GottenNext ==
    ASSUME NEW k \in SUBSET Comps, closed({EXISTENCE} \union k), NEW i \in 1 .. serials
    PROVE  /\ SerialOrder[i] \in Comps
           /\ SerialOrder[i] \notin gotten(k, i - 1)
           /\ SerialOrder[i] \in k => /\ gotten(k, i) = gotten(k, i - 1) \union {SerialOrder[i]}
                                      /\ requiredComps(SerialOrder[i]) \subseteq gotten(k, i - 1)
           /\ SerialOrder[i] \notin k => gotten(k, i) = gotten(k, i - 1)
<1> DEFINE c == SerialOrder[i]
<1>1. /\ c \in Comps /\ c # EXISTENCE /\ serials \in Nat
      /\ \A a, b \in 1 .. serials : SerialOrder[a] = SerialOrder[b] => a = b
  BY SerialParts, CompsAssumption
<1>2. \A j : j \in 1 .. i <=> j \in 1 .. i - 1 \/ j = i
  BY <1>1
<1>3. \A j \in 1 .. i - 1 : j \in 1 .. serials /\ j # i
  BY <1>1
<1>4. \A j \in 1 .. i - 1 : SerialOrder[j] # c
  BY <1>1, <1>3
<1>5. c \notin gotten(k, i - 1)
  BY <1>1, <1>4 DEF gotten
<1>6. gotten(k, i) = gotten(k, i - 1) \union (k \intersect {c})
  BY <1>2 DEF gotten
<1>7. c \in k => requiredComps(c) \subseteq gotten(k, i - 1)
  <2> SUFFICES ASSUME c \in k PROVE requiredComps(c) \subseteq gotten(k, i - 1)
    OBVIOUS
  <2>1. requiredComps(c) \subseteq {EXISTENCE} \union k
    BY <1>1 DEF closed
  <2>2. ASSUME NEW d \in Prereqs[c] PROVE d \in gotten(k, i - 1)
    <3>1. d \in Comps
      BY <1>1, CompsAssumption
    <3>2. d \in k
      BY <2>1, <3>1, CompsAssumption DEF requiredComps
    <3>3. \E j \in 1 .. i - 1 : SerialOrder[j] = d
      BY OrderFits
    <3> QED
      BY <3>2, <3>3 DEF gotten
  <2>3. EXISTENCE \in gotten(k, i - 1)
    BY DEF gotten
  <2> QED
    BY <2>2, <2>3 DEF requiredComps
<1> HIDE DEF c
<1> QED
  BY <1>1, <1>5, <1>6, <1>7 DEF c

\* All of them in the end.
LEMMA GottenLast ==
    ASSUME EveryTypeSerialized, NEW k \in SUBSET Comps
    PROVE  gotten(k, serials) = {EXISTENCE} \union k
  BY DEF EveryTypeSerialized, gotten

\* What the entity has is always closed.
LEMMA GottenClosed ==
    ASSUME NEW k \in SUBSET Comps, closed({EXISTENCE} \union k), NEW i \in 0 .. serials
    PROVE  /\ gotten(k, i) \in SUBSET AllComps /\ EXISTENCE \in gotten(k, i)
           /\ closed(gotten(k, i))
<1>1. gotten(k, i) \in SUBSET AllComps /\ EXISTENCE \in gotten(k, i)
  BY DEF gotten, AllComps
<1>2. ASSUME NEW c \in gotten(k, i) \intersect Comps, NEW d \in requiredComps(c)
      PROVE  d \in gotten(k, i)
  <2>1. CASE d = EXISTENCE
    BY <1>1, <2>1
  <2>2. CASE d # EXISTENCE
    <3>1. d \in Prereqs[c]
      BY <2>2 DEF requiredComps
    <3>2. c \in k
      BY CompsAssumption DEF gotten
    <3>3. PICK j \in 1 .. i : SerialOrder[j] = c
      BY CompsAssumption DEF gotten
    <3>4. j \in 1 .. serials
      BY SerialParts
    <3>5. PICK a \in 1 .. j - 1 : SerialOrder[a] = d
      BY <3>1, <3>3, <3>4, OrderFits
    <3>6. a \in 1 .. i
      BY <3>4, SerialParts
    <3>7. d \in k
      <4>1. d \in {EXISTENCE} \union k
        BY <3>2 DEF closed
      <4> QED
        BY <2>2, <4>1
    <3> QED
      BY <3>5, <3>6, <3>7 DEF gotten
  <2> QED
    BY <2>1, <2>2
<1>3. closed(gotten(k, i))
  BY <1>2 DEF closed
<1> QED
  BY <1>1, <1>3

\* An entity that is written and read again is the same entity.
LEMMA ReadBack ==
    ASSUME EveryTypeSerialized, NEW m, Sound(m), newId(m) # 0,
           NEW k \in SUBSET Comps, closed({EXISTENCE} \union k)
    PROVE  readInto(created(m), newId(m), writtenFromEntity({EXISTENCE} \union k)) = {withEntity(m, k)}
<1> DEFINE id == newId(m)
           w == created(m)
           n == serials
           mask == {EXISTENCE} \union k
           piece == pieceOf(mask)
           tokens == inSerialOrder(piece)
<1>1. id \in Ids /\ Sound(w) /\ w.mask[id] = {EXISTENCE}
  BY NewIdFree, CreatedSound
<1>2. n \in Nat
  BY SerialParts
<1>3. writtenFromEntity(mask) = tokens /\ piece \in [Comps -> Seq(Token)]
  BY PieceOfTokens DEF writtenFromEntity, pieceOf
<1> HIDE DEF piece
<1>4. PICK s \in [0 .. n -> Seq(Token)] : Follows(s, piece) /\ s[0] = tokens
  BY <1>3, WrittenFollows
<1> DEFINE ent == [i \in 0 .. n |-> withMask(w, id, gotten(k, i))]
           left == [i \in 0 .. n |-> {c \in Comps : \A j \in 1 .. i : SerialOrder[j] # c}]
           g == [i \in 0 .. n |-> reading(ent[i], s[i], left[i], TRUE)]
<1>5. \A i \in 0 .. n : /\ Sound(ent[i]) /\ ent[i].mask[id] = gotten(k, i)
                        /\ ent[i].nextId = w.nextId /\ ent[i].freedIds = w.freedIds
                        /\ ent[i].mask = [w.mask EXCEPT ![id] = gotten(k, i)]
                        /\ ent[i] = [nextId |-> w.nextId, freedIds |-> w.freedIds,
                                     mask |-> [w.mask EXCEPT ![id] = gotten(k, i)]]
  <2> TAKE i \in 0 .. n
  <2>1. /\ gotten(k, i) \in SUBSET AllComps /\ EXISTENCE \in gotten(k, i)
        /\ closed(gotten(k, i))
    BY GottenClosed
  <2>2. /\ Sound(withMask(w, id, gotten(k, i)))
        /\ withMask(w, id, gotten(k, i)) = [nextId |-> w.nextId, freedIds |-> w.freedIds,
                                     mask |-> [w.mask EXCEPT ![id] = gotten(k, i)]]
    <3> HIDE DEF w, id
    <3>1. w.mask[id] # {}
      BY <1>1
    <3> QED
      BY <1>1, <2>1, <3>1, MaskSound
  <2>3. [w.mask EXCEPT ![id] = gotten(k, i)][id] = gotten(k, i)
    <3> HIDE DEF w, id
    <3> QED
      BY <1>1, SoundParts
  <2>4. PICK x : x = withMask(w, id, gotten(k, i))
    OBVIOUS
  <2>5. ent[i] = x
    BY <2>4
  <2> HIDE DEF w, id, ent
  <2>6. /\ Sound(x) /\ x.nextId = w.nextId /\ x.freedIds = w.freedIds
        /\ x.mask = [w.mask EXCEPT ![id] = gotten(k, i)]
    BY <2>2, <2>4
  <2>7. x = [nextId |-> w.nextId, freedIds |-> w.freedIds,
             mask |-> [w.mask EXCEPT ![id] = gotten(k, i)]]
    BY <2>2, <2>4
  <2> QED
    BY <2>3, <2>5, <2>6, <2>7
<1> HIDE DEF w, id, mask, tokens
<1>6. g[0] = readingFrom(w, tokens)
  <2>1. 0 \in 0 .. n
    BY <1>2
  <2>2. ent[0] = w
    <3>1. w = [nextId |-> w.nextId, freedIds |-> w.freedIds, mask |-> w.mask]
      BY <1>1, SoundParts
    <3>2. ent[0] = [nextId |-> w.nextId, freedIds |-> w.freedIds,
                    mask |-> [w.mask EXCEPT ![id] = {EXISTENCE}]]
      BY <1>5, <2>1, GottenFirst
    <3>3. [w.mask EXCEPT ![id] = {EXISTENCE}] = w.mask
      BY <1>1, SoundParts
    <3> QED
      BY <3>1, <3>2, <3>3
  <2>3. left[0] = Comps
    BY <2>1
  <2>4. g[0] = reading(ent[0], s[0], left[0], TRUE)
    BY <2>1
  <2>5. g[0] = reading(w, tokens, Comps, TRUE)
    BY <1>4, <2>2, <2>3, <2>4
  <2> QED
    BY <2>5 DEF reading, readingFrom
<1> HIDE DEF ent
<1>7. ASSUME NEW i \in 1 .. n PROVE g[i] = readOne(g[i - 1], id, SerialOrder[i])
  <2> DEFINE c == SerialOrder[i]
  <2>1. i \in 0 .. n /\ i - 1 \in 0 .. n
    BY <1>2
  <2>2. /\ c \in Comps /\ c \notin gotten(k, i - 1)
        /\ c \in k => /\ gotten(k, i) = gotten(k, i - 1) \union {c}
                      /\ requiredComps(c) \subseteq gotten(k, i - 1)
        /\ c \notin k => gotten(k, i) = gotten(k, i - 1)
    BY GottenNext
  <2>3. c \in mask <=> c \in k
    BY <2>2, CompsAssumption DEF mask
  <2>4. s[i - 1] = piece[c] \o s[i] /\ s[i] \in Seq(Token)
    BY <1>4, <2>1 DEF Follows
  <2>5. left[i] = left[i - 1] \ {c}
    <3>1. \A j : j \in 1 .. i <=> j \in 1 .. i - 1 \/ j = i
      BY <1>2
    <3>2. /\ left[i] = {d \in Comps : \A j \in 1 .. i : SerialOrder[j] # d}
          /\ left[i - 1] = {d \in Comps : \A j \in 1 .. i - 1 : SerialOrder[j] # d}
      BY <2>1
    <3> QED
      BY <3>1, <3>2
  <2> HIDE DEF c
  <2>6. c \in mask => insertable(ent[i - 1], id, c)
    <3>1. gotten(k, i - 1) # {}
      BY DEF gotten
    <3> QED
      BY <1>1, <1>5, <2>1, <2>2, <2>3, <3>1
      DEF insertable, lives, getComponents, passesPrerequisitesForAddition
  <2>7. (IF c \in mask THEN inserted(ent[i - 1], id, c) ELSE ent[i - 1]) = ent[i]
    <3>1. CASE c \in mask
      <4>1. inserted(ent[i - 1], id, c) = withMask(ent[i - 1], id, gotten(k, i))
        BY <1>5, <2>1, <2>2, <2>3, <2>6, <3>1 DEF inserted, turnOnFlags, withMask
      <4>2. /\ gotten(k, i) \in SUBSET AllComps /\ EXISTENCE \in gotten(k, i)
            /\ closed(gotten(k, i)) /\ gotten(k, i - 1) # {}
        BY <2>1, GottenClosed
      <4>3. withMask(ent[i - 1], id, gotten(k, i))
               = [nextId |-> ent[i - 1].nextId, freedIds |-> ent[i - 1].freedIds,
                  mask |-> [ent[i - 1].mask EXCEPT ![id] = gotten(k, i)]]
        <5>1. PICK x : x = ent[i - 1]
          OBVIOUS
        <5>2. Sound(x) /\ x.mask[id] # {}
          BY <1>5, <2>1, <4>2, <5>1
        <5> QED
          BY <1>1, <4>2, <5>1, <5>2, MaskSound
      <4>4. /\ ent[i - 1].nextId = w.nextId /\ ent[i - 1].freedIds = w.freedIds
            /\ ent[i - 1].mask = [w.mask EXCEPT ![id] = gotten(k, i - 1)]
        <5> HIDE DEF g, left
        <5>1. PICK h \in 0 .. n : h = i - 1
          BY <2>1
        <5> QED
          BY <1>5, <5>1
      <4>5. [ent[i - 1].mask EXCEPT ![id] = gotten(k, i)] = [w.mask EXCEPT ![id] = gotten(k, i)]
        BY <4>4
      <4>6. ent[i] = [nextId |-> w.nextId, freedIds |-> w.freedIds,
                      mask |-> [w.mask EXCEPT ![id] = gotten(k, i)]]
        BY <1>5, <2>1
      <4> QED
        BY <3>1, <4>1, <4>3, <4>4, <4>5, <4>6
    <3>2. CASE c \notin mask
      <4>1. gotten(k, i) = gotten(k, i - 1)
        BY <2>2, <2>3, <3>2
      <4>2. /\ ent[i] = [nextId |-> w.nextId, freedIds |-> w.freedIds,
                         mask |-> [w.mask EXCEPT ![id] = gotten(k, i)]]
            /\ ent[i - 1] = [nextId |-> w.nextId, freedIds |-> w.freedIds,
                             mask |-> [w.mask EXCEPT ![id] = gotten(k, i - 1)]]
        BY <1>5, <2>1
      <4> QED
        BY <3>2, <4>1, <4>2
    <3> QED
      BY <3>1, <3>2
  <2>8. /\ g[i - 1] = reading(ent[i - 1], piece[c] \o s[i], left[i - 1], TRUE)
        /\ g[i] = reading(ent[i], s[i], left[i - 1] \ {c}, TRUE)
    <3> HIDE DEF left
    <3> QED
      BY <2>1, <2>4, <2>5
  <2> HIDE DEF g, left
  <2>9. readOne(reading(ent[i - 1], piece[c] \o s[i], left[i - 1], TRUE), id, c)
           = reading(IF c \in mask THEN inserted(ent[i - 1], id, c) ELSE ent[i - 1],
                     s[i], left[i - 1] \ {c}, TRUE)
    <3> HIDE DEF g, left
    <3>1. PICK x, q, A : x = ent[i - 1] /\ q = s[i] /\ A = left[i - 1]
      OBVIOUS
    <3>2. q \in Seq(Token) /\ (c \in mask => insertable(x, id, c))
      BY <2>4, <2>6, <3>1
    <3>3. c \in Comps
      BY <2>2
    <3>4. PieceRead(x, q, A, id, c, mask)
      BY <3>2, <3>3, ReadOnePiece
    <3> QED
      BY <3>1, <3>4 DEF piece, PieceRead
  <2> QED
    BY <2>7, <2>8, <2>9, Zenon DEF c
<1>8. g[n] = readingFrom(ent[n], << >>) \/ (g[n].m = ent[n] /\ g[n].sane)
  <2>1. n \in 0 .. n
    BY <1>2
  <2>2. g[n] = reading(ent[n], s[n], left[n], TRUE)
    BY <2>1
  <2> HIDE DEF g, left
  <2> QED
    BY <2>2 DEF reading
<1> HIDE DEF g
<1>9. readAll(w, id, tokens) = g[n]
  <2>1. ReadBy(g, id)
    BY <1>7 DEF ReadBy
  <2>2. tokens \in Seq(Token)
    BY <1>3, WrittenTokens DEF tokens
  <2> QED
    BY <1>1, <1>6, <2>1, <2>2, ReadingUnique
<1>10. readInto(w, id, tokens) = {ent[n]}
  BY <1>8, <1>9 DEF readInto, readingFrom
<1>11. ent[n] = withEntity(m, k)
  <2>1. n \in 0 .. n
    BY <1>2
  <2>2. ent[n] = [nextId |-> w.nextId, freedIds |-> w.freedIds,
                  mask |-> [w.mask EXCEPT ![id] = mask]]
    BY <1>5, <2>1, GottenLast DEF mask
  <2>3. [w.mask EXCEPT ![id] = mask] = [j \in Ids |-> IF j = id THEN mask ELSE m.mask[j]]
    BY DEF w, id, created
  <2> QED
    BY <2>2, <2>3 DEF w, id, mask, created, withEntity
<1> QED
  BY <1>3, <1>10, <1>11 DEF w, id, mask

--------------------------------------------------------------------------
(* What a message does to a State *)

\* The steps of createdUntil.
CreatedBy(f, m, id) ==
    /\ f[0] = [m |-> m, loops |-> 0]
    /\ \A i \in 1 .. 10 : f[i] = IF lives(f[i - 1].m, id) THEN f[i - 1]
                                 ELSE [m |-> created(f[i - 1].m), loops |-> i]

\* createdUntil takes them, and goes from one sound State to the next.
LEMMA CreatedUntilExists ==
    ASSUME NEW m, Sound(m), NEW id
    PROVE  \E f \in [0 .. 10 -> [m : {w \in machine : Sound(w)}, loops : 0 .. 10]] :
              CreatedBy(f, m, id) /\ createdUntil(m, id) = f[10]
<1> DEFINE S == [m : {w \in machine : Sound(w)}, loops : 0 .. 10]
           start == [m |-> m, loops |-> 0]
           next(r, i) == IF lives(r.m, id) THEN r ELSE [m |-> created(r.m), loops |-> i]
           step == [i \in 1 .. 10 |-> [r \in S |-> next(r, i)]]
           upTo[i \in 0 .. 10] ==
              IF i = 0 THEN [m |-> m, loops |-> 0]
              ELSE LET before == upTo[i - 1]
                   IN  IF lives(before.m, id) THEN before
                       ELSE [m |-> created(before.m), loops |-> i]
<1>1. createdUntil(m, id) = upTo[10]
  BY DEF createdUntil
<1>2. start \in S
  BY DEF Sound
<1>3. \A i \in 1 .. 10, r \in S : next(r, i) \in S
  <2> TAKE i \in 1 .. 10, r \in S
  <2>1. Sound(r.m)
    OBVIOUS
  <2>2. Sound(created(r.m)) /\ created(r.m) \in machine
    BY <2>1, CreatedSound DEF Sound
  <2>3. [m |-> created(r.m), loops |-> i] \in S
    BY <2>2
  <2> HIDE DEF S
  <2> QED
    BY <2>3
<1> HIDE DEF next, S, start
<1>4. step \in [1 .. 10 -> [S -> S]]
  BY <1>3
<1>5. PICK f \in [0 .. 10 -> S] : Recursion(f, 10, start, step)
  <2> HIDE DEF step
  <2>1. 10 \in Nat
    OBVIOUS
  <2> QED
    BY <1>2, <1>4, <2>1, RecursionExists
<1>6. f[0] = start
  BY <1>5 DEF Recursion
<1>7. \A i \in 1 .. 10 : f[i] = next(f[i - 1], i)
  <2> TAKE i \in 1 .. 10
  <2>1. f[i] = step[i][f[i - 1]]
    BY <1>5 DEF Recursion
  <2>2. f[i - 1] \in S
    OBVIOUS
  <2> QED
    BY <2>1, <2>2
<1>8. \A i \in 0 .. 10 : f[i] = IF i = 0 THEN start ELSE next(f[i - 1], i)
  <2> TAKE i \in 0 .. 10
  <2>1. i # 0 => i \in 1 .. 10
    OBVIOUS
  <2> QED
    BY <1>6, <1>7, <2>1
<1>9. f = [i \in 0 .. 10 |-> IF i = 0 THEN start ELSE next(f[i - 1], i)]
  BY <1>8
<1>10. upTo = [i \in 0 .. 10 |-> IF i = 0 THEN start ELSE next(upTo[i - 1], i)]
  BY <1>9 DEF upTo, start, next
<1> HIDE DEF upTo, step
<1>11. upTo[0] = start /\ \A i \in 1 .. 10 : upTo[i] = next(upTo[i - 1], i)
  <2>1. \A i \in 0 .. 10 : upTo[i] = IF i = 0 THEN start ELSE next(upTo[i - 1], i)
    BY <1>10
  <2>2. \A i \in 1 .. 10 : i \in 0 .. 10 /\ i # 0
    OBVIOUS
  <2> QED
    BY <2>1, <2>2
<1>12. GoOnAlike(upTo, f, 10)
  BY <1>6, <1>7, <1>11 DEF GoOnAlike
<1>13. upTo[10] = f[10]
  <2>1. 10 \in Nat /\ 10 \in 0 .. 10
    OBVIOUS
  <2>2. \A i \in 0 .. 10 : upTo[i] = f[i]
    BY <1>12, <2>1, AlikeUpTo
  <2> QED
    BY <2>1, <2>2
<1>14. CreatedBy(f, m, id)
  BY <1>6, <1>7 DEF CreatedBy, start, next
<1> QED
  BY <1>1, <1>5, <1>13, <1>14 DEF S

\* It ends in a sound State.
LEMMA CreatedUntilSound ==
    ASSUME NEW m, Sound(m), NEW id
    PROVE  Sound(createdUntil(m, id).m)
  BY CreatedUntilExists

\* When the id is the next one, one entity is enough.
LEMMA CreatedUntilOne ==
    ASSUME NEW m, Sound(m), newId(m) # 0
    PROVE  createdUntil(m, newId(m)) = [m |-> created(m), loops |-> 1]
<1> DEFINE id == newId(m)
           once == [m |-> created(m), loops |-> 1]
           g == [i \in 0 .. 10 |-> IF i = 0 THEN [m |-> m, loops |-> 0] ELSE once]
<1>1. id \in Ids /\ m.mask[id] = {} /\ created(m).mask[id] = {EXISTENCE}
  BY NewIdFree, CreatedSound
<1>2. ~lives(m, id) /\ lives(created(m), id)
  BY <1>1 DEF lives, getComponents
<1>3. PICK f : CreatedBy(f, m, id) /\ createdUntil(m, id) = f[10]
  BY CreatedUntilExists
<1> HIDE DEF id
<1>4. f[0] = [m |-> m, loops |-> 0]
  BY <1>3 DEF CreatedBy
<1>5. f[1] = once
  <2>1. f[1] = IF lives(f[1 - 1].m, id) THEN f[1 - 1] ELSE [m |-> created(f[1 - 1].m), loops |-> 1]
    BY <1>3 DEF CreatedBy
  <2>2. f[1 - 1] = f[0]
    OBVIOUS
  <2> QED
    BY <1>2, <1>4, <2>1, <2>2
<1>6. \A i \in 2 .. 10 : f[i - 1] = once => f[i] = once
  <2> SUFFICES ASSUME NEW i \in 2 .. 10, f[i - 1] = once PROVE f[i] = once
    OBVIOUS
  <2>1. f[i] = IF lives(f[i - 1].m, id) THEN f[i - 1] ELSE [m |-> created(f[i - 1].m), loops |-> i]
    BY <1>3 DEF CreatedBy
  <2>2. f[i - 1].m = created(m)
    OBVIOUS
  <2> QED
    BY <1>2, <2>1, <2>2
<1> HIDE DEF once
<1>7. GoOnAlike(f, g, 10)
  <2>1. f[0] = g[0]
    BY <1>4
  <2>2. \A i \in 1 .. 10 : f[i - 1] = g[i - 1] => f[i] = g[i]
    <3> SUFFICES ASSUME NEW i \in 1 .. 10, f[i - 1] = g[i - 1] PROVE f[i] = g[i]
      OBVIOUS
    <3>1. g[i] = once
      OBVIOUS
    <3>2. CASE i = 1
      BY <1>5, <3>1, <3>2
    <3>3. CASE i # 1
      <4>1. g[i - 1] = once /\ i \in 2 .. 10
        BY <3>3
      <4> QED
        BY <1>6, <3>1, <4>1
    <3> QED
      BY <3>2, <3>3
  <2> HIDE DEF g
  <2> QED
    BY <2>1, <2>2 DEF GoOnAlike
<1>8. f[10] = g[10]
  <2> HIDE DEF g
  <2>1. 10 \in Nat /\ 10 \in 0 .. 10
    OBVIOUS
  <2>2. \A i \in 0 .. 10 : f[i] = g[i]
    BY <1>7, <2>1, AlikeUpTo
  <2> QED
    BY <2>1, <2>2
<1> QED
  BY <1>3, <1>8 DEF id, once

\* A message of any kind leaves a State sound.
LEMMA ApplySound ==
    ASSUME NEW m, Sound(m), NEW msg, msg.payload \in Seq(Token), NEW w \in apply(m, msg)
    PROVE  Sound(w)
<1>1. CASE msg.op = "destroy"
  BY <1>1, DeletedSound DEF apply
<1>2. CASE msg.op # "destroy" /\ msg.id = 0
  <2>1. w \in readInto(created(m), newId(m), msg.payload)
    BY <1>2 DEF apply
  <2> QED
    BY <2>1, FulfilledWhole
<1>3. CASE msg.op # "destroy" /\ msg.id # 0
  <2>1. w \in readInto(createdUntil(m, msg.id).m, msg.id, msg.payload)
    BY <1>3 DEF apply
  <2>2. Sound(createdUntil(m, msg.id).m)
    BY CreatedUntilSound
  <2>3. w \in Reached(createdUntil(m, msg.id).m, msg.id)
    BY <2>1, <2>2, ReadIntoReached
  <2> QED
    BY <2>3 DEF Reached
<1> QED
  BY <1>1, <1>2, <1>3

\* The entity that a creation message names is the next one, and whole: what
\* the message does is known.
Creates(m, msg, k, w) ==
    /\ k \in SUBSET Comps /\ closed({EXISTENCE} \union k)
    /\ msg.payload = IF newId(m) = 0 THEN << >> ELSE writtenFromEntity({EXISTENCE} \union k)
    /\ w = withEntity(m, k)

Leads(m, msg, w) ==
    \/ msg.op = "destroy" /\ msg.id \in Ids /\ w = deleted(m, msg.id)
    \/ msg.op = "create" /\ msg.id = newId(m) /\ \E k : Creates(m, msg, k, w)

\* Nothing is read into an entity that is not there.
LEMMA ReadIntoNobody ==
    ASSUME NEW m, Sound(m), NEW tokens \in Seq(Token)
    PROVE  readInto(m, 0, tokens) = {m}
<1> DEFINE r == readAll(m, 0, tokens)
<1>1. r.m = m
  <2>1. PICK f \in [0 .. serials -> Reading(m, 0)] : r = f[serials]
    BY ReadingExists
  <2>2. serials \in 0 .. serials
    BY SerialParts
  <2>3. r.m \in Reached(m, 0)
    BY <2>1, <2>2 DEF Reading
  <2> QED
    BY <2>3, NewIdFree DEF Reached
<1>2. ~lives(r.m, 0)
  BY NewIdFree DEF lives, getComponents
<1> HIDE DEF r
<1>3. readInto(m, 0, tokens) = {r.m}
  BY <1>2 DEF readInto, r
<1> QED
  BY <1>1, <1>3

\* Whoever handles a message that leads to w gets to w, and creates one entity
\* at most.
LEMMA LeadsOn ==
    ASSUME EveryTypeSerialized, NEW m, Sound(m), NEW msg, NEW w, Leads(m, msg, w)
    PROVE  Sound(w) /\ apply(m, msg) = {w} /\ inOneLoop(m, msg)
<1>1. CASE msg.op = "destroy"
  <2>1. w = deleted(m, msg.id)
    BY <1>1 DEF Leads
  <2> QED
    BY <1>1, <2>1, DeletedSound DEF apply, inOneLoop
<1>2. CASE msg.op = "create"
  <2>1. PICK k : msg.id = newId(m) /\ Creates(m, msg, k, w)
    BY <1>2 DEF Leads
  <2>2. k \in SUBSET Comps /\ closed({EXISTENCE} \union k) /\ w = withEntity(m, k)
    BY <2>1 DEF Creates
  <2>3. Sound(w)
    BY <2>2, EntitySound
  <2>4. CASE newId(m) = 0
    <3>1. apply(m, msg) = readInto(created(m), 0, << >>)
      BY <1>2, <2>1, <2>4 DEF apply, Creates
    <3>2. Sound(created(m)) /\ << >> \in Seq(Token)
      BY CreatedSound
    <3>3. w = created(m)
      BY <2>2, <2>4, NewIdFree DEF withEntity, created
    <3>4. inOneLoop(m, msg)
      BY <2>1, <2>4 DEF inOneLoop
    <3> QED
      BY <2>3, <3>1, <3>2, <3>3, <3>4, ReadIntoNobody
  <2>5. CASE newId(m) # 0
    <3>1. createdUntil(m, msg.id) = [m |-> created(m), loops |-> 1]
      BY <2>1, <2>5, CreatedUntilOne
    <3>2. createdUntil(m, msg.id).m = created(m) /\ createdUntil(m, msg.id).loops = 1
      BY <3>1
    <3>3. apply(m, msg) = readInto(created(m), newId(m), writtenFromEntity({EXISTENCE} \union k))
      BY <1>2, <2>1, <2>5, <3>2 DEF apply, Creates
    <3>4. inOneLoop(m, msg)
      BY <3>2 DEF inOneLoop
    <3> QED
      BY <2>2, <2>3, <2>5, <3>3, <3>4, ReadBack
  <2> QED
    BY <2>4, <2>5
<1> QED
  BY <1>1, <1>2 DEF Leads

--------------------------------------------------------------------------
(* The types, and the soundness of every State *)

Message ==
    [op : {"create", "destroy"}, id : {0} \union Ids, payload : Seq(Token), asked : SUBSET Comps]
Packet == {p \in Seq(Message) : p # << >>}

Own ==
    /\ role \in [Nodes -> {"NONE", "SERVER", "CLIENT"}]
    /\ role[server] \in {"NONE", "SERVER"}
    /\ \A c \in Clients : role[c] \in {"NONE", "CLIENT"}
    /\ entityRequestOpen \in [Nodes -> BOOLEAN]
    /\ openRequestId \in [Nodes -> {0} \union Ids]
    /\ wanted \in [Nodes -> SUBSET Comps] /\ early \subseteq Nodes
    /\ compStreams \in [Nodes -> [Comps -> Seq(Token)]]
    /\ unsent \subseteq Ids /\ anomaly \subseteq Clients /\ calls \in 0 .. MaxCalls

Wire ==
    /\ stream \in [Nodes -> Seq(Message)]
    /\ toServer \in [Clients -> Seq(Packet)]
    /\ toClient \in [Clients -> Seq(Packet)]

SoundMachine == {m \in machine : Sound(m)}
Whole == ecs \in [Nodes -> SoundMachine]

TypeInv == Own /\ Wire /\ Whole

\* The messages that are made are messages.
LEMMA CreateMessage ==
    ASSUME NEW id \in {0} \union Ids, NEW tokens \in Seq(Token), NEW asked \in SUBSET Comps
    PROVE  create(id, tokens, asked) \in Message
  BY DEF create, Message

\* A deletion is a message.
LEMMA DestroyMessage ==
    ASSUME NEW id \in Ids
    PROVE  destroy(id) \in Message
  BY DEF destroy, Message

\* So is a creation request as the server sends it on.
LEMMA FulfilledMessage ==
    ASSUME NEW id \in {0} \union Ids, NEW m, NEW asked \in SUBSET Comps
    PROVE  fulfilled(id, m, asked) \in Message
<1>1. << >> \in Seq(Token) /\ writtenFromEntity(m.mask[id]) \in Seq(Token)
  BY EntityTokens
<1> QED
  BY <1>1, CreateMessage DEF fulfilled

\* A message makes a packet of its own, and lengthens a packet.
LEMMA PacketOf ==
    ASSUME NEW msg \in Message, NEW s \in Seq(Message)
    PROVE  Append(s, msg) \in Packet /\ << msg >> \in Packet
<1>1. Append(s, msg) \in Seq(Message) /\ Len(Append(s, msg)) # 0
  OBVIOUS
<1>2. << msg >> \in Seq(Message) /\ Len(<< msg >>) # 0
  OBVIOUS
<1>3. Len(<< >>) = 0
  OBVIOUS
<1> QED
  BY <1>1, <1>2, <1>3 DEF Packet

\* Sending keeps the queues in order.
LEMMA SendTyped ==
    ASSUME Wire, NEW packet \in Packet, sendToClients(packet)
    PROVE  toClient' \in [Clients -> Seq(Packet)]
<1>1. \A c \in Clients : Append(toClient[c], packet) \in Seq(Packet)
  BY DEF Wire
<1> QED
  BY <1>1 DEF sendToClients, Wire

\* What stands first in a packet is a message.
LEMMA FirstMessage ==
    ASSUME NEW q \in Seq(Packet), q # << >>
    PROVE  /\ Head(q) = q[1] /\ Head(q) \in Packet /\ Head(q)[1] \in Message
           /\ Tail(q) \in Seq(Packet)
<1>1. Head(q) \in Packet /\ Head(q) = q[1] /\ Tail(q) \in Seq(Packet)
  OBVIOUS
<1>2. \A p \in Packet : p[1] \in Message
  <2> TAKE p \in Packet
  <2>1. p \in Seq(Message) /\ p # << >>
    BY DEF Packet
  <2>2. 1 \in 1 .. Len(p)
    BY <2>1
  <2> QED
    BY <2>1, <2>2
<1> QED
  BY <1>1, <1>2

\* The State of one node changes, and stays sound.
LEMMA WholeKept ==
    ASSUME Whole, NEW n \in Nodes, NEW m, Sound(m), ecs' = [ecs EXCEPT ![n] = m]
    PROVE  Whole'
<1>1. m \in SoundMachine
  BY DEF SoundMachine, Sound
<1> QED
  BY <1>1 DEF Whole

\* The State of every program is sound, and its next id is an id or none.
LEMMA SoundAt ==
    ASSUME Whole
    PROVE  \A n \in Nodes : Sound(ecs[n]) /\ newId(ecs[n]) \in {0} \union Ids
<1>1. \A n \in Nodes : Sound(ecs[n])
  BY DEF Whole, SoundMachine
<1> QED
  BY <1>1, NewIdFree

\* The server and the clients are different programs.
LEMMA ServerIsNode == server \in Nodes /\ Clients \subseteq Nodes /\ server \notin Clients
  BY NodesAssumption DEF Nodes

\* A manual entity is an entity like another.
LEMMA ManualEntity ==
    ASSUME NEW m, Sound(m), newId(m) # 0,
           NEW mask \in {x \in SUBSET Comps : closed(x \union {EXISTENCE})}
    PROVE  /\ [created(m) EXCEPT !.mask[newId(m)] = turnOnFlags(@, mask)] = withEntity(m, mask)
           /\ mask \in SUBSET Comps /\ closed({EXISTENCE} \union mask)
           /\ Sound(withEntity(m, mask))
<1> DEFINE id == newId(m)
           w == created(m)
           k == {EXISTENCE} \union mask
<1>1. id \in Ids /\ Sound(w) /\ w.mask[id] = {EXISTENCE}
  BY NewIdFree, CreatedSound
<1>2. mask \union {EXISTENCE} = k
  OBVIOUS
<1>3. closed(k) /\ mask \in SUBSET Comps
  BY <1>2
<1>4. k \in SUBSET AllComps /\ EXISTENCE \in k
  BY <1>3 DEF AllComps
<1>5. [w EXCEPT !.mask[id] = turnOnFlags(@, mask)] = withMask(w, id, k)
  <2> HIDE DEF w, id
  <2> QED
    BY <1>1 DEF turnOnFlags, withMask
<1>6. withMask(w, id, k) = [nextId |-> w.nextId, freedIds |-> w.freedIds,
                            mask |-> [w.mask EXCEPT ![id] = k]]
  <2> HIDE DEF w, id, k
  <2>1. w.mask[id] # {}
    BY <1>1
  <2> QED
    BY <1>1, <1>3, <1>4, <2>1, MaskSound
<1>7. [w.mask EXCEPT ![id] = k] = [j \in Ids |-> IF j = id THEN k ELSE m.mask[j]]
  BY DEF created
<1>8. withMask(w, id, k) = withEntity(m, mask)
  BY <1>6, <1>7 DEF created, withEntity
<1> QED
  BY <1>3, <1>5, <1>8, EntitySound

--------------------------------------------------------------------------
\* Initially nothing was done.
LEMMA InitTyped == Init => TypeInv
<1> SUFFICES ASSUME Init PROVE TypeInv
  OBVIOUS
<1>1. emptyMachine \in SoundMachine
  BY EmptySound DEF SoundMachine, Sound
<1>2. emptyStreams \in [Comps -> Seq(Token)]
  BY DEF emptyStreams
<1>3. 0 \in 0 .. MaxCalls
  BY NodesAssumption
<1> QED
  BY <1>1, <1>2, <1>3, ServerIsNode DEF Init, TypeInv, Own, Wire, Whole

\* Every step keeps what a node has of its own.
LEMMA OwnKept == TypeInv /\ [Next]_vars => Own'
<1> SUFFICES ASSUME TypeInv, [Next]_vars PROVE Own'
  OBVIOUS
<1> USE ServerIsNode DEF TypeInv
<1>k. ASSUME counted PROVE calls' \in 0 .. MaxCalls
  BY <1>k, NodesAssumption DEF counted, Own
<1>1. CASE host
  BY <1>1 DEF host, requestVars, Own
<1>2. ASSUME NEW c \in Clients, join(c) PROVE Own'
  BY <1>2 DEF join, requestVars, Own
<1>3. ASSUME NEW c \in Clients, leave(c) PROVE Own'
  <2>1. calls' \in 0 .. MaxCalls
    BY <1>3, <1>k DEF leave
  <2> QED
    BY <1>3, <2>1 DEF leave, requestVars, Own
<1>4. ASSUME NEW n \in Nodes, openEntityRequest(n) PROVE Own'
  <2>1. calls' \in 0 .. MaxCalls
    BY <1>4, <1>k DEF openEntityRequest
  <2>2. openRequestId' \in [Nodes -> {0} \union Ids]
    BY <1>4, SoundAt DEF openEntityRequest, Own
  <2>3. compStreams' \in [Nodes -> [Comps -> Seq(Token)]]
    <3>1. emptyStreams \in [Comps -> Seq(Token)]
      BY DEF emptyStreams
    <3> QED
      BY <1>4, <3>1 DEF openEntityRequest, Own
  <2>4. /\ entityRequestOpen' \in [Nodes -> BOOLEAN] /\ wanted' \in [Nodes -> SUBSET Comps]
        /\ early' \subseteq Nodes /\ UNCHANGED << role, unsent, anomaly >>
    BY <1>4 DEF openEntityRequest, Own
  <2> QED
    BY <2>1, <2>2, <2>3, <2>4 DEF Own
<1>q. ASSUME NEW n \in Nodes, NEW c \in Comps, requested(n, c)
      PROVE  /\ compStreams' \in [Nodes -> [Comps -> Seq(Token)]]
             /\ UNCHANGED << role, entityRequestOpen, openRequestId, unsent, anomaly >>
  <2>1. ctorArgs(c) \in Seq(Token)
    <3>1. No \in Token /\ Fields(c) \in Token
      BY DEF Token
    <3> QED
      BY <3>1 DEF ctorArgs
  <2>2. compStreams[n][c] \o ctorArgs(c) \in Seq(Token)
    <3>1. compStreams[n][c] \in Seq(Token)
      BY DEF Own
    <3> QED
      BY <2>1, <3>1, ConcatProperties
  <2>3. PICK x \in Seq(Token) : x = compStreams[n][c] \o ctorArgs(c)
    BY <2>2
  <2>4. [compStreams EXCEPT ![n][c] = x] \in [Nodes -> [Comps -> Seq(Token)]]
    BY DEF Own
  <2>5. compStreams' = compStreams \/ compStreams' = [compStreams EXCEPT ![n][c] = x]
    BY <1>q, <2>3 DEF requested
  <2>6. UNCHANGED << role, entityRequestOpen, openRequestId, unsent, anomaly >>
    BY <1>q DEF requested
  <2> QED
    BY <2>4, <2>5, <2>6 DEF Own
<1>5. ASSUME NEW n \in Nodes, NEW c \in Comps, request(n, c) PROVE Own'
  <2>1. requested(n, c)
    BY <1>5 DEF request
  <2>2. wanted' \in [Nodes -> SUBSET Comps] /\ early' \subseteq Nodes
    BY <1>5 DEF request, Own
  <2>3. calls' \in 0 .. MaxCalls
    BY <1>5, <1>k DEF request, Own
  <2> QED
    BY <1>q, <2>1, <2>2, <2>3 DEF Own
<1>5u. ASSUME NEW n \in Nodes, NEW c \in Comps, requestUnopened(n, c) PROVE Own'
  <2>1. requested(n, c) /\ UNCHANGED << wanted, early >>
    BY <1>5u DEF requestUnopened
  <2>2. calls' \in 0 .. MaxCalls
    BY <1>5u, <1>k DEF requestUnopened
  <2> QED
    BY <1>q, <2>1, <2>2 DEF Own
<1>c. ASSUME NEW n \in Nodes, closes(n) PROVE Own'
  BY <1>c DEF closes, Own
<1>6. ASSUME NEW n \in Nodes, closeEntityRequestAlone(n) PROVE Own'
  BY <1>6, <1>c DEF closeEntityRequestAlone
<1>7. CASE closeEntityRequestServer
  BY <1>7, <1>c DEF closeEntityRequestServer
<1>8. ASSUME NEW n \in Clients, closeEntityRequestClient(n) PROVE Own'
  BY <1>8, <1>c DEF closeEntityRequestClient
<1>9. ASSUME NEW n \in Nodes, NEW mask, makeManualEntity(n, mask) PROVE Own'
  <2>1. calls' \in 0 .. MaxCalls
    BY <1>9, <1>k DEF makeManualEntity
  <2>2. unsent' \subseteq Ids
    <3>1. newId(ecs[n]) # 0 /\ unsent' \subseteq unsent \union {newId(ecs[n])}
      BY <1>9 DEF makeManualEntity
    <3> QED
      BY <3>1, SoundAt DEF Own
  <2>3. UNCHANGED << role, requestVars, anomaly >>
    BY <1>9 DEF makeManualEntity, nodeVars
  <2> QED
    BY <2>1, <2>2, <2>3 DEF requestVars, Own
<1>10. ASSUME NEW id \in unsent, broadcastManualEntity(id) PROVE Own'
  BY <1>10 DEF broadcastManualEntity, requestVars, Own
<1>11. ASSUME NEW n \in Nodes, NEW id \in Ids, requestEntityDeletion(n, id) PROVE Own'
  <2>1. calls' \in 0 .. MaxCalls
    BY <1>11, <1>k DEF requestEntityDeletion
  <2> QED
    BY <1>11, <2>1 DEF requestEntityDeletion, requestVars, Own
<1>12. ASSUME NEW c \in Clients, receiveRequest(c) PROVE Own'
  BY <1>12 DEF receiveRequest, nodeVars, requestVars, Own
<1>13. ASSUME NEW c \in Clients, receiveUpdate(c) PROVE Own'
  <2>1. anomaly' \subseteq Clients
    BY <1>13 DEF receiveUpdate, Own
  <2>2. UNCHANGED << role, requestVars, unsent, calls >>
    BY <1>13 DEF receiveUpdate, nodeVars
  <2> QED
    BY <2>1, <2>2 DEF requestVars, Own
<1>14. CASE UNCHANGED vars
  BY <1>14 DEF vars, nodeVars, requestVars, Own
<1> QED
  BY <1>1, <1>2, <1>3, <1>4, <1>5, <1>5u, <1>6, <1>7, <1>8, <1>9, <1>10, <1>11, <1>12, <1>13, <1>14
  DEF Next

\* Every step keeps the packets in order.
LEMMA WireKept == TypeInv /\ [Next]_vars => Wire'
<1> SUFFICES ASSUME TypeInv, [Next]_vars PROVE Wire'
  OBVIOUS
<1> USE ServerIsNode
<1>t. Own /\ Wire /\ Whole
  BY DEF TypeInv
<1>1. CASE host
  BY <1>t, <1>1 DEF host, Wire
<1>2. ASSUME NEW c \in Clients, join(c) PROVE Wire'
  BY <1>t, <1>2 DEF join, Wire
<1>3. ASSUME NEW c \in Clients, leave(c) PROVE Wire'
  <2>1. stream' = stream /\ toClient' = [toClient EXCEPT ![c] = << >>]
    BY <1>3 DEF leave
  <2>2. PICK arrived \in 0 .. Len(toServer[c]) :
           toServer' = [toServer EXCEPT ![c] = SubSeq(@, 1, arrived)]
    BY <1>3 DEF leave
  <2>3. SubSeq(toServer[c], 1, arrived) \in Seq(Packet)
    <3>1. toServer[c] \in Seq(Packet)
      BY <1>t DEF Wire
    <3> QED
      BY <3>1
  <2> QED
    BY <1>t, <2>1, <2>2, <2>3 DEF Wire
<1>4. ASSUME NEW n \in Nodes, openEntityRequest(n) PROVE Wire'
  <2>1. toServer' = toServer /\ toClient' = toClient
    BY <1>4 DEF openEntityRequest
  <2>2. stream' = stream \/ stream' = [stream EXCEPT ![n] = << >>]
    BY <1>4 DEF openEntityRequest
  <2>3. stream' \in [Nodes -> Seq(Message)]
    <3>1. << >> \in Seq(Message)
      OBVIOUS
    <3>2. [stream EXCEPT ![n] = << >>] \in [Nodes -> Seq(Message)]
      BY <1>t, <3>1 DEF Wire
    <3> QED
      BY <1>t, <2>2, <3>2 DEF Wire
  <2> QED
    BY <1>t, <2>1, <2>3 DEF Wire
<1>5. ASSUME NEW n \in Nodes, NEW c \in Comps, request(n, c) \/ requestUnopened(n, c) PROVE Wire'
  <2>1. requested(n, c)
    BY <1>5 DEF request, requestUnopened
  <2> QED
    BY <1>t, <2>1 DEF requested, Wire
<1>6. ASSUME NEW n \in Nodes, closeEntityRequestAlone(n) PROVE Wire'
  BY <1>t, <1>6 DEF closeEntityRequestAlone, Wire
<1>7. CASE closeEntityRequestServer
  <2>1. PICK packet : /\ \E m : packet = Append(stream[server], fulfilled(newId(ecs[server]), m, wanted[server]))
                      /\ stream' = [stream EXCEPT ![server] = packet]
                      /\ sendToClients(packet) /\ toServer' = toServer
    BY <1>7 DEF closeEntityRequestServer
  <2>2. packet \in Packet
    <3>1. PICK m : packet = Append(stream[server], fulfilled(newId(ecs[server]), m, wanted[server]))
      BY <2>1
    <3>2. stream[server] \in Seq(Message) /\ wanted[server] \in SUBSET Comps
      BY <1>t DEF Wire, Own
    <3>3. fulfilled(newId(ecs[server]), m, wanted[server]) \in Message
      BY <1>t, <3>2, SoundAt, FulfilledMessage
    <3> QED
      BY <3>1, <3>2, <3>3, PacketOf
  <2>3. toClient' \in [Clients -> Seq(Packet)]
    BY <1>t, <2>1, <2>2, SendTyped
  <2>4. packet \in Seq(Message)
    BY <2>2 DEF Packet
  <2> QED
    BY <1>t, <2>1, <2>3, <2>4 DEF Wire
<1>8. ASSUME NEW n \in Clients, closeEntityRequestClient(n) PROVE Wire'
  <2> DEFINE packet == Append(stream[n], create(0, writtenFromStreams(compStreams[n]), wanted[n]))
  <2>1. /\ stream' = [stream EXCEPT ![n] = packet]
        /\ toServer' = [toServer EXCEPT ![n] = Append(@, packet)]
        /\ toClient' = toClient
    BY <1>8 DEF closeEntityRequestClient
  <2>2. packet \in Packet
    <3>1. n \in Nodes
      OBVIOUS
    <3>2. stream[n] \in Seq(Message) /\ wanted[n] \in SUBSET Comps
      BY <1>t, <3>1 DEF Wire, Own
    <3>3. \A c \in Comps : compStreams[n][c] \in Seq(Token)
      BY <1>t, <3>1 DEF Own
    <3>4. writtenFromStreams(compStreams[n]) \in Seq(Token)
      BY <3>3, StreamsTokens
    <3>5. create(0, writtenFromStreams(compStreams[n]), wanted[n]) \in Message
      BY <3>2, <3>4, CreateMessage
    <3> QED
      BY <3>2, <3>5, PacketOf
  <2>3. packet \in Seq(Message)
    BY <2>2 DEF Packet
  <2> HIDE DEF packet
  <2>4. Append(toServer[n], packet) \in Seq(Packet)
    <3>1. toServer[n] \in Seq(Packet)
      BY <1>t DEF Wire
    <3> QED
      BY <2>2, <3>1
  <2> QED
    BY <1>t, <2>1, <2>3, <2>4 DEF Wire
<1>9. ASSUME NEW n \in Nodes, NEW mask, makeManualEntity(n, mask) PROVE Wire'
  BY <1>t, <1>9 DEF makeManualEntity, nodeVars, Wire
<1>10. ASSUME NEW id \in unsent, broadcastManualEntity(id) PROVE Wire'
  <2> DEFINE msg == create(id, writtenFromEntity(ecs[server].mask[id]), {})
             packet == IF lives(ecs[server], id) THEN << msg >> ELSE << >>
  <2>1. /\ stream' = [stream EXCEPT ![server] = packet]
        /\ IF packet = << >> THEN UNCHANGED toClient ELSE sendToClients(packet)
        /\ toServer' = toServer
    BY <1>10 DEF broadcastManualEntity
  <2>2. << msg >> \in Packet
    <3>1. id \in {0} \union Ids /\ {} \in SUBSET Comps
      BY <1>t DEF Own
    <3>2. msg \in Message
      BY <3>1, EntityTokens, CreateMessage
    <3>3. << >> \in Seq(Message)
      OBVIOUS
    <3> HIDE DEF msg
    <3> QED
      BY <3>2, <3>3, PacketOf
  <2>3. packet = << >> \/ packet \in Packet
    BY <2>2
  <2>4. << >> \in Seq(Message) /\ (packet \in Packet => packet \in Seq(Message) /\ packet # << >>)
    BY DEF Packet
  <2> HIDE DEF packet, msg
  <2>5. toClient' \in [Clients -> Seq(Packet)]
    <3>1. CASE packet = << >>
      BY <1>t, <2>1, <3>1 DEF Wire
    <3>2. CASE packet # << >>
      BY <1>t, <2>1, <2>3, <3>2, SendTyped
    <3> QED
      BY <3>1, <3>2
  <2>6. stream' \in [Nodes -> Seq(Message)]
    BY <1>t, <2>1, <2>3, <2>4 DEF Wire
  <2> QED
    BY <1>t, <2>1, <2>5, <2>6 DEF Wire
<1>11. ASSUME NEW n \in Nodes, NEW id \in Ids, requestEntityDeletion(n, id) PROVE Wire'
  <2>1. toServer' = toServer
    BY <1>11 DEF requestEntityDeletion
  <2>2. << destroy(id) >> \in Packet /\ << destroy(id) >> \in Seq(Message)
    <3>1. destroy(id) \in Message /\ << >> \in Seq(Message)
      BY DestroyMessage
    <3>2. << destroy(id) >> \in Packet
      BY <3>1, PacketOf
    <3> QED
      BY <3>2 DEF Packet
  <2>3. CASE alone(n)
    <3>1. stream' = stream /\ toClient' = toClient
      BY <1>11, <2>3 DEF requestEntityDeletion
    <3> QED
      BY <1>t, <2>1, <3>1 DEF Wire
  <2>4. CASE ~alone(n)
    <3>1. stream' = [stream EXCEPT ![n] = << destroy(id) >>] /\ sendToClients(<< destroy(id) >>)
      BY <1>11, <2>4 DEF requestEntityDeletion
    <3>2. toClient' \in [Clients -> Seq(Packet)]
      BY <1>t, <2>2, <3>1, SendTyped
    <3> QED
      BY <1>t, <2>1, <2>2, <3>1, <3>2 DEF Wire
  <2> QED
    BY <2>3, <2>4
<1>12. ASSUME NEW c \in Clients, receiveRequest(c) PROVE Wire'
  <2>1. toServer[c] \in Seq(Packet) /\ toServer[c] # << >>
    BY <1>t, <1>12 DEF receiveRequest, takeRequest, Wire
  <2>2. toServer' = [toServer EXCEPT ![c] = Tail(@)] /\ stream' = stream
    BY <1>12 DEF receiveRequest, takeRequest, nodeVars
  <2>3. Head(toServer[c])[1] \in Message /\ Tail(toServer[c]) \in Seq(Packet)
    BY <2>1, FirstMessage
  <2>4. PICK m : sendToClients(<< fulfilled(newId(ecs[server]), m, Head(toServer[c])[1].asked) >>)
    BY <1>12 DEF receiveRequest
  <2>5. << fulfilled(newId(ecs[server]), m, Head(toServer[c])[1].asked) >> \in Packet
    <3>1. Head(toServer[c])[1].asked \in SUBSET Comps
      BY <2>3 DEF Message
    <3>2. fulfilled(newId(ecs[server]), m, Head(toServer[c])[1].asked) \in Message
      BY <1>t, <3>1, SoundAt, FulfilledMessage
    <3>3. << >> \in Seq(Message)
      OBVIOUS
    <3> QED
      BY <3>2, <3>3, PacketOf
  <2>6. toClient' \in [Clients -> Seq(Packet)]
    BY <1>t, <2>4, <2>5, SendTyped
  <2> QED
    BY <1>t, <2>2, <2>3, <2>6 DEF Wire
<1>13. ASSUME NEW c \in Clients, receiveUpdate(c) PROVE Wire'
  <2>1. toClient[c] \in Seq(Packet) /\ toClient[c] # << >>
    BY <1>t, <1>13 DEF receiveUpdate, takeUpdate, Wire
  <2>2. /\ toClient' = [toClient EXCEPT ![c] = Tail(@)]
        /\ toServer' = toServer /\ stream' = stream
    BY <1>13 DEF receiveUpdate, takeUpdate, nodeVars
  <2>3. Tail(toClient[c]) \in Seq(Packet)
    BY <2>1, FirstMessage
  <2> QED
    BY <1>t, <2>2, <2>3 DEF Wire
<1>14. CASE UNCHANGED vars
  BY <1>t, <1>14 DEF vars, nodeVars, Wire
<1> QED
  BY <1>1, <1>2, <1>3, <1>4, <1>5, <1>6, <1>7, <1>8, <1>9, <1>10, <1>11, <1>12, <1>13, <1>14
  DEF Next

\* Every step leaves every State sound.
LEMMA WholeStep == TypeInv /\ [Next]_vars => Whole'
<1> SUFFICES ASSUME TypeInv, [Next]_vars PROVE Whole'
  OBVIOUS
<1> USE ServerIsNode
<1>t. Own /\ Wire /\ Whole /\ \A n \in Nodes : Sound(ecs[n])
  BY SoundAt DEF TypeInv
<1>u. ASSUME ecs' = ecs PROVE Whole'
  BY <1>t, <1>u DEF Whole
<1>1. CASE host
  BY <1>u, <1>1 DEF host
<1>2. ASSUME NEW c \in Clients, join(c) PROVE Whole'
  BY <1>u, <1>2 DEF join
<1>3. ASSUME NEW c \in Clients, leave(c) PROVE Whole'
  BY <1>u, <1>3 DEF leave
<1>4. ASSUME NEW n \in Nodes, openEntityRequest(n) PROVE Whole'
  <2>1. ecs' = ecs \/ ecs' = [ecs EXCEPT ![n] = created(ecs[n])]
    BY <1>4 DEF openEntityRequest
  <2>2. Sound(created(ecs[n]))
    BY <1>t, CreatedSound
  <2> QED
    BY <1>t, <1>u, <2>1, <2>2, WholeKept
<1>5. ASSUME NEW n \in Nodes, NEW c \in Comps, request(n, c) \/ requestUnopened(n, c) PROVE Whole'
  <2>1. requested(n, c)
    BY <1>5 DEF request, requestUnopened
  <2>2. ecs' = ecs \/ ecs' = [ecs EXCEPT ![n] = inserted(ecs[n], openRequestId[n], c)]
    BY <2>1 DEF requested
  <2>3. Sound(inserted(ecs[n], openRequestId[n], c))
    BY <1>t, InsertedSound
  <2> QED
    BY <1>t, <1>u, <2>2, <2>3, WholeKept
<1>6. ASSUME NEW n \in Nodes, closeEntityRequestAlone(n) PROVE Whole'
  BY <1>u, <1>6 DEF closeEntityRequestAlone
<1>7. CASE closeEntityRequestServer
  <2>1. PICK m \in readInto(created(ecs[server]), newId(ecs[server]),
                            writtenFromStreams(compStreams[server])) :
           ecs' = [ecs EXCEPT ![server] = m]
    BY <1>7 DEF closeEntityRequestServer
  <2>2. \A c \in Comps : compStreams[server][c] \in Seq(Token)
    BY <1>t DEF Own
  <2>3. writtenFromStreams(compStreams[server]) \in Seq(Token)
    BY <2>2, StreamsTokens
  <2>4. Sound(m)
    BY <1>t, <2>3, FulfilledWhole
  <2> QED
    BY <1>t, <2>1, <2>4, WholeKept
<1>8. ASSUME NEW n \in Clients, closeEntityRequestClient(n) PROVE Whole'
  BY <1>u, <1>8 DEF closeEntityRequestClient
<1>9. ASSUME NEW n \in Nodes, NEW mask \in {x \in SUBSET Comps : closed(x \union {EXISTENCE})},
             makeManualEntity(n, mask)
      PROVE  Whole'
  <2>1. /\ newId(ecs[n]) # 0
        /\ ecs' = [ecs EXCEPT ![n] = [created(ecs[n]) EXCEPT !.mask[newId(ecs[n])] = turnOnFlags(@, mask)]]
    BY <1>9 DEF makeManualEntity
  <2>2. PICK m : m = [created(ecs[n]) EXCEPT !.mask[newId(ecs[n])] = turnOnFlags(@, mask)]
    OBVIOUS
  <2>3. Sound(m)
    <3>1. Sound(ecs[n]) /\ newId(ecs[n]) # 0
      BY <1>t, <2>1
    <3>2. m = withEntity(ecs[n], mask) /\ Sound(withEntity(ecs[n], mask))
      BY <2>2, <3>1, ManualEntity
    <3> QED
      BY <3>2
  <2>4. ecs' = [ecs EXCEPT ![n] = m]
    BY <2>1, <2>2
  <2> QED
    BY <1>t, <2>3, <2>4, WholeKept
<1>10. ASSUME NEW id \in unsent, broadcastManualEntity(id) PROVE Whole'
  BY <1>u, <1>10 DEF broadcastManualEntity
<1>11. ASSUME NEW n \in Nodes, NEW id \in Ids, requestEntityDeletion(n, id) PROVE Whole'
  <2>1. ecs' = [ecs EXCEPT ![n] = deleted(ecs[n], id)]
    BY <1>11 DEF requestEntityDeletion
  <2>2. Sound(deleted(ecs[n], id))
    BY <1>t, DeletedSound
  <2> QED
    BY <1>t, <2>1, <2>2, WholeKept
<1>12. ASSUME NEW c \in Clients, receiveRequest(c) PROVE Whole'
  <2>1. toServer[c] \in Seq(Packet) /\ toServer[c] # << >>
    BY <1>t, <1>12 DEF receiveRequest, takeRequest, Wire
  <2>2. PICK m \in readInto(created(ecs[server]), newId(ecs[server]), Head(toServer[c])[1].payload) :
           ecs' = [ecs EXCEPT ![server] = m]
    BY <1>12 DEF receiveRequest
  <2>3. Head(toServer[c])[1].payload \in Seq(Token)
    BY <2>1, FirstMessage DEF Message
  <2>4. Sound(m)
    BY <1>t, <2>3, FulfilledWhole
  <2> QED
    BY <1>t, <2>2, <2>4, WholeKept
<1>13. ASSUME NEW c \in Clients, receiveUpdate(c) PROVE Whole'
  <2>1. toClient[c] \in Seq(Packet) /\ toClient[c] # << >>
    BY <1>t, <1>13 DEF receiveUpdate, takeUpdate, Wire
  <2>2. PICK m \in apply(ecs[c], Head(toClient[c])[1]) : ecs' = [ecs EXCEPT ![c] = m]
    BY <1>13 DEF receiveUpdate
  <2>3. Head(toClient[c])[1].payload \in Seq(Token)
    BY <2>1, FirstMessage DEF Message
  <2>4. Sound(m)
    BY <1>t, <2>3, ApplySound
  <2> QED
    BY <1>t, <2>2, <2>4, WholeKept
<1>14. CASE UNCHANGED vars
  BY <1>u, <1>14 DEF vars
<1> QED
  BY <1>1, <1>2, <1>3, <1>4, <1>5, <1>6, <1>7, <1>8, <1>9, <1>10, <1>11, <1>12, <1>13, <1>14
  DEF Next

\* All of it is kept.
LEMMA TypesKept == TypeInv /\ [Next]_vars => TypeInv'
  BY OwnKept, WireKept, WholeStep DEF TypeInv

\* The types and the soundness of every State hold at all times.
LEMMA AlwaysTyped == Spec => []TypeInv
  BY InitTyped, TypesKept, PTL DEF Spec

\* No entity of any program ever has a component without its prerequisites,
\* whatever the game calls, whoever joins and leaves, and whatever bits are
\* read.
THEOREM PrerequisitesEverywhere == Spec => []MasksClosed
<1>1. TypeInv => MasksClosed
  <2> SUFFICES ASSUME TypeInv PROVE MasksClosed
    OBVIOUS
  <2>1. \A n \in Nodes : Sound(ecs[n])
    BY SoundAt DEF TypeInv
  <2> QED
    BY <2>1 DEF MasksClosed, Sound
<1> QED
  BY <1>1, AlwaysTyped, PTL

\* Every variable keeps its type, whatever the game does.
THEOREM RequestTypesCorrect == Spec => []TypeOK
<1>1. TypeInv => TypeOK
  <2> SUFFICES ASSUME TypeInv PROVE TypeOK
    OBVIOUS
  <2>1. Own /\ Wire /\ Whole
    BY DEF TypeInv
  <2>2. \A n \in Nodes : /\ ecs[n].nextId \in EntityId /\ ecs[n].freedIds \in Seq(Ids)
                         /\ ecs[n].mask \in [Ids -> compMask]
    BY <2>1, SoundAt, SoundParts
  <2>3. \A n \in Nodes, c \in Comps : compStreams[n][c] \in Seq(Token)
    BY <2>1 DEF Own
  <2>4. ASSUME NEW p \in packets \union {stream[n] : n \in Nodes} PROVE p \in Seq(Message)
    <3>1. ASSUME NEW c \in Clients PROVE /\ \A i \in DOMAIN toServer[c] : toServer[c][i] \in Packet
                                         /\ \A i \in DOMAIN toClient[c] : toClient[c][i] \in Packet
      <4>1. toServer[c] \in Seq(Packet) /\ toClient[c] \in Seq(Packet)
        BY <2>1 DEF Wire
      <4>2. PICK q \in Seq(Packet), r \in Seq(Packet) : q = toServer[c] /\ r = toClient[c]
        BY <4>1
      <4>3. (\A i \in DOMAIN q : q[i] \in Packet) /\ \A i \in DOMAIN r : r[i] \in Packet
        OBVIOUS
      <4> QED
        BY <4>2, <4>3
    <3>2. \A n \in Nodes : stream[n] \in Seq(Message)
      BY <2>1 DEF Wire
    <3> QED
      BY <2>4, <3>1, <3>2 DEF packets, Packet
  <2>5. ASSUME NEW p \in packets \union {stream[n] : n \in Nodes}, NEW i \in DOMAIN p
        PROVE  /\ p[i].op \in {"create", "destroy"} /\ p[i].id \in {0} \union Ids
               /\ p[i].payload \in Seq(Token)
    <3>1. p \in Seq(Message)
      BY <2>4
    <3>2. \A q \in Seq(Message) : \A k \in DOMAIN q : q[k] \in Message
      OBVIOUS
    <3>3. p[i] \in Message
      BY <3>1, <3>2
    <3> QED
      BY <3>3 DEF Message
  <2> QED
    BY <2>1, <2>2, <2>3, <2>5 DEF TypeOK, Own
<1> QED
  BY <1>1, AlwaysTyped, PTL

--------------------------------------------------------------------------
(* The streams of a request *)

\* While a connected program has a request open, the streams hold what it
\* asked for, each component once.
StreamsOnce ==
    \A n \in Nodes, c \in Comps :
        entityRequestOpen[n] /\ ~alone(n)
            => compStreams[n][c] = IF c \in wanted[n] THEN ctorArgs(c) ELSE << >>

\* The streams are empty at first.
LEMMA InitStreams == Init => StreamsOnce
  BY DEF Init, StreamsOnce, emptyStreams

\* Steps that leave requests alone.
LEMMA StreamsFrame ==
    ASSUME TypeInv, StreamsOnce, UNCHANGED << role, wanted, compStreams >>,
           \A n \in Nodes : entityRequestOpen'[n] => entityRequestOpen[n]
    PROVE  StreamsOnce'
  BY DEF StreamsOnce, alone

\* No step spoils the streams of a request.
LEMMA StreamsKept ==
    RoleKept /\ AsksOnce /\ TypeInv /\ StreamsOnce /\ [Next]_vars => StreamsOnce'
<1> SUFFICES ASSUME RoleKept, AsksOnce, TypeInv, StreamsOnce, [Next]_vars PROVE StreamsOnce'
  OBVIOUS
<1> USE ServerIsNode
<1>t. Own
  BY DEF TypeInv
<1>r. ASSUME NEW n \in Nodes, NEW x, role' = [role EXCEPT ![n] = x], ~entityRequestOpen[n],
             UNCHANGED requestVars
      PROVE  StreamsOnce'
  <2>1. \A m \in Nodes : m # n => role'[m] = role[m]
    BY <1>t, <1>r DEF Own
  <2>2. UNCHANGED << entityRequestOpen, wanted, compStreams >>
    BY <1>r DEF requestVars
  <2> QED
    BY <1>r, <2>1, <2>2 DEF StreamsOnce, alone
<1>u. ASSUME UNCHANGED requestVars, UNCHANGED role PROVE StreamsOnce'
  BY <1>u, StreamsFrame DEF requestVars
<1>c. ASSUME NEW n \in Nodes, closes(n) PROVE StreamsOnce'
  <2>1. \A m \in Nodes : entityRequestOpen'[m] => entityRequestOpen[m]
    BY <1>t, <1>c DEF closes, Own
  <2>2. UNCHANGED << role, wanted, compStreams >>
    BY <1>c DEF closes
  <2> QED
    BY <2>1, <2>2, StreamsFrame
<1>1. CASE host
  <2>1. role' = [role EXCEPT ![server] = "SERVER"] /\ ~entityRequestOpen[server] /\ UNCHANGED requestVars
    BY <1>1 DEF host, mayChangeRole
  <2> QED
    BY <1>r, <2>1
<1>2. ASSUME NEW c \in Clients, join(c) PROVE StreamsOnce'
  <2>1. role' = [role EXCEPT ![c] = "CLIENT"] /\ ~entityRequestOpen[c] /\ UNCHANGED requestVars
    BY <1>2 DEF join, mayChangeRole
  <2> QED
    BY <1>r, <2>1
<1>3. ASSUME NEW c \in Clients, leave(c) PROVE StreamsOnce'
  <2>1. role' = [role EXCEPT ![c] = "NONE"] /\ ~entityRequestOpen[c] /\ UNCHANGED requestVars
    BY <1>3 DEF leave, mayChangeRole
  <2> QED
    BY <1>r, <2>1
<1>4. ASSUME NEW n \in Nodes, openEntityRequest(n) PROVE StreamsOnce'
  <2>1. /\ role' = role /\ wanted' = [wanted EXCEPT ![n] = {}]
        /\ entityRequestOpen' = [entityRequestOpen EXCEPT ![n] = TRUE]
        /\ IF alone(n) THEN compStreams' = compStreams
           ELSE compStreams' = [compStreams EXCEPT ![n] = emptyStreams]
    BY <1>4 DEF openEntityRequest
  <2> SUFFICES ASSUME NEW m \in Nodes, NEW c \in Comps
               PROVE  entityRequestOpen'[m] /\ ~alone(m)'
                          => compStreams'[m][c] = IF c \in wanted'[m] THEN ctorArgs(c) ELSE << >>
    BY DEF StreamsOnce
  <2>2. CASE m # n
    <3>1. /\ compStreams'[m] = compStreams[m] /\ wanted'[m] = wanted[m]
          /\ entityRequestOpen'[m] = entityRequestOpen[m] /\ role'[m] = role[m]
      BY <1>t, <2>1, <2>2 DEF Own
    <3> QED
      BY <3>1 DEF StreamsOnce, alone
  <2>3. CASE m = n /\ alone(n)
    <3>1. compStreams'[m] = compStreams[m] /\ alone(m)'
      BY <2>1, <2>3 DEF alone
    <3> QED
      BY <3>1 DEF StreamsOnce
  <2>4. CASE m = n /\ ~alone(n)
    <3>1. compStreams'[m][c] = << >> /\ wanted'[m] = {}
      BY <1>t, <2>1, <2>4 DEF Own, emptyStreams
    <3> QED
      BY <3>1
  <2> QED
    BY <2>2, <2>3, <2>4
<1>5. ASSUME NEW n \in Nodes, NEW d \in Comps, request(n, d) PROVE StreamsOnce'
  <2>1. /\ role' = role /\ wanted' = [wanted EXCEPT ![n] = @ \union {d}]
        /\ entityRequestOpen' = entityRequestOpen
        /\ entityRequestOpen[n] /\ d \notin wanted[n]
        /\ IF alone(n) THEN compStreams' = compStreams
           ELSE compStreams' = [compStreams EXCEPT ![n][d] = @ \o ctorArgs(d)]
    BY <1>5 DEF request, requested
  <2> SUFFICES ASSUME NEW m \in Nodes, NEW c \in Comps
               PROVE  entityRequestOpen'[m] /\ ~alone(m)'
                          => compStreams'[m][c] = IF c \in wanted'[m] THEN ctorArgs(c) ELSE << >>
    BY DEF StreamsOnce
  <2>2. CASE m # n
    <3>1. compStreams'[m] = compStreams[m] /\ wanted'[m] = wanted[m]
      BY <1>t, <2>1, <2>2 DEF Own
    <3> QED
      BY <2>1, <3>1 DEF StreamsOnce, alone
  <2>3. CASE m = n /\ alone(n)
    <3>1. compStreams'[m] = compStreams[m] /\ alone(m)'
      BY <2>1, <2>3 DEF alone
    <3> QED
      BY <3>1 DEF StreamsOnce
  <2>4. CASE m = n /\ ~alone(n)
    <3>1. wanted'[n] = wanted[n] \union {d} /\ compStreams[n] \in [Comps -> Seq(Token)]
      BY <1>t, <2>1 DEF Own
    <3>2. CASE c # d
      <4>1. compStreams'[n][c] = compStreams[n][c]
        BY <1>t, <2>1, <2>4, <3>1, <3>2 DEF Own
      <4> QED
        BY <2>1, <2>4, <3>1, <3>2, <4>1 DEF StreamsOnce
    <3>3. CASE c = d
      <4>1. compStreams[n][d] = << >>
        BY <2>1, <2>4 DEF StreamsOnce
      <4>2. compStreams'[n][d] = << >> \o ctorArgs(d)
        BY <1>t, <2>1, <2>4, <3>1, <4>1 DEF Own
      <4>3. << >> \o ctorArgs(d) = ctorArgs(d)
        <5>1. No \in Token /\ Fields(d) \in Token
          BY DEF Token
        <5>2. ctorArgs(d) \in Seq(Token)
          BY <5>1 DEF ctorArgs
        <5> QED
          BY <5>2, ConcatEmptySeq
      <4> QED
        BY <2>4, <3>1, <3>3, <4>2, <4>3
    <3> QED
      BY <3>2, <3>3
  <2> QED
    BY <2>2, <2>3, <2>4
<1>5u. ASSUME NEW n \in Nodes, NEW d \in Comps, requestUnopened(n, d) PROVE StreamsOnce'
  <2>1. /\ UNCHANGED << role, wanted, entityRequestOpen >> /\ ~entityRequestOpen[n]
        /\ \A m \in Nodes \ {n} : compStreams'[m] = compStreams[m]
    BY <1>t, <1>5u DEF requestUnopened, requested, Own
  <2> QED
    BY <2>1 DEF StreamsOnce, alone
<1>6. ASSUME NEW n \in Nodes, closeEntityRequestAlone(n) PROVE StreamsOnce'
  BY <1>c, <1>6 DEF closeEntityRequestAlone
<1>7. CASE closeEntityRequestServer
  BY <1>c, <1>7 DEF closeEntityRequestServer
<1>8. ASSUME NEW n \in Clients, closeEntityRequestClient(n) PROVE StreamsOnce'
  BY <1>c, <1>8 DEF closeEntityRequestClient
<1>9. ASSUME NEW n \in Nodes, NEW mask, makeManualEntity(n, mask) PROVE StreamsOnce'
  BY <1>u, <1>9 DEF makeManualEntity, nodeVars
<1>10. ASSUME NEW id \in unsent, broadcastManualEntity(id) PROVE StreamsOnce'
  BY <1>u, <1>10 DEF broadcastManualEntity
<1>11. ASSUME NEW n \in Nodes, NEW id \in Ids, requestEntityDeletion(n, id) PROVE StreamsOnce'
  BY <1>u, <1>11 DEF requestEntityDeletion
<1>12. ASSUME NEW c \in Clients, receiveRequest(c) PROVE StreamsOnce'
  BY <1>u, <1>12 DEF receiveRequest, nodeVars
<1>13. ASSUME NEW c \in Clients, receiveUpdate(c) PROVE StreamsOnce'
  BY <1>u, <1>13 DEF receiveUpdate, nodeVars
<1>14. CASE UNCHANGED vars
  BY <1>u, <1>14 DEF vars, nodeVars
<1> QED
  BY <1>1, <1>2, <1>3, <1>4, <1>5, <1>5u, <1>6, <1>7, <1>8, <1>9, <1>10, <1>11, <1>12, <1>13, <1>14
  DEF Next

--------------------------------------------------------------------------
(* A client is behind the server by the packets under way to it *)

\* The game's promises.
Promises == ManualInOrder /\ QuietWhileOpen /\ JoinsFresh /\ RoleKept

\* Handling the packets q one after the other leads from m to b.
Path(h, q) == \A i \in 1 .. Len(q) : Leads(h[i - 1], q[i][1], h[i])
Behind(m, q, b) == \E h : h[0] = m /\ h[Len(q)] = b /\ Path(h, q)

\* Behind by no packets is not behind.
LEMMA BehindNone == ASSUME NEW m, NEW b PROVE Behind(m, << >>, b) <=> m = b
<1>1. Behind(m, << >>, m)
  <2> DEFINE h == [i \in 0 .. 0 |-> m]
  <2>1. h[0] = m /\ h[Len(<< >>)] = m /\ Path(h, << >>)
    BY DEF Path
  <2> QED
    BY <2>1 DEF Behind
<1>2. ASSUME Behind(m, << >>, b) PROVE m = b
  <2>1. PICK h : h[0] = m /\ h[Len(<< >>)] = b
    BY <1>2 DEF Behind
  <2>2. Len(<< >>) = 0
    OBVIOUS
  <2> QED
    BY <2>1, <2>2
<1> QED
  BY <1>1, <1>2

\* One packet more.
LEMMA BehindSend ==
    ASSUME NEW q \in Seq(Packet), NEW m, NEW b, Behind(m, q, b),
           NEW packet \in Packet, NEW w, Leads(b, packet[1], w)
    PROVE  Behind(m, Append(q, packet), w)
<1> DEFINE n == Len(q)
           r == Append(q, packet)
<1>1. PICK h : h[0] = m /\ h[n] = b /\ Path(h, q)
  BY DEF Behind
<1> DEFINE g == [i \in 0 .. n + 1 |-> IF i = n + 1 THEN w ELSE h[i]]
<1>2. n \in Nat /\ Len(r) = n + 1 /\ r[n + 1] = packet /\ \A i \in 1 .. n : r[i] = q[i]
  OBVIOUS
<1> HIDE DEF n, r
<1>3. g[0] = m /\ g[n + 1] = w
  BY <1>1, <1>2
<1>4. ASSUME NEW i \in 1 .. n + 1 PROVE Leads(g[i - 1], r[i][1], g[i])
  <2>1. CASE i = n + 1
    <3>1. g[i - 1] = b /\ g[i] = w
      BY <1>1, <1>2, <2>1
    <3> QED
      BY <1>2, <2>1, <3>1
  <2>2. CASE i # n + 1
    <3>1. i \in 1 .. n /\ g[i - 1] = h[i - 1] /\ g[i] = h[i] /\ r[i] = q[i]
      BY <1>2, <2>2
    <3>2. Leads(h[i - 1], q[i][1], h[i])
      BY <1>1, <3>1 DEF Path, n
    <3> QED
      BY <3>1, <3>2
  <2> QED
    BY <2>1, <2>2
<1> HIDE DEF g
<1>5. Path(g, r)
  BY <1>2, <1>4 DEF Path
<1>6. Behind(m, r, w)
  BY <1>2, <1>3, <1>5 DEF Behind
<1> QED
  BY <1>6 DEF r

\* One packet less.
LEMMA BehindTake ==
    ASSUME NEW q \in Seq(Packet), q # << >>, NEW m, NEW b, Behind(m, q, b)
    PROVE  \E w : Leads(m, Head(q)[1], w) /\ Behind(w, Tail(q), b)
<1> DEFINE n == Len(q)
           r == Tail(q)
<1>1. PICK h : h[0] = m /\ h[n] = b /\ Path(h, q)
  BY DEF Behind
<1> DEFINE g == [i \in 0 .. n - 1 |-> h[i + 1]]
<1>2. n \in Nat \ {0} /\ Len(r) = n - 1 /\ Head(q) = q[1] /\ \A i \in 1 .. n - 1 : r[i] = q[i + 1]
  OBVIOUS
<1>3. Leads(m, Head(q)[1], h[1])
  <2>1. 1 \in 1 .. n /\ 1 - 1 = 0
    BY <1>2
  <2>2. Leads(h[1 - 1], q[1][1], h[1])
    BY <1>1, <2>1 DEF Path
  <2> QED
    BY <1>1, <1>2, <2>1, <2>2
<1> HIDE DEF n, r
<1>4. g[0] = h[1] /\ g[n - 1] = b
  BY <1>1, <1>2
<1>5. ASSUME NEW i \in 1 .. n - 1 PROVE Leads(g[i - 1], r[i][1], g[i])
  <2>1. PICK j \in 1 .. n : j = i + 1 /\ j - 1 = i
    BY <1>2
  <2>2. g[i - 1] = h[i] /\ g[i] = h[j] /\ r[i] = q[j]
    BY <1>2, <2>1
  <2>3. Leads(h[j - 1], q[j][1], h[j])
    BY <1>1 DEF Path, n
  <2> QED
    BY <2>1, <2>2, <2>3
<1> HIDE DEF g
<1>6. Path(g, r)
  BY <1>2, <1>5 DEF Path
<1>7. Behind(h[1], r, b)
  BY <1>2, <1>4, <1>6 DEF Behind
<1> QED
  BY <1>3, <1>7 DEF r

\* Creating an entity moves the counter, which no deletion takes back.
LEMMA EntityCounted ==
    ASSUME NEW m, Sound(m), NEW k
    PROVE  withEntity(m, k).nextId >= 1 /\ withEntity(m, k).nextId >= m.nextId
<1>1. withEntity(m, k).nextId = nextIdAfter(m.nextId, m.freedIds)
  BY DEF withEntity
<1>2. CASE m.freedIds = << >>
  BY <1>1, <1>2, SoundParts DEF nextIdAfter
<1>3. CASE m.freedIds # << >>
  <2>1. 1 \in 1 .. Len(m.freedIds) /\ m.freedIds[1] \in Ids
    BY <1>3, SoundParts
  <2>2. m.freedIds[1] <= m.nextId /\ m.freedIds[1] >= 1
    <3>1. m.freedIds[1] <= m.nextId
      BY <2>1 DEF Sound
    <3>2. m.freedIds[1] >= 1
      BY <2>1, MaxIdAssumption DEF Ids
    <3> QED
      BY <3>1, <3>2
  <2>3. nextIdAfter(m.nextId, m.freedIds) = m.nextId
    BY <1>3 DEF nextIdAfter
  <2>4. m.freedIds[1] \in Nat
    BY <2>1 DEF Ids
  <2> QED
    BY <1>1, <2>2, <2>3, <2>4, SoundParts
<1> QED
  BY <1>2, <1>3

--------------------------------------------------------------------------
(* The invariant *)

\* The server's stream is empty while a request is open on it, so that what
\* answers the request is the first message in its packet.
Quiet == \A n \in Nodes : entityRequestOpen[n] /\ ~alone(n) => stream[n] = << >>

\* Nothing is under way to a program that is alone.
Separate ==
    /\ \A c \in Clients : role[c] # "CLIENT" => toClient[c] = << >>
    /\ alone(server) => unsent = {} /\ \A c \in Clients : role[c] # "CLIENT"

\* What the clients know of the server: all but the one manual entity that
\* was not broadcast yet.
Published(b) ==
    /\ Sound(b)
    /\ unsent = {} => b = ecs[server]
    /\ unsent # {} => \E k \in SUBSET Comps :
          /\ closed({EXISTENCE} \union k) /\ newId(b) # 0
          /\ unsent = {newId(b)} /\ ecs[server] = withEntity(b, k)
Following(b) == \A c \in Clients : role[c] = "CLIENT" => Behind(ecs[c], toClient[c], b)
InStep == \E b : Published(b) /\ Following(b)

StepInv == TypeInv /\ Quiet /\ Separate /\ InStep /\ anomaly = {}

\* Where no client's entities and packets change, the clients follow as before.
LEMMA FollowingFrame ==
    ASSUME NEW b, Following(b),
           \A c \in Clients : role'[c] = "CLIENT" =>
               role[c] = "CLIENT" /\ ecs'[c] = ecs[c] /\ toClient'[c] = toClient[c]
    PROVE  Following(b)'
  BY DEF Following

\* Where nothing of the server changes either, all is as before.
LEMMA InStepFrame ==
    ASSUME InStep, unsent' = unsent, ecs'[server] = ecs[server],
           \A c \in Clients : role'[c] = "CLIENT" =>
               role[c] = "CLIENT" /\ ecs'[c] = ecs[c] /\ toClient'[c] = toClient[c]
    PROVE  InStep'
<1>1. PICK b : Published(b) /\ Following(b)
  BY DEF InStep
<1>2. Published(b)'
  BY <1>1 DEF Published
<1>3. Following(b)'
  BY <1>1, FollowingFrame
<1> QED
  BY <1>2, <1>3 DEF InStep

\* A server with no client has nobody to keep in step.
LEMMA InStepAlone ==
    ASSUME Whole', unsent' = {}, \A c \in Clients : role'[c] # "CLIENT"
    PROVE  InStep'
<1>0. PICK w : w = ecs'[server]
  OBVIOUS
<1>1. Sound(w)
  BY <1>0, ServerIsNode DEF Whole, SoundMachine
<1>2. Published(w)'
  BY <1>0, <1>1 DEF Published
<1>3. Following(w)'
  BY DEF Following
<1> QED
  BY <1>2, <1>3 DEF InStep

\* What is sent to the clients leads them to the server's next State.
LEMMA InStepSent ==
    ASSUME TypeInv, NEW b, Following(b), NEW packet \in Packet, NEW w, Leads(b, packet[1], w),
           sendToClients(packet), role' = role, \A c \in Clients : ecs'[c] = ecs[c],
           Sound(w), unsent' = {}, ecs'[server] = w
    PROVE  InStep'
<1>1. Published(w)'
  BY DEF Published
<1>2. ASSUME NEW c \in Clients, role'[c] = "CLIENT" PROVE Behind(ecs'[c], toClient'[c], w)
  <2>1. toClient[c] \in Seq(Packet) /\ Behind(ecs[c], toClient[c], b)
    BY <1>2 DEF Following, TypeInv, Wire
  <2>2. toClient'[c] = Append(toClient[c], packet) /\ ecs'[c] = ecs[c]
    BY <1>2 DEF sendToClients
  <2> QED
    BY <2>1, <2>2, BehindSend
<1>3. Following(w)'
  BY <1>2 DEF Following
<1> QED
  BY <1>1, <1>3 DEF InStep

\* A fulfilled request leads to the State the server got by fulfilling it.
LEMMA FulfilledLeads ==
    ASSUME NEW m, Sound(m), NEW tokens \in Seq(Token), NEW asked,
           NEW w \in readInto(created(m), newId(m), tokens)
    PROVE  Leads(m, fulfilled(newId(m), w, asked), w) /\ Sound(w)
<1>1. PICK k \in SUBSET Comps : closed({EXISTENCE} \union k) /\ w = withEntity(m, k)
  BY FulfilledWhole
<1>2. Sound(w)
  BY FulfilledWhole
<1> DEFINE msg == fulfilled(newId(m), w, asked)
<1>3. msg.op = "create" /\ msg.id = newId(m)
  BY DEF fulfilled, create
<1>4. msg.payload = IF newId(m) = 0 THEN << >> ELSE writtenFromEntity({EXISTENCE} \union k)
  <2>1. CASE newId(m) = 0
    BY <2>1 DEF fulfilled, create
  <2>2. CASE newId(m) # 0
    <3>1. newId(m) \in Ids
      BY <2>2, NewIdFree
    <3>2. w.mask[newId(m)] = {EXISTENCE} \union k
      BY <1>1, <3>1, EntitySound
    <3>3. msg.payload = writtenFromEntity(w.mask[newId(m)])
      BY <2>2 DEF fulfilled, create
    <3> QED
      BY <2>2, <3>2, <3>3
  <2> QED
    BY <2>1, <2>2
<1> HIDE DEF msg
<1>5. Creates(m, msg, k, w)
  BY <1>1, <1>4 DEF Creates
<1> QED
  BY <1>2, <1>3, <1>5 DEF Leads, msg

\* At first nobody has joined.
LEMMA InitInStep == Init => StepInv
<1> SUFFICES ASSUME Init PROVE StepInv
  OBVIOUS
<1>1. TypeInv
  BY InitTyped
<1>2. Quiet /\ Separate /\ anomaly = {}
  BY ServerIsNode DEF Init, Quiet, Separate, alone
<1>3. InStep
  <2>1. Sound(ecs[server]) /\ unsent = {}
    BY EmptySound, ServerIsNode DEF Init
  <2>2. Published(ecs[server])
    BY <2>1 DEF Published
  <2>3. Following(ecs[server])
    BY ServerIsNode DEF Init, Following
  <2> QED
    BY <2>2, <2>3 DEF InStep
<1> QED
  BY <1>1, <1>2, <1>3 DEF StepInv

\* The stream of a request stays empty until it is closed.
LEMMA QuietKept == Promises /\ TypeInv /\ Quiet /\ [Next]_vars => Quiet'
<1> SUFFICES ASSUME Promises, TypeInv, Quiet, [Next]_vars PROVE Quiet'
  OBVIOUS
<1> USE ServerIsNode
<1>t. Own /\ Wire /\ RoleKept /\ QuietWhileOpen
  BY DEF TypeInv, Promises
<1>r. ASSUME NEW n \in Nodes, NEW x, role' = [role EXCEPT ![n] = x], ~entityRequestOpen[n],
             UNCHANGED << requestVars, stream >>
      PROVE  Quiet'
  <2>1. \A m \in Nodes : m # n => role'[m] = role[m]
    BY <1>t, <1>r DEF Own
  <2>2. entityRequestOpen' = entityRequestOpen /\ stream' = stream
    BY <1>r DEF requestVars
  <2> QED
    BY <1>r, <2>1, <2>2 DEF Quiet, alone
<1>u. ASSUME UNCHANGED << entityRequestOpen, role, stream >> PROVE Quiet'
  BY <1>u DEF Quiet, alone
\* The stream of a program changes while no request is open on it.
<1>s. ASSUME NEW n \in Nodes, NEW x, role' = role, stream' = [stream EXCEPT ![n] = x],
             \A m \in Nodes : entityRequestOpen'[m] => entityRequestOpen[m] /\ m # n
      PROVE  Quiet'
  <2>1. \A m \in Nodes : m # n => stream'[m] = stream[m]
    BY <1>t, <1>s DEF Wire
  <2> QED
    BY <1>s, <2>1 DEF Quiet, alone
<1>c. ASSUME NEW n \in Nodes, closes(n)
      PROVE  role' = role /\ \A m \in Nodes : entityRequestOpen'[m] => entityRequestOpen[m] /\ m # n
  BY <1>t, <1>c DEF closes, Own
<1>1. CASE host
  <2>1. /\ role' = [role EXCEPT ![server] = "SERVER"] /\ ~entityRequestOpen[server]
        /\ UNCHANGED << requestVars, stream >>
    BY <1>t, <1>1 DEF host, mayChangeRole
  <2> QED
    BY <1>r, <2>1
<1>2. ASSUME NEW c \in Clients, join(c) PROVE Quiet'
  <2>1. /\ role' = [role EXCEPT ![c] = "CLIENT"] /\ ~entityRequestOpen[c]
        /\ UNCHANGED << requestVars, stream >>
    BY <1>t, <1>2 DEF join, mayChangeRole
  <2> QED
    BY <1>r, <2>1
<1>3. ASSUME NEW c \in Clients, leave(c) PROVE Quiet'
  <2>1. /\ role' = [role EXCEPT ![c] = "NONE"] /\ ~entityRequestOpen[c]
        /\ UNCHANGED << requestVars, stream >>
    BY <1>t, <1>3 DEF leave, mayChangeRole
  <2> QED
    BY <1>r, <2>1
<1>4. ASSUME NEW n \in Nodes, openEntityRequest(n) PROVE Quiet'
  <2>1. /\ role' = role /\ entityRequestOpen' = [entityRequestOpen EXCEPT ![n] = TRUE]
        /\ IF alone(n) THEN stream' = stream ELSE stream' = [stream EXCEPT ![n] = << >>]
    BY <1>4 DEF openEntityRequest
  <2> SUFFICES ASSUME NEW m \in Nodes, entityRequestOpen'[m], ~alone(m)'
               PROVE  stream'[m] = << >>
    BY DEF Quiet
  <2>2. CASE m = n
    BY <1>t, <2>1, <2>2 DEF Wire, alone
  <2>3. CASE m # n
    <3>1. entityRequestOpen[m] /\ ~alone(m) /\ stream'[m] = stream[m]
      BY <1>t, <2>1, <2>3 DEF Own, Wire, alone
    <3> QED
      BY <3>1 DEF Quiet
  <2> QED
    BY <2>2, <2>3
<1>5. ASSUME NEW n \in Nodes, NEW d \in Comps, request(n, d) \/ requestUnopened(n, d) PROVE Quiet'
  BY <1>u, <1>5 DEF request, requestUnopened, requested
<1>6. ASSUME NEW n \in Nodes, closeEntityRequestAlone(n) PROVE Quiet'
  <2>1. stream' = stream /\ closes(n)
    BY <1>6 DEF closeEntityRequestAlone
  <2> QED
    BY <1>c, <2>1 DEF Quiet, alone
<1>7. CASE closeEntityRequestServer
  <2>1. closes(server) /\ \E x : stream' = [stream EXCEPT ![server] = x]
    BY <1>7 DEF closeEntityRequestServer
  <2> QED
    BY <1>c, <1>s, <2>1
<1>8. ASSUME NEW n \in Clients, closeEntityRequestClient(n) PROVE Quiet'
  <2>1. closes(n) /\ \E x : stream' = [stream EXCEPT ![n] = x]
    BY <1>8 DEF closeEntityRequestClient
  <2> QED
    BY <1>c, <1>s, <2>1
<1>9. ASSUME NEW n \in Nodes, NEW mask, makeManualEntity(n, mask) PROVE Quiet'
  BY <1>u, <1>9 DEF makeManualEntity, nodeVars, requestVars
<1>10. ASSUME NEW id \in unsent, broadcastManualEntity(id) PROVE Quiet'
  <2>1. /\ ~entityRequestOpen[server] /\ role' = role /\ entityRequestOpen' = entityRequestOpen
        /\ \E x : stream' = [stream EXCEPT ![server] = x]
    BY <1>t, <1>10 DEF broadcastManualEntity, maySend, requestVars
  <2> QED
    BY <1>s, <2>1
<1>11. ASSUME NEW n \in Nodes, NEW id \in Ids, requestEntityDeletion(n, id) PROVE Quiet'
  <2>1. /\ ~entityRequestOpen[n] /\ role' = role /\ entityRequestOpen' = entityRequestOpen
        /\ stream' = stream \/ \E x : stream' = [stream EXCEPT ![n] = x]
    BY <1>t, <1>11 DEF requestEntityDeletion, maySend, requestVars
  <2> QED
    BY <1>s, <1>u, <2>1
<1>12. ASSUME NEW c \in Clients, receiveRequest(c) PROVE Quiet'
  BY <1>u, <1>12 DEF receiveRequest, nodeVars, requestVars
<1>13. ASSUME NEW c \in Clients, receiveUpdate(c) PROVE Quiet'
  BY <1>u, <1>13 DEF receiveUpdate, nodeVars, requestVars
<1>14. CASE UNCHANGED vars
  BY <1>u, <1>14 DEF vars, nodeVars, requestVars
<1> QED
  BY <1>1, <1>2, <1>3, <1>4, <1>5, <1>6, <1>7, <1>8, <1>9, <1>10, <1>11, <1>12, <1>13, <1>14
  DEF Next

\* What is sent goes to the clients that are connected only.
LEMMA SentToClients ==
    ASSUME TypeInv, Separate, NEW packet, sendToClients(packet), role' = role
    PROVE  \A c \in Clients : role'[c] # "CLIENT" => toClient'[c] = << >>
  BY DEF sendToClients, Separate

\* A program that is alone gets nothing, and a server that was never hosted
\* has neither clients nor anything to broadcast.
LEMMA SeparateKept == TypeInv /\ Separate /\ [Next]_vars => Separate'
<1> SUFFICES ASSUME TypeInv, Separate, [Next]_vars PROVE Separate'
  OBVIOUS
<1> USE ServerIsNode
<1>t. Own /\ Wire
  BY DEF TypeInv
<1>u. ASSUME UNCHANGED << role, toClient, unsent >> PROVE Separate'
  BY <1>u DEF Separate, alone
<1>v. ASSUME role' = role, unsent' \subseteq unsent,
             toClient' = toClient \/ \E packet : sendToClients(packet)
      PROVE  Separate'
  <2>1. \A c \in Clients : role'[c] # "CLIENT" => toClient'[c] = << >>
    BY <1>v, SentToClients DEF Separate
  <2> QED
    BY <1>v, <2>1 DEF Separate, alone
<1>1. CASE host
  <2>1. role' = [role EXCEPT ![server] = "SERVER"] /\ toClient' = toClient /\ unsent' = unsent
    BY <1>1 DEF host
  <2>2. role'[server] = "SERVER" /\ \A c \in Clients : role'[c] = role[c]
    BY <1>t, <2>1 DEF Own
  <2> QED
    BY <2>1, <2>2 DEF Separate, alone
<1>2. ASSUME NEW c \in Clients, join(c) PROVE Separate'
  <2>1. /\ role' = [role EXCEPT ![c] = "CLIENT"] /\ toClient' = toClient /\ unsent' = unsent
        /\ role[server] = "SERVER"
    BY <1>2 DEF join
  <2>2. role'[server] = "SERVER" /\ \A d \in Clients : d # c => role'[d] = role[d]
    BY <1>t, <2>1 DEF Own
  <2>3. role'[c] = "CLIENT"
    BY <1>t, <2>1 DEF Own
  <2> QED
    BY <2>1, <2>2, <2>3 DEF Separate, alone
<1>3. ASSUME NEW c \in Clients, leave(c) PROVE Separate'
  <2>1. /\ role' = [role EXCEPT ![c] = "NONE"] /\ toClient' = [toClient EXCEPT ![c] = << >>]
        /\ unsent' = unsent /\ role[c] = "CLIENT"
    BY <1>3 DEF leave
  <2>2. role'[server] = role[server] /\ \A d \in Clients : d # c => role'[d] = role[d]
    BY <1>t, <2>1 DEF Own
  <2>3. toClient'[c] = << >> /\ \A d \in Clients : d # c => toClient'[d] = toClient[d]
    BY <1>t, <2>1 DEF Wire
  <2> QED
    BY <2>1, <2>2, <2>3 DEF Separate, alone
<1>4. ASSUME NEW n \in Nodes, openEntityRequest(n) PROVE Separate'
  BY <1>u, <1>4 DEF openEntityRequest
<1>5. ASSUME NEW n \in Nodes, NEW d \in Comps, request(n, d) \/ requestUnopened(n, d) PROVE Separate'
  BY <1>u, <1>5 DEF request, requestUnopened, requested
<1>6. ASSUME NEW n \in Nodes, closeEntityRequestAlone(n) PROVE Separate'
  BY <1>u, <1>6 DEF closeEntityRequestAlone, closes
<1>7. CASE closeEntityRequestServer
  <2>1. role' = role /\ unsent' = unsent /\ \E packet : sendToClients(packet)
    BY <1>7 DEF closeEntityRequestServer, closes
  <2> QED
    BY <1>v, <2>1
<1>8. ASSUME NEW n \in Clients, closeEntityRequestClient(n) PROVE Separate'
  BY <1>u, <1>8 DEF closeEntityRequestClient, closes
<1>9. ASSUME NEW n \in Nodes, NEW mask, makeManualEntity(n, mask) PROVE Separate'
  <2>1. /\ role' = role /\ toClient' = toClient /\ role[n] # "CLIENT"
        /\ unsent' = IF alone(n) THEN unsent ELSE unsent \union {newId(ecs[n])}
    BY <1>9 DEF makeManualEntity, nodeVars
  <2>2. alone(server) => unsent' = unsent
    <3>1. n = server \/ n \in Clients
      BY DEF Nodes
    <3> QED
      BY <1>t, <2>1, <3>1 DEF Own, alone
  <2> QED
    BY <2>1, <2>2 DEF Separate, alone
<1>10. ASSUME NEW id \in unsent, broadcastManualEntity(id) PROVE Separate'
  <2>1. /\ role' = role /\ unsent' \subseteq unsent
        /\ toClient' = toClient \/ \E packet : sendToClients(packet)
    BY <1>10 DEF broadcastManualEntity
  <2> QED
    BY <1>v, <2>1
<1>11. ASSUME NEW n \in Nodes, NEW id \in Ids, requestEntityDeletion(n, id) PROVE Separate'
  <2>1. /\ role' = role /\ unsent' = unsent
        /\ toClient' = toClient \/ \E packet : sendToClients(packet)
    BY <1>11 DEF requestEntityDeletion
  <2> QED
    BY <1>v, <2>1
<1>12. ASSUME NEW c \in Clients, receiveRequest(c) PROVE Separate'
  <2>1. /\ role' = role /\ unsent' = unsent /\ \E packet : sendToClients(packet)
    BY <1>12 DEF receiveRequest, nodeVars
  <2> QED
    BY <1>v, <2>1
<1>13. ASSUME NEW c \in Clients, receiveUpdate(c) PROVE Separate'
  <2>1. /\ role' = role /\ unsent' = unsent /\ toClient[c] # << >>
        /\ toClient' = [toClient EXCEPT ![c] = Tail(@)]
    BY <1>13 DEF receiveUpdate, takeUpdate, nodeVars
  <2>2. role[c] = "CLIENT" /\ \A d \in Clients : d # c => toClient'[d] = toClient[d]
    BY <1>t, <2>1 DEF Wire, Separate
  <2> QED
    BY <2>1, <2>2 DEF Separate, alone
<1>14. CASE UNCHANGED vars
  BY <1>u, <1>14 DEF vars, nodeVars
<1> QED
  BY <1>1, <1>2, <1>3, <1>4, <1>5, <1>6, <1>7, <1>8, <1>9, <1>10, <1>11, <1>12, <1>13, <1>14
  DEF Next

\* A change of one node's State leaves the others alone.
LEMMA OthersKept ==
    ASSUME Whole, NEW n \in Nodes, NEW m, ecs' = [ecs EXCEPT ![n] = m]
    PROVE  ecs'[n] = m /\ \A d \in Nodes : d # n => ecs'[d] = ecs[d]
  BY DEF Whole

\* A node that is alone changes its State as it likes.
LEMMA AloneInStep ==
    ASSUME TypeInv, Separate, InStep, Whole', NEW n \in Nodes, alone(n), NEW m,
           ecs' = [ecs EXCEPT ![n] = m], UNCHANGED << role, toClient, unsent >>
    PROVE  InStep'
<1> USE ServerIsNode
<1>1. ecs'[n] = m /\ \A d \in Nodes : d # n => ecs'[d] = ecs[d]
  BY OthersKept DEF TypeInv
<1>2. CASE n = server
  <2>1. unsent' = {} /\ \A c \in Clients : role'[c] # "CLIENT"
    BY <1>2 DEF Separate
  <2> QED
    BY <2>1, InStepAlone
<1>3. CASE n # server
  <2>1. ecs'[server] = ecs[server]
    BY <1>1, <1>3
  <2>2. \A c \in Clients : role'[c] = "CLIENT" =>
           role[c] = "CLIENT" /\ ecs'[c] = ecs[c] /\ toClient'[c] = toClient[c]
    BY <1>1 DEF alone
  <2> QED
    BY <2>1, <2>2, InStepFrame
<1> QED
  BY <1>2, <1>3

\* A server to which nothing was done has published that, and nothing else.
LEMMA FreshPublished ==
    ASSUME NEW b, Published(b), ecs[server] = emptyMachine
    PROVE  b = emptyMachine
<1>1. unsent = {}
  <2> SUFFICES ASSUME unsent # {} PROVE FALSE
    OBVIOUS
  <2>1. PICK k : ecs[server] = withEntity(b, k)
    BY DEF Published
  <2>2. ecs[server].nextId >= 1
    BY <2>1, EntityCounted DEF Published
  <2>3. ecs[server].nextId = 0
    BY DEF emptyMachine
  <2> QED
    BY <2>2, <2>3
<1> QED
  BY <1>1 DEF Published

\* The server creates or deletes an entity that all clients know of, and sends
\* them a message that leads to its State.
Publishes ==
    \E packet \in Packet, b \in SoundMachine, w \in SoundMachine :
        /\ Published(b) /\ Following(b)
        /\ Leads(b, packet[1], w) /\ sendToClients(packet)
        /\ ecs'[server] = w /\ \A c \in Clients : ecs'[c] = ecs[c]
        /\ unsent' = {} /\ UNCHANGED << role, anomaly >>

\* A step that leads the server's State on and sends every client the packet
\* that does, publishes.
LEMMA PublishesIntro ==
    ASSUME NEW packet \in Packet, NEW b, NEW w, Sound(b), Sound(w),
           Published(b), Following(b), Leads(b, packet[1], w), sendToClients(packet),
           ecs'[server] = w, \A c \in Clients : ecs'[c] = ecs[c],
           unsent' = {}, UNCHANGED << role, anomaly >>
    PROVE  Publishes
<1>1. b \in SoundMachine /\ w \in SoundMachine
  BY DEF SoundMachine, Sound
<1> QED
  BY <1>1 DEF Publishes

\* A request that the server fulfils is published as it was fulfilled.
LEMMA FulfilledPublishes ==
    ASSUME TypeInv, InStep, unsent = {}, UNCHANGED << role, unsent, anomaly >>,
           NEW tokens \in Seq(Token), NEW asked \in SUBSET Comps,
           NEW m \in readInto(created(ecs[server]), newId(ecs[server]), tokens),
           ecs' = [ecs EXCEPT ![server] = m],
           NEW packet, packet = << fulfilled(newId(ecs[server]), m, asked) >>,
           sendToClients(packet)
    PROVE  Publishes
<1> USE ServerIsNode
<1>1. PICK b : Published(b) /\ Following(b)
  BY DEF InStep
<1>2. Sound(b) /\ b = ecs[server]
  BY <1>1 DEF Published
<1>3. m \in readInto(created(b), newId(b), tokens)
  BY <1>2
<1>4. Leads(b, fulfilled(newId(b), m, asked), m) /\ Sound(m)
  BY <1>2, <1>3, FulfilledLeads
<1>5. packet \in Packet /\ packet[1] = fulfilled(newId(b), m, asked)
  <2>1. PICK msg : msg = fulfilled(newId(b), m, asked)
    OBVIOUS
  <2>2. newId(b) \in {0} \union Ids
    BY <1>2, NewIdFree
  <2>3. msg \in Message
    BY <2>1, <2>2, FulfilledMessage
  <2>4. packet = << msg >>
    BY <1>2, <2>1
  <2>5. << >> \in Seq(Message)
    OBVIOUS
  <2>6. packet \in Packet
    BY <2>3, <2>4, <2>5, PacketOf
  <2>7. packet[1] = msg
    BY <2>4
  <2> QED
    BY <2>1, <2>6, <2>7
<1>6. Leads(b, packet[1], m)
  BY <1>4, <1>5
<1>7. ecs'[server] = m /\ \A c \in Clients : ecs'[c] = ecs[c]
  BY OthersKept DEF TypeInv
<1> QED
  BY <1>1, <1>2, <1>4, <1>5, <1>6, <1>7, PublishesIntro

\* The server closes a request.
LEMMA ClosePublishes ==
    ASSUME Promises, StepInv, closeEntityRequestServer
    PROVE  Publishes
<1> USE ServerIsNode
<1>t. /\ TypeInv /\ Own /\ Wire /\ Whole /\ Quiet /\ InStep /\ \A n \in Nodes : Sound(ecs[n])
  BY SoundAt DEF StepInv, TypeInv
<1>p. ManualInOrder
  BY DEF Promises
<1>1. /\ role[server] = "SERVER" /\ entityRequestOpen[server]
      /\ UNCHANGED << role, unsent, anomaly >> /\ unsent = {}
  BY <1>p DEF closeEntityRequestServer, closes, mayChangeEntities
<1>2. PICK tokens : tokens = writtenFromStreams(compStreams[server])
  OBVIOUS
<1>3. PICK asked : asked = wanted[server]
  OBVIOUS
<1>4. PICK m \in readInto(created(ecs[server]), newId(ecs[server]), tokens) :
         /\ ecs' = [ecs EXCEPT ![server] = m]
         /\ sendToClients(Append(stream[server], fulfilled(newId(ecs[server]), m, asked)))
  BY <1>2, <1>3 DEF closeEntityRequestServer
<1>5. stream[server] = << >>
  BY <1>t, <1>1 DEF Quiet, alone
<1>6. PICK packet : packet = << fulfilled(newId(ecs[server]), m, asked) >>
  OBVIOUS
<1>7. Append(stream[server], fulfilled(newId(ecs[server]), m, asked)) = packet
  <2>1. PICK x : x = fulfilled(newId(ecs[server]), m, asked)
    OBVIOUS
  <2>2. Append(<< >>, x) = << x >>
    OBVIOUS
  <2> QED
    BY <1>5, <1>6, <2>1, <2>2
<1>8. sendToClients(packet)
  BY <1>4, <1>7
<1>9. tokens \in Seq(Token) /\ asked \in SUBSET Comps
  <2>1. \A c \in Comps : compStreams[server][c] \in Seq(Token)
    BY <1>t DEF Own
  <2> QED
    BY <1>t, <1>2, <1>3, <2>1, StreamsTokens DEF Own
<1> QED
  BY <1>t, <1>1, <1>4, <1>6, <1>8, <1>9, FulfilledPublishes

\* The server broadcasts the manual entity.
LEMMA BroadcastPublishes ==
    ASSUME Promises, StepInv, NEW id \in unsent, broadcastManualEntity(id)
    PROVE  Publishes
<1> USE ServerIsNode
<1>t. /\ TypeInv /\ Own /\ Wire /\ Whole /\ Quiet /\ InStep /\ \A n \in Nodes : Sound(ecs[n])
  BY SoundAt DEF StepInv, TypeInv
<1>p. ManualInOrder
  BY DEF Promises
<1>1. PICK packet : /\ packet = IF lives(ecs[server], id)
                       THEN << create(id, writtenFromEntity(ecs[server].mask[id]), {}) >>
                       ELSE << >>
                    /\ packet # << >> => sendToClients(packet)
  BY DEF broadcastManualEntity
<1>2. unsent' = unsent \ {id} /\ UNCHANGED << ecs, role, anomaly >>
  BY DEF broadcastManualEntity
<1>3. PICK b : Published(b) /\ Following(b)
  BY <1>t DEF InStep
<1>4. PICK k \in SUBSET Comps :
        /\ Sound(b) /\ closed({EXISTENCE} \union k) /\ newId(b) # 0
        /\ unsent = {newId(b)} /\ ecs[server] = withEntity(b, k)
  BY <1>3 DEF Published
<1>5. PICK w : w = ecs[server]
  OBVIOUS
<1>6. id = newId(b) /\ id \in Ids
  BY <1>4, NewIdFree
<1>7. w = withEntity(b, k) /\ Sound(w) /\ w.mask[id] = {EXISTENCE} \union k
  <2>1. w = withEntity(b, k)
    BY <1>4, <1>5
  <2>2. Sound(withEntity(b, k)) /\ withEntity(b, k).mask[id] = {EXISTENCE} \union k
    BY <1>4, <1>6, EntitySound
  <2> QED
    BY <2>1, <2>2
<1>8. lives(ecs[server], id)
  BY <1>5, <1>6, <1>7 DEF lives, getComponents
<1>9. PICK msg : msg = create(id, writtenFromEntity({EXISTENCE} \union k), {})
  OBVIOUS
<1>10. packet = << msg >>
  BY <1>1, <1>5, <1>7, <1>8, <1>9
<1>11. packet \in Packet /\ packet[1] = msg
  <2>1. msg \in Message
    <3>1. id \in {0} \union Ids /\ {} \in SUBSET Comps
      BY <1>6
    <3> QED
      BY <1>9, <3>1, EntityTokens, CreateMessage
  <2>2. << >> \in Seq(Message)
    OBVIOUS
  <2> QED
    BY <1>10, <2>1, <2>2, PacketOf
<1>12. sendToClients(packet)
  <2>1. packet # << >>
    BY <1>10
  <2> QED
    BY <1>1, <2>1
<1>13. Leads(b, packet[1], w)
  <2>1. msg.op = "create" /\ msg.id = newId(b) /\ msg.payload = writtenFromEntity({EXISTENCE} \union k)
    BY <1>6, <1>9 DEF create
  <2>2. Creates(b, msg, k, w)
    BY <1>4, <1>7, <2>1 DEF Creates
  <2>3. Leads(b, msg, w)
    BY <2>1, <2>2 DEF Leads
  <2> QED
    BY <1>11, <2>3
<1>14. unsent' = {} /\ ecs'[server] = w /\ \A c \in Clients : ecs'[c] = ecs[c]
  BY <1>2, <1>4, <1>5, <1>6
<1> QED
  BY <1>2, <1>3, <1>4, <1>7, <1>11, <1>12, <1>13, <1>14, PublishesIntro

\* The server fulfils a request of a client.
LEMMA ReceivePublishes ==
    ASSUME Promises, StepInv, NEW c \in Clients, receiveRequest(c)
    PROVE  Publishes
<1> USE ServerIsNode
<1>t. /\ TypeInv /\ Own /\ Wire /\ Whole /\ Quiet /\ InStep /\ \A n \in Nodes : Sound(ecs[n])
  BY SoundAt DEF StepInv, TypeInv
<1>p. ManualInOrder
  BY DEF Promises
<1>1. /\ toServer[c] \in Seq(Packet) /\ toServer[c] # << >> /\ unsent = {}
      /\ UNCHANGED << role, unsent, anomaly >>
  BY <1>t, <1>p DEF receiveRequest, takeRequest, Wire, mayChangeEntities, nodeVars
<1>2. PICK tokens : tokens = Head(toServer[c])[1].payload
  OBVIOUS
<1>3. PICK asked : asked = Head(toServer[c])[1].asked
  OBVIOUS
<1>4. tokens \in Seq(Token) /\ asked \in SUBSET Comps
  <2>1. Head(toServer[c])[1] \in Message
    BY <1>1, FirstMessage
  <2> QED
    BY <1>2, <1>3, <2>1 DEF Message
<1>5. PICK m \in readInto(created(ecs[server]), newId(ecs[server]), tokens) :
         /\ ecs' = [ecs EXCEPT ![server] = m]
         /\ sendToClients(<< fulfilled(newId(ecs[server]), m, asked) >>)
  BY <1>2, <1>3 DEF receiveRequest
<1>6. PICK packet : packet = << fulfilled(newId(ecs[server]), m, asked) >>
  OBVIOUS
<1>7. sendToClients(packet)
  BY <1>5, <1>6
<1> QED
  BY <1>t, <1>1, <1>4, <1>5, <1>6, <1>7, FulfilledPublishes

\* A connected server deletes an entity.
LEMMA DeletionPublishes ==
    ASSUME Promises, StepInv, NEW n \in Nodes, NEW id \in Ids, requestEntityDeletion(n, id), ~alone(n)
    PROVE  Publishes
<1> USE ServerIsNode
<1>t. TypeInv /\ Own /\ Whole /\ InStep
  BY DEF StepInv, TypeInv
<1>p. ManualInOrder
  BY DEF Promises
<1>1. PICK m : m = deleted(ecs[n], id)
  OBVIOUS
<1>2. ecs' = [ecs EXCEPT ![n] = m] /\ role[n] # "CLIENT" /\ UNCHANGED << role, unsent, anomaly >>
  BY <1>1 DEF requestEntityDeletion
<1>3. sendToClients(<< destroy(id) >>) /\ unsent = {}
  BY <1>p DEF requestEntityDeletion, mayChangeEntities
<1>4. n = server
  BY <1>t, <1>2 DEF Own, Nodes, alone
<1>5. PICK b : Published(b) /\ Following(b)
  BY <1>t DEF InStep
<1>6. b = ecs[server] /\ Sound(b)
  BY <1>3, <1>5 DEF Published
<1>7. PICK packet : packet = << destroy(id) >>
  OBVIOUS
<1>8. packet \in Packet /\ packet[1] = destroy(id)
  <2>1. destroy(id) \in Message /\ << >> \in Seq(Message)
    BY DestroyMessage
  <2> QED
    BY <1>7, <2>1, PacketOf
<1>9. Leads(b, packet[1], m) /\ Sound(m)
  <2>1. m = deleted(b, id)
    BY <1>1, <1>4, <1>6
  <2>2. destroy(id).op = "destroy" /\ destroy(id).id = id
    BY DEF destroy
  <2> QED
    BY <1>6, <1>8, <2>1, <2>2, DeletedSound DEF Leads
<1>10. ecs'[server] = m /\ \A c \in Clients : ecs'[c] = ecs[c]
  BY <1>t, <1>2, <1>4, OthersKept
<1> QED
  BY <1>2, <1>3, <1>5, <1>6, <1>7, <1>8, <1>9, <1>10, PublishesIntro

\* Every step keeps the clients in step, and none meets an anomaly.
LEMMA InStepKept ==
    ASSUME EveryTypeSerialized, Promises, StepInv, TypeInv', [Next]_vars
    PROVE  InStep' /\ anomaly' = {}
<1> USE ServerIsNode
<1>t. /\ TypeInv /\ Own /\ Wire /\ Whole /\ Whole' /\ Quiet /\ Separate /\ InStep
      /\ anomaly = {} /\ \A n \in Nodes : Sound(ecs[n])
  BY SoundAt DEF StepInv, TypeInv
<1>p. ManualInOrder /\ JoinsFresh
  BY DEF Promises
<1>u. ASSUME UNCHANGED << role, ecs, toClient, unsent, anomaly >> PROVE InStep' /\ anomaly' = {}
  BY <1>t, <1>u, InStepFrame
<1>z. ASSUME Publishes PROVE InStep' /\ anomaly' = {}
  <2>1. PICK packet \in Packet, b \in SoundMachine, w \in SoundMachine :
          /\ Following(b) /\ Leads(b, packet[1], w) /\ sendToClients(packet)
          /\ ecs'[server] = w /\ \A c \in Clients : ecs'[c] = ecs[c]
          /\ unsent' = {} /\ UNCHANGED << role, anomaly >>
    BY <1>z DEF Publishes
  <2>2. Sound(w)
    BY DEF SoundMachine
  <2> QED
    BY <1>t, <2>1, <2>2, InStepSent
<1>1. CASE host
  <2>1. role' = [role EXCEPT ![server] = "SERVER"]
        /\ UNCHANGED << ecs, toClient, unsent, anomaly >>
    BY <1>1 DEF host
  <2>2. \A c \in Clients : role'[c] = role[c]
    BY <1>t, <2>1 DEF Own
  <2> QED
    BY <1>t, <2>1, <2>2, InStepFrame
<1>2. ASSUME NEW c \in Clients, join(c) PROVE InStep' /\ anomaly' = {}
  <2>1. /\ role' = [role EXCEPT ![c] = "CLIENT"] /\ UNCHANGED << ecs, toClient, unsent, anomaly >>
        /\ role[c] = "NONE" /\ ecs[c] = emptyMachine /\ ecs[server] = emptyMachine
    BY <1>p, <1>2 DEF join, alone, fresh
  <2>2. PICK b : Published(b) /\ Following(b)
    BY <1>t DEF InStep
  <2>4. b = ecs[c]
    BY <2>1, <2>2, FreshPublished
  <2>5. toClient[c] = << >>
    BY <1>t, <2>1 DEF Separate
  <2>6. Behind(ecs[c], toClient[c], b)
    BY <2>4, <2>5, BehindNone
  <2>7. ASSUME NEW d \in Clients, role'[d] = "CLIENT"
        PROVE  Behind(ecs[d], toClient[d], b)
    <3>1. CASE d = c
      BY <2>6, <3>1
    <3>2. CASE d # c
      <4>1. role[d] = "CLIENT"
        BY <1>t, <2>1, <2>7, <3>2 DEF Own
      <4> QED
        BY <2>2, <4>1 DEF Following
    <3> QED
      BY <3>1, <3>2
  <2>8. Following(b)'
    BY <2>1, <2>7 DEF Following
  <2>9. Published(b)'
    BY <2>1, <2>2 DEF Published
  <2> QED
    BY <1>t, <2>1, <2>8, <2>9 DEF InStep
<1>3. ASSUME NEW c \in Clients, leave(c) PROVE InStep' /\ anomaly' = {}
  <2>1. /\ role' = [role EXCEPT ![c] = "NONE"] /\ toClient' = [toClient EXCEPT ![c] = << >>]
        /\ UNCHANGED << ecs, unsent, anomaly >>
    BY <1>3 DEF leave
  <2>2. role'[c] = "NONE" /\ \A d \in Clients : d # c => role'[d] = role[d]
    BY <1>t, <2>1 DEF Own
  <2>3. \A d \in Clients : d # c => toClient'[d] = toClient[d]
    BY <1>t, <2>1 DEF Wire
  <2>4. \A d \in Clients : role'[d] = "CLIENT" =>
           role[d] = "CLIENT" /\ ecs'[d] = ecs[d] /\ toClient'[d] = toClient[d]
    BY <2>1, <2>2, <2>3
  <2> QED
    BY <1>t, <2>1, <2>4, InStepFrame
<1>4. ASSUME NEW n \in Nodes, openEntityRequest(n) PROVE InStep' /\ anomaly' = {}
  <2>1. UNCHANGED << role, toClient, unsent, anomaly >>
    BY <1>4 DEF openEntityRequest
  <2>2. CASE alone(n)
    <3>1. PICK m : m = created(ecs[n])
      OBVIOUS
    <3>2. ecs' = [ecs EXCEPT ![n] = m]
      BY <1>4, <2>2, <3>1 DEF openEntityRequest
    <3> QED
      BY <1>t, <2>1, <2>2, <3>2, AloneInStep
  <2>3. CASE ~alone(n)
    <3>1. ecs' = ecs
      BY <1>4, <2>3 DEF openEntityRequest
    <3> QED
      BY <1>u, <2>1, <3>1
  <2> QED
    BY <2>2, <2>3
<1>5. ASSUME NEW n \in Nodes, NEW d \in Comps, request(n, d) \/ requestUnopened(n, d)
      PROVE  InStep' /\ anomaly' = {}
  <2>1. requested(n, d) /\ UNCHANGED unsent
    BY <1>5 DEF request, requestUnopened, requested
  <2>2. UNCHANGED << role, toClient, unsent, anomaly >>
    BY <2>1 DEF requested
  <2>3. CASE alone(n)
    <3>1. PICK m : m = inserted(ecs[n], openRequestId[n], d)
      OBVIOUS
    <3>2. ecs' = [ecs EXCEPT ![n] = m]
      BY <2>1, <2>3, <3>1 DEF requested
    <3> QED
      BY <1>t, <2>2, <2>3, <3>2, AloneInStep
  <2>4. CASE ~alone(n)
    <3>1. ecs' = ecs
      BY <2>1, <2>4 DEF requested
    <3> QED
      BY <1>u, <2>2, <3>1
  <2> QED
    BY <2>3, <2>4
<1>6. ASSUME NEW n \in Nodes, closeEntityRequestAlone(n) PROVE InStep' /\ anomaly' = {}
  BY <1>u, <1>6 DEF closeEntityRequestAlone, closes
<1>7. CASE closeEntityRequestServer
  BY <1>z, <1>7, ClosePublishes
<1>8. ASSUME NEW n \in Clients, closeEntityRequestClient(n) PROVE InStep' /\ anomaly' = {}
  BY <1>u, <1>8 DEF closeEntityRequestClient, closes
<1>9. ASSUME NEW n \in Nodes, NEW mask \in {x \in SUBSET Comps : closed(x \union {EXISTENCE})},
             makeManualEntity(n, mask)
      PROVE  InStep' /\ anomaly' = {}
  <2>1. /\ newId(ecs[n]) # 0 /\ role[n] # "CLIENT" /\ unsent = {}
        /\ ecs' = [ecs EXCEPT ![n] = [created(ecs[n]) EXCEPT !.mask[newId(ecs[n])] = turnOnFlags(@, mask)]]
        /\ unsent' = IF alone(n) THEN unsent ELSE unsent \union {newId(ecs[n])}
        /\ UNCHANGED << role, toClient, anomaly >>
    BY <1>p, <1>9 DEF makeManualEntity, mayChangeEntities, nodeVars
  <2>2. PICK m : m = [created(ecs[n]) EXCEPT !.mask[newId(ecs[n])] = turnOnFlags(@, mask)]
    OBVIOUS
  <2>3. ecs' = [ecs EXCEPT ![n] = m]
    BY <2>1, <2>2
  <2>4. CASE alone(n)
    BY <1>t, <2>1, <2>3, <2>4, AloneInStep
  <2>5. CASE ~alone(n)
    <3>1. n = server
      BY <1>t, <2>1, <2>5 DEF Own, Nodes, alone
    <3>2. PICK b : Published(b) /\ Following(b)
      BY <1>t DEF InStep
    <3>3. b = ecs[server] /\ Sound(b)
      BY <2>1, <3>2 DEF Published
    <3>4. m = withEntity(b, mask) /\ mask \in SUBSET Comps /\ closed({EXISTENCE} \union mask)
      BY <2>1, <2>2, <3>1, <3>3, ManualEntity
    <3>5. unsent' = {newId(b)} /\ newId(b) # 0
      BY <2>1, <2>5, <3>1, <3>3
    <3>6. ecs'[server] = m /\ \A d \in Clients : ecs'[d] = ecs[d]
      BY <1>t, <2>3, <3>1, OthersKept
    <3>7. Published(b)'
      <4>1. ecs'[server] = withEntity(b, mask)
        BY <3>4, <3>6
      <4> QED
        BY <3>3, <3>4, <3>5, <4>1 DEF Published
    <3>8. Following(b)'
      BY <2>1, <3>2, <3>6 DEF Following
    <3> QED
      BY <1>t, <2>1, <3>7, <3>8 DEF InStep
  <2> QED
    BY <2>4, <2>5
<1>10. ASSUME NEW id \in unsent, broadcastManualEntity(id) PROVE InStep' /\ anomaly' = {}
  BY <1>z, <1>10, BroadcastPublishes
<1>11. ASSUME NEW n \in Nodes, NEW id \in Ids, requestEntityDeletion(n, id)
       PROVE  InStep' /\ anomaly' = {}
  <2>1. CASE alone(n)
    <3>1. PICK m : m = deleted(ecs[n], id)
      OBVIOUS
    <3>2. ecs' = [ecs EXCEPT ![n] = m] /\ UNCHANGED << role, toClient, unsent, anomaly >>
      BY <1>11, <2>1, <3>1 DEF requestEntityDeletion
    <3> QED
      BY <1>t, <2>1, <3>2, AloneInStep
  <2>2. CASE ~alone(n)
    BY <1>z, <1>11, <2>2, DeletionPublishes
  <2> QED
    BY <2>1, <2>2
<1>12. ASSUME NEW c \in Clients, receiveRequest(c) PROVE InStep' /\ anomaly' = {}
  BY <1>z, <1>12, ReceivePublishes
<1>13. ASSUME NEW c \in Clients, receiveUpdate(c) PROVE InStep' /\ anomaly' = {}
  <2>1. /\ toClient[c] \in Seq(Packet) /\ toClient[c] # << >>
        /\ toClient' = [toClient EXCEPT ![c] = Tail(@)]
        /\ UNCHANGED << role, unsent >>
    BY <1>t, <1>13 DEF receiveUpdate, takeUpdate, Wire, nodeVars
  <2>2. role[c] = "CLIENT"
    BY <1>t, <2>1 DEF Separate
  <2>3. PICK b : Published(b) /\ Following(b)
    BY <1>t DEF InStep
  <2>4. PICK msg : msg = Head(toClient[c])[1]
    OBVIOUS
  <2>5. PICK w : Leads(ecs[c], msg, w) /\ Behind(w, Tail(toClient[c]), b)
    <3>1. Behind(ecs[c], toClient[c], b)
      BY <2>2, <2>3 DEF Following
    <3> QED
      BY <2>1, <2>4, <3>1, BehindTake
  <2>6. apply(ecs[c], msg) = {w} /\ inOneLoop(ecs[c], msg)
    BY <1>t, <2>5, LeadsOn
  <2>7. ecs' = [ecs EXCEPT ![c] = w]
    <3>1. \E m \in apply(ecs[c], msg) : ecs' = [ecs EXCEPT ![c] = m]
      BY <1>13, <2>4 DEF receiveUpdate
    <3> QED
      BY <2>6, <3>1
  <2>8. anomaly' = {}
    BY <1>t, <1>13, <2>4, <2>6 DEF receiveUpdate
  <2>9. ecs'[c] = w /\ \A d \in Nodes : d # c => ecs'[d] = ecs[d]
    BY <1>t, <2>7, OthersKept
  <2>10. toClient'[c] = Tail(toClient[c]) /\ \A d \in Clients : d # c => toClient'[d] = toClient[d]
    BY <1>t, <2>1 DEF Wire
  <2>11. Published(b)'
    BY <2>1, <2>3, <2>9 DEF Published
  <2>12. ASSUME NEW d \in Clients, role'[d] = "CLIENT" PROVE Behind(ecs'[d], toClient'[d], b)
    <3>1. CASE d = c
      BY <2>5, <2>9, <2>10, <3>1
    <3>2. CASE d # c
      <4>1. Behind(ecs[d], toClient[d], b)
        BY <2>1, <2>3, <2>12 DEF Following
      <4> QED
        BY <2>9, <2>10, <3>2, <4>1
    <3> QED
      BY <3>1, <3>2
  <2>13. Following(b)'
    BY <2>12 DEF Following
  <2> QED
    BY <2>8, <2>11, <2>13 DEF InStep
<1>14. CASE UNCHANGED vars
  BY <1>u, <1>14 DEF vars, nodeVars
<1> QED
  BY <1>1, <1>2, <1>3, <1>4, <1>5, <1>6, <1>7, <1>8, <1>9, <1>10, <1>11, <1>12, <1>13, <1>14
  DEF Next

\* All of the invariant is kept.
LEMMA StepKept ==
    ASSUME EveryTypeSerialized, Promises
    PROVE  StepInv /\ [Next]_vars => StepInv'
<1> SUFFICES ASSUME StepInv, [Next]_vars PROVE StepInv'
  OBVIOUS
<1>1. TypeInv /\ Quiet /\ Separate
  BY DEF StepInv
<1>2. TypeInv'
  BY <1>1, TypesKept
<1>3. Quiet' /\ Separate'
  BY <1>1, QuietKept, SeparateKept
<1>4. InStep' /\ anomaly' = {}
  BY <1>2, InStepKept
<1> QED
  BY <1>2, <1>3, <1>4 DEF StepInv

\* The clients are behind by their packets at all times.
LEMMA AlwaysInStep ==
    ASSUME EveryTypeSerialized, Promises
    PROVE  Spec => []StepInv
<1>1. StepInv /\ [Next]_vars => StepInv'
  BY StepKept
<1> QED
  BY <1>1, InitInStep, PTL DEF Spec

\* caughtUp, of any State m and packets q.
handled(m, q) ==
    LET upTo[i \in 0 .. Len(q)] ==
            IF i = 0 THEN {m} ELSE UNION {apply(x, q[i][1]) : x \in upTo[i - 1]}
    IN  upTo[Len(q)]

\* Every State on the way is sound.
LEMMA PathSound ==
    ASSUME EveryTypeSerialized, NEW q \in Seq(Packet), NEW h, Sound(h[0]), Path(h, q)
    PROVE  \A i \in 0 .. Len(q) : Sound(h[i])
<1> DEFINE n == Len(q)
           P == {i \in Nat : i <= n => Sound(h[i])}
<1>1. n \in Nat /\ \A i \in 1 .. n : Leads(h[i - 1], q[i][1], h[i])
  BY DEF Path
<1> HIDE DEF n
<1>2. 0 \in P
  OBVIOUS
<1>3. ASSUME NEW i \in Nat, i \in P PROVE i + 1 \in P
  <2> SUFFICES ASSUME i + 1 <= n PROVE Sound(h[i + 1])
    OBVIOUS
  <2>1. PICK j \in 1 .. n : j = i + 1 /\ j - 1 = i
    BY <1>1
  <2>2. Leads(h[j - 1], q[j][1], h[j])
    BY <1>1
  <2>3. Sound(h[j - 1])
    BY <1>1, <1>3, <2>1
  <2>4. Sound(h[j])
    BY <2>2, <2>3, LeadsOn
  <2> QED
    BY <2>1, <2>4
<1> HIDE DEF P
<1>4. \A i \in Nat : i \in P
  BY <1>2, <1>3, SetInduction
<1> QED
  BY <1>1, <1>4 DEF P, n

\* What the packets lead to is all that handling them can come to.
LEMMA BehindHandled ==
    ASSUME EveryTypeSerialized, NEW m, Sound(m), NEW q \in Seq(Packet), NEW b, Behind(m, q, b)
    PROVE  handled(m, q) = {b}
<1> DEFINE n == Len(q)
           next(S, i) == UNION {apply(x, q[i][1]) : x \in S}
           upTo[i \in 0 .. n] ==
              IF i = 0 THEN {m} ELSE UNION {apply(x, q[i][1]) : x \in upTo[i - 1]}
<1>1. handled(m, q) = upTo[n]
  BY DEF handled
<1>2. PICK h : h[0] = m /\ h[n] = b /\ Path(h, q)
  BY DEF Behind
<1>3. n \in Nat
  OBVIOUS
<1>4. \A i \in 1 .. n : Leads(h[i - 1], q[i][1], h[i])
  BY <1>2 DEF Path
<1> DEFINE g == [i \in 0 .. n |-> {h[i]}]
<1> HIDE DEF n
<1>5. \A i \in 0 .. n : Sound(h[i])
  BY <1>2, PathSound DEF n
<1>6. \A i \in 1 .. n : next(g[i - 1], i) = g[i]
  <2> TAKE i \in 1 .. n
  <2>1. PICK j \in 0 .. n : j = i - 1
    BY <1>3
  <2>2. g[j] = {h[j]} /\ g[i] = {h[i]}
    BY <1>3
  <2>3. Leads(h[j], q[i][1], h[i]) /\ Sound(h[j])
    BY <1>4, <1>5, <2>1
  <2>4. apply(h[j], q[i][1]) = {h[i]}
    BY <2>3, LeadsOn
  <2> HIDE DEF g
  <2>5. next(g[j], i) = g[i]
    BY <2>2, <2>4
  <2> QED
    BY <2>1, <2>5
<1>7. \A i \in 0 .. n : g[i] = IF i = 0 THEN {m} ELSE next(g[i - 1], i)
  <2> TAKE i \in 0 .. n
  <2>1. CASE i = 0
    BY <1>2, <1>3, <2>1
  <2>2. CASE i # 0
    <3>1. i \in 1 .. n
      BY <1>3, <2>2
    <3> HIDE DEF g, next
    <3> QED
      BY <1>6, <2>2, <3>1
  <2> QED
    BY <2>1, <2>2
<1>8. g = [i \in 0 .. n |-> IF i = 0 THEN {m} ELSE next(g[i - 1], i)]
  <2> HIDE DEF next
  <2> QED
    BY <1>7
<1> HIDE DEF g
<1>9. upTo = [i \in 0 .. n |-> IF i = 0 THEN {m} ELSE next(upTo[i - 1], i)]
  BY <1>8 DEF upTo, next
<1> HIDE DEF upTo, next
<1>10. upTo[0] = {m} /\ \A i \in 1 .. n : upTo[i] = next(upTo[i - 1], i)
  <2>1. \A i \in 0 .. n : upTo[i] = IF i = 0 THEN {m} ELSE next(upTo[i - 1], i)
    BY <1>9
  <2>2. 0 \in 0 .. n /\ \A i \in 1 .. n : i \in 0 .. n /\ i # 0
    BY <1>3
  <2> QED
    BY <2>1, <2>2
<1>11. g[0] = {m}
  <2>1. 0 \in 0 .. n
    BY <1>3
  <2> QED
    BY <1>7, <2>1
<1>12. GoOnAlike(upTo, g, n)
  BY <1>6, <1>10, <1>11 DEF GoOnAlike
<1>13. upTo[n] = g[n]
  <2>1. n \in 0 .. n
    BY <1>3
  <2>2. \A i \in 0 .. n : upTo[i] = g[i]
    BY <1>3, <1>12, AlikeUpTo
  <2> QED
    BY <2>1, <2>2
<1>14. g[n] = {b}
  BY <1>2, <1>3 DEF g
<1> QED
  BY <1>1, <1>13, <1>14

\* As long as the game keeps its promises, and every type is serialized, a
\* client creates exactly one entity for a creation message.
THEOREM OneIterationSuffices ==
    ASSUME EveryTypeSerialized, Promises
    PROVE  Spec => []ExactlyOneIteration
<1>1. StepInv => ExactlyOneIteration
  BY DEF StepInv, ExactlyOneIteration
<1> QED
  BY <1>1, AlwaysInStep, PTL

\* Under the same conditions the packets under way to a client make its
\* entities, ids and masks, its counter and its stack of freed ids the
\* server's, at every moment in which the server has nothing left to broadcast.
THEOREM ClientsFollow ==
    ASSUME EveryTypeSerialized, Promises
    PROVE  Spec => []ClientsInStep
<1>1. ASSUME StepInv PROVE ClientsInStep
  <2> SUFFICES ASSUME unsent = {}, NEW c \in Clients, role[c] = "CLIENT"
               PROVE  caughtUp(c) = {ecs[server]}
    BY DEF ClientsInStep
  <2>1. PICK b : Published(b) /\ Following(b)
    BY <1>1 DEF StepInv, InStep
  <2>2. b = ecs[server] /\ Behind(ecs[c], toClient[c], b)
    BY <2>1 DEF Published, Following
  <2>3. Sound(ecs[c]) /\ toClient[c] \in Seq(Packet)
    BY <1>1, ServerIsNode, SoundAt DEF StepInv, TypeInv, Wire
  <2>4. handled(ecs[c], toClient[c]) = {b}
    BY <2>2, <2>3, BehindHandled
  <2>5. caughtUp(c) = handled(ecs[c], toClient[c])
    BY DEF caughtUp, handled
  <2> QED
    BY <2>2, <2>4, <2>5
<1>2. StepInv => ClientsInStep
  BY <1>1
<1> QED
  BY <1>2, AlwaysInStep, PTL

--------------------------------------------------------------------------
(* What the game asked for *)

\* The streams of a request for the components k.
streamsOf(k) == [c \in Comps |-> IF c \in k THEN ctorArgs(c) ELSE << >>]

\* When every constructor takes arguments, a request is written as the entity
\* that it asks for.
LEMMA AskedAsEntity ==
    ASSUME NoArgs = {}, NEW k \in SUBSET Comps
    PROVE  writtenFromStreams(streamsOf(k)) = writtenFromEntity({EXISTENCE} \union k)
<1> DEFINE p == [c \in Comps |-> IF streamsOf(k)[c] = << >> THEN << No >> ELSE << Yes >> \o streamsOf(k)[c]]
           q == [c \in Comps |-> IF c \notin {EXISTENCE} \union k THEN << No >>
                                 ELSE IF c \in NoArgs THEN << Yes >> ELSE << Yes, Fields(c) >>]
<1>1. ASSUME NEW c \in Comps PROVE p[c] = q[c]
  <2>1. c # EXISTENCE
    BY CompsAssumption
  <2>2. CASE c \notin k
    BY <2>1, <2>2 DEF streamsOf
  <2>3. CASE c \in k
    <3>1. streamsOf(k)[c] = << Fields(c) >>
      BY <2>3 DEF streamsOf, ctorArgs
    <3>2. PICK x : x = Fields(c)
      OBVIOUS
    <3>3. PICK y : y = Yes
      OBVIOUS
    <3>4. << x >> # << >> /\ << y >> \o << x >> = << y, x >>
      <4>1. << x >> # << >>
        <5>1. Len(<< x >>) = 1 /\ Len(<< >>) = 0
          OBVIOUS
        <5> QED
          BY <5>1
      <4>2. << y >> \o << x >> = Append(<< y >>, x)
        <5>1. << y >> \in Seq({x, y}) /\ x \in {x, y}
          OBVIOUS
        <5> QED
          BY <5>1, AppendIsConcat
      <4>3. Append(<< y >>, x) = << y, x >>
        <5> DEFINE S == {x, y}
                   l == Append(<< y >>, x)
                   r == << y, x >>
        <5>1. l \in Seq(S) /\ Len(l) = 2 /\ l[1] = y /\ l[2] = x
          OBVIOUS
        <5>2. r \in Seq(S) /\ Len(r) = 2 /\ r[1] = y /\ r[2] = x
          OBVIOUS
        <5>3. \A i \in 1 .. 2 : i = 1 \/ i = 2
          OBVIOUS
        <5> HIDE DEF l, r, S
        <5>4. l = r
          BY <5>1, <5>2, <5>3, SeqEqual
        <5> QED
          BY <5>4 DEF l, r
      <4> QED
        BY <4>1, <4>2, <4>3
    <3>5. p[c] = << Yes, Fields(c) >>
      BY <3>1, <3>2, <3>3, <3>4
    <3>6. q[c] = << Yes, Fields(c) >>
      BY <2>3
    <3> QED
      BY <3>5, <3>6
  <2> QED
    BY <2>2, <2>3
<1>2. p = q
  <2>1. p = [c \in Comps |-> p[c]] /\ q = [c \in Comps |-> q[c]]
    OBVIOUS
  <2> QED
    BY <1>1, <2>1
<1>3. writtenFromStreams(streamsOf(k)) = inSerialOrder(p)
  BY DEF writtenFromStreams
<1>4. writtenFromEntity({EXISTENCE} \union k) = inSerialOrder(q)
  BY DEF writtenFromEntity
<1> HIDE DEF p, q
<1> QED
  BY <1>2, <1>3, <1>4

\* Reading a request back makes the entity that it asks for.
LEMMA MadeAsAsked ==
    ASSUME EveryTypeSerialized, NoArgs = {}, NEW m, Sound(m), NEW k \in SUBSET Comps,
           NEW w \in readInto(created(m), newId(m), writtenFromStreams(streamsOf(k)))
    PROVE  made(w, newId(m), k)
<1> SUFFICES ASSUME newId(m) # 0, closed(k \union {EXISTENCE})
             PROVE  w.mask[newId(m)] = k \union {EXISTENCE}
  BY DEF made
<1>1. k \union {EXISTENCE} = {EXISTENCE} \union k
  OBVIOUS
<1>2. closed({EXISTENCE} \union k)
  BY <1>1
<1>3. w \in readInto(created(m), newId(m), writtenFromEntity({EXISTENCE} \union k))
  BY AskedAsEntity
<1>4. w = withEntity(m, k)
  BY <1>2, <1>3, ReadBack
<1>5. newId(m) \in Ids
  BY NewIdFree
<1> QED
  BY <1>1, <1>2, <1>4, <1>5, EntitySound

\* The packets that are under way to the server: each is a request, and says
\* what the game asked for.
Asks(q) == \A i \in 1 .. Len(q) : q[i][1].payload = writtenFromStreams(streamsOf(q[i][1].asked))
Asked ==
    /\ \A c \in Clients : Asks(toServer[c])
    /\ alone(server) => \A c \in Clients : toServer[c] = << >>

\* The entity that a program alone makes for a request exists and has nothing
\* that the game did not ask for so far, and all of it if the game asked for
\* everything after its prerequisites.
madeSoFar(mask, asked, inOrder) ==
    /\ EXISTENCE \in mask /\ mask \subseteq {EXISTENCE} \union asked
    /\ inOrder => mask = {EXISTENCE} \union asked
MadeAlone ==
    \A n \in Nodes : entityRequestOpen[n] /\ alone(n) /\ openRequestId[n] # 0
        => madeSoFar(ecs[n].mask[openRequestId[n]], wanted[n], n \notin early)

RequestInv == TypeInv /\ StreamsOnce /\ Quiet /\ Separate /\ Asked /\ MadeAlone

\* A queue of requests with one more request behind it.
LEMMA AsksAppend ==
    ASSUME NEW q \in Seq(Packet), Asks(q), NEW packet \in Packet,
           packet[1].payload = writtenFromStreams(streamsOf(packet[1].asked))
    PROVE  Asks(Append(q, packet))
<1> PICK r : r = Append(q, packet)
  OBVIOUS
<1>1. Len(r) = Len(q) + 1 /\ r[Len(q) + 1] = packet /\ \A i \in 1 .. Len(q) : r[i] = q[i]
  OBVIOUS
<1>2. Len(q) \in Nat
  OBVIOUS
<1>3. \A i \in 1 .. Len(r) : i = Len(q) + 1 \/ i \in 1 .. Len(q)
  BY <1>1, <1>2
<1>4. Asks(r)
  BY <1>1, <1>2, <1>3 DEF Asks
<1> QED
  BY <1>4

\* The queue without its first packet.
LEMMA AsksTail ==
    ASSUME NEW q \in Seq(Packet), q # << >>, Asks(q)
    PROVE  Asks(Tail(q))
<1> PICK r : r = Tail(q)
  OBVIOUS
<1>1. Len(r) = Len(q) - 1 /\ Len(q) \in Nat \ {0} /\ \A i \in 1 .. Len(q) - 1 : r[i] = q[i + 1]
  OBVIOUS
<1>2. ASSUME NEW i \in 1 .. Len(r) PROVE r[i][1].payload = writtenFromStreams(streamsOf(r[i][1].asked))
  <2>1. PICK j \in 1 .. Len(q) : j = i + 1
    BY <1>1
  <2>2. r[i] = q[j]
    BY <1>1, <2>1
  <2> QED
    BY <2>2 DEF Asks
<1>3. Asks(r)
  BY <1>2 DEF Asks
<1> QED
  BY <1>3

\* The queue without its last packets.
LEMMA AsksFirst ==
    ASSUME NEW q \in Seq(Packet), Asks(q), NEW n \in 0 .. Len(q)
    PROVE  Asks(SubSeq(q, 1, n))
<1> PICK r : r = SubSeq(q, 1, n)
  OBVIOUS
<1>1. Len(r) = n /\ Len(q) \in Nat /\ \A i \in 1 .. n : r[i] = q[i] /\ i \in 1 .. Len(q)
  OBVIOUS
<1>2. Asks(r)
  BY <1>1 DEF Asks
<1> QED
  BY <1>2

\* Nothing is asked for at first.
LEMMA InitAsked == Init => RequestInv
<1> SUFFICES ASSUME Init PROVE RequestInv
  OBVIOUS
<1>1. \A c \in Clients : toServer[c] = << >>
  BY DEF Init
<1>2. Asked
  <2>1. Len(<< >>) = 0
    OBVIOUS
  <2> QED
    BY <1>1, <2>1 DEF Asked, Asks
<1>3. MadeAlone
  BY DEF Init, MadeAlone
<1>4. Quiet /\ Separate
  BY InitInStep DEF StepInv
<1> QED
  BY <1>2, <1>3, <1>4, InitTyped, InitStreams DEF RequestInv

\* Where the packets to the server stay, or are one less.
LEMMA AskedFewer ==
    ASSUME TypeInv, Asked, NEW c \in Clients, toServer[c] # << >>,
           toServer' = [toServer EXCEPT ![c] = Tail(@)], role' = role
    PROVE  Asked'
<1>1. \A d \in Clients : toServer[d] \in Seq(Packet) /\ Asks(toServer[d])
  BY DEF TypeInv, Wire, Asked
<1>2. Asks(Tail(toServer[c]))
  BY <1>1, AsksTail
<1>3. toServer'[c] = Tail(toServer[c]) /\ \A d \in Clients : d # c => toServer'[d] = toServer[d]
  BY DEF TypeInv, Wire
<1>4. ~alone(server)
  BY DEF Asked
<1>5. \A d \in Clients : Asks(toServer'[d])
  BY <1>1, <1>2, <1>3
<1>6. ~alone(server)'
  BY <1>4 DEF alone
<1> QED
  BY <1>5, <1>6 DEF Asked

\* Only requests are sent to the server.
LEMMA AskedKept ==
    ASSUME Promises, RequestInv, [Next]_vars
    PROVE  Asked'
<1> USE ServerIsNode
<1>t. TypeInv /\ Own /\ Wire /\ StreamsOnce /\ Quiet /\ Separate /\ Asked
  BY DEF RequestInv, TypeInv
<1>u. ASSUME toServer' = toServer, alone(server)' => alone(server) PROVE Asked'
  BY <1>t, <1>u DEF Asked
<1>v. ASSUME UNCHANGED << toServer, role >> PROVE Asked'
  BY <1>u, <1>v DEF alone
<1>1. CASE host
  <2>1. role' = [role EXCEPT ![server] = "SERVER"] /\ toServer' = toServer
    BY <1>1 DEF host
  <2>2. role'[server] = "SERVER"
    BY <1>t, <2>1 DEF Own
  <2> QED
    BY <1>u, <2>1, <2>2 DEF alone
<1>2. ASSUME NEW c \in Clients, join(c) PROVE Asked'
  <2>1. role' = [role EXCEPT ![c] = "CLIENT"] /\ toServer' = toServer
    BY <1>2 DEF join
  <2>2. role'[server] = role[server]
    BY <1>t, <2>1 DEF Own
  <2> QED
    BY <1>u, <2>1, <2>2 DEF alone
<1>3. ASSUME NEW c \in Clients, leave(c) PROVE Asked'
  <2>1. role' = [role EXCEPT ![c] = "NONE"] /\ role[c] = "CLIENT"
    BY <1>3 DEF leave
  <2>2. PICK arrived \in 0 .. Len(toServer[c]) :
           toServer' = [toServer EXCEPT ![c] = SubSeq(@, 1, arrived)]
    BY <1>3 DEF leave
  <2>3. ~alone(server)'
    <3>1. ~alone(server)
      BY <1>t, <2>1 DEF Separate
    <3>2. role'[server] = role[server]
      BY <1>t, <2>1 DEF Own
    <3> QED
      BY <3>1, <3>2 DEF alone
  <2>4. Asks(SubSeq(toServer[c], 1, arrived))
    BY <1>t, AsksFirst DEF Wire, Asked
  <2>5. toServer'[c] = SubSeq(toServer[c], 1, arrived) /\ \A d \in Clients : d # c => toServer'[d] = toServer[d]
    BY <1>t, <2>2 DEF Wire
  <2>6. \A d \in Clients : Asks(toServer'[d])
    BY <1>t, <2>4, <2>5 DEF Asked
  <2> QED
    BY <2>3, <2>6 DEF Asked
<1>4. ASSUME NEW n \in Nodes, openEntityRequest(n) PROVE Asked'
  BY <1>v, <1>4 DEF openEntityRequest
<1>5. ASSUME NEW n \in Nodes, NEW d \in Comps, request(n, d) \/ requestUnopened(n, d) PROVE Asked'
  BY <1>v, <1>5 DEF request, requestUnopened, requested
<1>6. ASSUME NEW n \in Nodes, closeEntityRequestAlone(n) PROVE Asked'
  BY <1>v, <1>6 DEF closeEntityRequestAlone, closes
<1>7. CASE closeEntityRequestServer
  BY <1>v, <1>7 DEF closeEntityRequestServer, closes
<1>8. ASSUME NEW n \in Clients, closeEntityRequestClient(n) PROVE Asked'
  <2>0. n \in Nodes
    OBVIOUS
  <2>1. PICK tokens : tokens = writtenFromStreams(compStreams[n])
    OBVIOUS
  <2>2. PICK asked : asked = wanted[n]
    OBVIOUS
  <2>3. PICK packet : packet = Append(stream[n], create(0, tokens, asked))
    OBVIOUS
  <2>4. /\ role[n] = "CLIENT" /\ role' = role /\ entityRequestOpen[n]
        /\ toServer' = [toServer EXCEPT ![n] = Append(@, packet)]
    BY <1>8, <2>1, <2>2, <2>3 DEF closeEntityRequestClient, closes
  <2>5. stream[n] = << >>
    BY <1>t, <2>0, <2>4 DEF Quiet, alone
  <2>6. compStreams[n] = streamsOf(asked)
    <3>1. \A c \in Comps : compStreams[n][c] = IF c \in asked THEN ctorArgs(c) ELSE << >>
      BY <1>t, <2>0, <2>2, <2>4 DEF StreamsOnce, alone
    <3>2. compStreams[n] = [c \in Comps |-> compStreams[n][c]]
      BY <1>t, <2>0 DEF Own
    <3> QED
      BY <3>1, <3>2 DEF streamsOf
  <2>7. PICK msg : msg = create(0, tokens, asked)
    OBVIOUS
  <2>8. packet = << msg >> /\ packet[1] = msg
    <3>1. Append(<< >>, msg) = << msg >>
      OBVIOUS
    <3> QED
      BY <2>3, <2>5, <2>7, <3>1
  <2>9. msg \in Message
    <3>1. \A c \in Comps : compStreams[n][c] \in Seq(Token)
      BY <1>t, <2>0 DEF Own
    <3>2. tokens \in Seq(Token)
      BY <2>1, <3>1, StreamsTokens
    <3>3. asked \in SUBSET Comps
      BY <1>t, <2>0, <2>2 DEF Own
    <3> QED
      BY <2>7, <3>2, <3>3, CreateMessage
  <2>10. packet \in Packet
    <3>1. << >> \in Seq(Message)
      OBVIOUS
    <3> QED
      BY <2>8, <2>9, <3>1, PacketOf
  <2>11. packet[1].payload = writtenFromStreams(streamsOf(packet[1].asked))
    <3>1. msg.payload = tokens /\ msg.asked = asked
      BY <2>7 DEF create
    <3> QED
      BY <2>1, <2>6, <2>8, <3>1
  <2>12. Asks(Append(toServer[n], packet))
    BY <1>t, <2>10, <2>11, AsksAppend DEF Wire, Asked
  <2>13. toServer'[n] = Append(toServer[n], packet) /\ \A d \in Clients : d # n => toServer'[d] = toServer[d]
    BY <1>t, <2>4 DEF Wire
  <2>14. \A d \in Clients : Asks(toServer'[d])
    BY <1>t, <2>12, <2>13 DEF Asked
  <2>15. ~alone(server)'
    <3>1. ~alone(server)
      BY <1>t, <2>4 DEF Separate
    <3> QED
      BY <2>4, <3>1 DEF alone
  <2> QED
    BY <2>14, <2>15 DEF Asked
<1>9. ASSUME NEW n \in Nodes, NEW mask, makeManualEntity(n, mask) PROVE Asked'
  BY <1>v, <1>9 DEF makeManualEntity, nodeVars
<1>10. ASSUME NEW id \in unsent, broadcastManualEntity(id) PROVE Asked'
  BY <1>v, <1>10 DEF broadcastManualEntity
<1>11. ASSUME NEW n \in Nodes, NEW id \in Ids, requestEntityDeletion(n, id) PROVE Asked'
  BY <1>v, <1>11 DEF requestEntityDeletion
<1>12. ASSUME NEW c \in Clients, receiveRequest(c) PROVE Asked'
  <2>1. toServer[c] # << >> /\ toServer' = [toServer EXCEPT ![c] = Tail(@)] /\ role' = role
    BY <1>12 DEF receiveRequest, takeRequest, nodeVars
  <2> QED
    BY <1>t, <2>1, AskedFewer
<1>13. ASSUME NEW c \in Clients, receiveUpdate(c) PROVE Asked'
  BY <1>v, <1>13 DEF receiveUpdate, nodeVars
<1>14. CASE UNCHANGED vars
  BY <1>v, <1>14 DEF vars, nodeVars
<1> QED
  BY <1>1, <1>2, <1>3, <1>4, <1>5, <1>6, <1>7, <1>8, <1>9, <1>10, <1>11, <1>12, <1>13, <1>14
  DEF Next

\* What a node has to its request stays when neither its entity nor what it
\* asked for changes.
LEMMA MadeFrame ==
    ASSUME MadeAlone,
           \A n \in Nodes : entityRequestOpen'[n] /\ alone(n)' =>
              /\ entityRequestOpen[n] /\ alone(n)
              /\ openRequestId'[n] = openRequestId[n] /\ wanted'[n] = wanted[n]
              /\ n \in early' <=> n \in early
              /\ openRequestId[n] # 0 => ecs'[n].mask[openRequestId[n]] = ecs[n].mask[openRequestId[n]]
    PROVE  MadeAlone'
  BY DEF MadeAlone, madeSoFar

\* A component that is asked for is added to the entity or it is not, and
\* nothing else changes.
LEMMA AskedOrRefused ==
    ASSUME NEW m, Sound(m), NEW id \in Ids, NEW c \in Comps
    PROVE  inserted(m, id, c).mask[id] \in {m.mask[id], m.mask[id] \union {c}}
<1>1. m = [nextId |-> m.nextId, freedIds |-> m.freedIds, mask |-> m.mask] /\ m.mask \in [Ids -> compMask]
  BY SoundParts
<1> QED
  BY <1>1 DEF inserted, turnOnFlags

\* A component that is asked for after its prerequisites is added.
LEMMA AskedIsAdded ==
    ASSUME NEW m, Sound(m), NEW id \in Ids, NEW k \in SUBSET Comps, NEW c \in Comps, c \notin k,
           Prereqs[c] \subseteq k, m.mask[id] = {EXISTENCE} \union k
    PROVE  inserted(m, id, c).mask[id] = {EXISTENCE} \union (k \union {c})
<1>1. m.mask[id] # {}
  OBVIOUS
<1>2. insertable(m, id, c)
  <2>1. c \notin m.mask[id]
    BY CompsAssumption
  <2>2. {EXISTENCE} \union Prereqs[c] \subseteq m.mask[id]
    OBVIOUS
  <2> QED
    BY <1>1, <2>1, <2>2
    DEF insertable, lives, getComponents, passesPrerequisitesForAddition, requiredComps
<1>3. inserted(m, id, c) = [m EXCEPT !.mask[id] = turnOnFlags(@, {c})]
  BY <1>2 DEF inserted
<1>4. m = [nextId |-> m.nextId, freedIds |-> m.freedIds, mask |-> m.mask] /\ m.mask \in [Ids -> compMask]
  BY SoundParts
<1>5. inserted(m, id, c).mask[id] = m.mask[id] \union {c}
  BY <1>3, <1>4 DEF turnOnFlags
<1> QED
  BY <1>5

\* Whatever is done while a request is open on a program that is alone, its
\* entity has what the game asked for.
LEMMA MadeKept ==
    ASSUME Promises, RequestInv, [Next]_vars
    PROVE  MadeAlone'
<1> USE ServerIsNode
<1>t. TypeInv /\ Own /\ Whole /\ Separate /\ Asked /\ MadeAlone /\ \A n \in Nodes : Sound(ecs[n])
  BY SoundAt DEF RequestInv, TypeInv
<1>p. RoleKept /\ QuietWhileOpen
  BY DEF Promises
\* A program changes its role while no request is open on it.
<1>r. ASSUME NEW n \in Nodes, NEW x, role' = [role EXCEPT ![n] = x], ~entityRequestOpen[n],
             UNCHANGED << ecs, requestVars >>
      PROVE  MadeAlone'
  <2>1. \A m \in Nodes : m # n => role'[m] = role[m]
    BY <1>t, <1>r DEF Own
  <2>2. UNCHANGED << entityRequestOpen, openRequestId, wanted, early >>
    BY <1>r DEF requestVars
  <2> QED
    BY <1>t, <1>r, <2>1, <2>2, MadeFrame DEF alone
<1>u. ASSUME UNCHANGED << ecs, role, requestVars >> PROVE MadeAlone'
  BY <1>t, <1>u, MadeFrame DEF alone, requestVars
\* The State of one program changes, on which no entity of an open request is.
<1>s. ASSUME NEW n \in Nodes, NEW m, ecs' = [ecs EXCEPT ![n] = m],
             UNCHANGED << role, openRequestId, wanted, early >>,
             \A d \in Nodes : entityRequestOpen'[d] => entityRequestOpen[d],
             entityRequestOpen[n] /\ alone(n) /\ openRequestId[n] # 0
                => m.mask[openRequestId[n]] = ecs[n].mask[openRequestId[n]]
      PROVE  MadeAlone'
  <2>1. ecs'[n] = m /\ \A d \in Nodes : d # n => ecs'[d] = ecs[d]
    BY <1>t, <1>s, OthersKept
  <2> QED
    BY <1>t, <1>s, <2>1, MadeFrame DEF alone
<1>c. ASSUME NEW n \in Nodes, closes(n)
      PROVE  /\ UNCHANGED << role, openRequestId, wanted, early >>
             /\ \A d \in Nodes : entityRequestOpen'[d] => entityRequestOpen[d]
  BY <1>t, <1>c DEF closes, Own
<1>1. CASE host
  <2>1. /\ role' = [role EXCEPT ![server] = "SERVER"] /\ ~entityRequestOpen[server]
        /\ UNCHANGED << ecs, requestVars >>
    BY <1>p, <1>1 DEF host, mayChangeRole
  <2> QED
    BY <1>r, <2>1
<1>2. ASSUME NEW c \in Clients, join(c) PROVE MadeAlone'
  <2>1. /\ role' = [role EXCEPT ![c] = "CLIENT"] /\ ~entityRequestOpen[c]
        /\ UNCHANGED << ecs, requestVars >>
    BY <1>p, <1>2 DEF join, mayChangeRole
  <2> QED
    BY <1>r, <2>1
<1>3. ASSUME NEW c \in Clients, leave(c) PROVE MadeAlone'
  <2>1. /\ role' = [role EXCEPT ![c] = "NONE"] /\ ~entityRequestOpen[c]
        /\ UNCHANGED << ecs, requestVars >>
    BY <1>p, <1>3 DEF leave, mayChangeRole
  <2> QED
    BY <1>r, <2>1
<1>4. ASSUME NEW n \in Nodes, openEntityRequest(n) PROVE MadeAlone'
  <2>1. /\ role' = role /\ entityRequestOpen' = [entityRequestOpen EXCEPT ![n] = TRUE]
        /\ wanted' = [wanted EXCEPT ![n] = {}] /\ early' = early \ {n}
    BY <1>4 DEF openEntityRequest
  <2>2. \A d \in Nodes : d # n => entityRequestOpen'[d] = entityRequestOpen[d] /\ wanted'[d] = wanted[d]
    BY <1>t, <2>1 DEF Own
  <2>3. wanted'[n] = {}
    BY <1>t, <2>1 DEF Own
  <2>4. CASE ~alone(n)
    <3>1. ecs' = ecs /\ openRequestId' = openRequestId
      BY <1>4, <2>4 DEF openEntityRequest
    <3> QED
      BY <1>t, <2>1, <2>2, <2>4, <3>1, MadeFrame DEF alone
  <2>5. CASE alone(n)
    <3>1. PICK m : m = created(ecs[n])
      OBVIOUS
    <3>2. PICK id : id = newId(ecs[n])
      OBVIOUS
    <3>3. ecs' = [ecs EXCEPT ![n] = m] /\ openRequestId' = [openRequestId EXCEPT ![n] = id]
      BY <1>4, <2>5, <3>1, <3>2 DEF openEntityRequest
    <3>4. ecs'[n] = m /\ \A d \in Nodes : d # n => ecs'[d] = ecs[d]
      BY <1>t, <3>3, OthersKept
    <3>5. openRequestId'[n] = id /\ \A d \in Nodes : d # n => openRequestId'[d] = openRequestId[d]
      BY <1>t, <3>3 DEF Own
    <3>6. id # 0 => m.mask[id] = {EXISTENCE}
      BY <1>t, <3>1, <3>2, CreatedSound
    <3> SUFFICES ASSUME NEW d \in Nodes, entityRequestOpen'[d], alone(d)', openRequestId'[d] # 0
                 PROVE  madeSoFar(ecs'[d].mask[openRequestId'[d]], wanted'[d], d \notin early')
      BY DEF MadeAlone
    <3>7. CASE d = n
      BY <2>3, <3>4, <3>5, <3>6, <3>7 DEF madeSoFar
    <3>8. CASE d # n
      BY <1>t, <2>1, <2>2, <3>4, <3>5, <3>8 DEF MadeAlone, madeSoFar, alone
    <3> QED
      BY <3>7, <3>8
  <2> QED
    BY <2>4, <2>5
<1>5. ASSUME NEW n \in Nodes, NEW c \in Comps, request(n, c) PROVE MadeAlone'
  <2>1. /\ UNCHANGED << role, entityRequestOpen, openRequestId >>
        /\ entityRequestOpen[n] /\ requested(n, c)
        /\ wanted' = [wanted EXCEPT ![n] = @ \union {c}]
        /\ early' = IF alone(n) /\ ~(Prereqs[c] \subseteq wanted[n]) THEN early \union {n} ELSE early
    BY <1>5 DEF request, requested
  <2>2. wanted'[n] = wanted[n] \union {c} /\ \A d \in Nodes : d # n => wanted'[d] = wanted[d]
    BY <1>t, <2>1 DEF Own
  <2>3. CASE ~alone(n)
    <3>1. ecs' = ecs
      BY <2>1, <2>3 DEF requested
    <3> QED
      BY <1>t, <2>1, <2>2, <2>3, <3>1, MadeFrame DEF alone
  <2>4. CASE alone(n)
    <3>1. PICK m : m = inserted(ecs[n], openRequestId[n], c)
      OBVIOUS
    <3>2. ecs' = [ecs EXCEPT ![n] = m]
      BY <2>1, <2>4, <3>1 DEF requested
    <3>3. ecs'[n] = m /\ \A d \in Nodes : d # n => ecs'[d] = ecs[d]
      BY <1>t, <3>2, OthersKept
    <3>4. openRequestId[n] # 0
             => madeSoFar(m.mask[openRequestId[n]], wanted[n] \union {c}, n \notin early')
      <4> SUFFICES ASSUME openRequestId[n] # 0
                   PROVE  madeSoFar(m.mask[openRequestId[n]], wanted[n] \union {c}, n \notin early')
        OBVIOUS
      <4>1. openRequestId[n] \in Ids /\ wanted[n] \in SUBSET Comps
        BY <1>t DEF Own
      <4>2. PICK w : w = ecs[n]
        OBVIOUS
      <4>3. PICK id \in Ids : id = openRequestId[n]
        BY <4>1
      <4>4. madeSoFar(w.mask[id], wanted[n], n \notin early)
        BY <1>t, <2>1, <2>4, <4>2, <4>3 DEF MadeAlone
      <4>5. m.mask[id] \in {w.mask[id], w.mask[id] \union {c}}
        BY <1>t, <3>1, <4>2, <4>3, AskedOrRefused
      <4>6. ASSUME n \notin early' PROVE m.mask[id] = {EXISTENCE} \union (wanted[n] \union {c})
        <5>1. n \notin early /\ Prereqs[c] \subseteq wanted[n]
          BY <2>1, <2>4, <4>6
        <5>2. w.mask[id] = {EXISTENCE} \union wanted[n]
          BY <4>4, <5>1 DEF madeSoFar
        <5>3. CASE c \in wanted[n]
          BY <4>5, <5>2, <5>3
        <5>4. CASE c \notin wanted[n]
          BY <1>t, <3>1, <4>1, <4>2, <4>3, <5>1, <5>2, <5>4, AskedIsAdded
        <5> QED
          BY <5>3, <5>4
      <4> QED
        BY <4>3, <4>4, <4>5, <4>6 DEF madeSoFar
    <3> SUFFICES ASSUME NEW d \in Nodes, entityRequestOpen'[d], alone(d)', openRequestId'[d] # 0
                 PROVE  madeSoFar(ecs'[d].mask[openRequestId'[d]], wanted'[d], d \notin early')
      BY DEF MadeAlone
    <3>5. CASE d = n
      BY <2>1, <2>2, <3>3, <3>4, <3>5
    <3>6. CASE d # n
      <4>1. madeSoFar(ecs[d].mask[openRequestId[d]], wanted[d], d \notin early)
        BY <1>t, <2>1, <3>6 DEF MadeAlone, alone
      <4>2. d \in early' <=> d \in early
        BY <2>1, <3>6
      <4> QED
        BY <2>1, <2>2, <3>3, <3>6, <4>1, <4>2 DEF madeSoFar
    <3> QED
      BY <3>5, <3>6
  <2> QED
    BY <2>3, <2>4
<1>5u. ASSUME NEW n \in Nodes, NEW c \in Comps, requestUnopened(n, c) PROVE MadeAlone'
  <2>1. /\ ~entityRequestOpen[n] /\ requested(n, c) /\ UNCHANGED << wanted, early >>
        /\ UNCHANGED << role, entityRequestOpen, openRequestId >>
    BY <1>5u DEF requestUnopened, requested
  <2>2. CASE ~alone(n)
    <3>1. ecs' = ecs
      BY <2>1, <2>2 DEF requested
    <3> QED
      BY <1>t, <2>1, <3>1, MadeFrame DEF alone
  <2>3. CASE alone(n)
    <3>1. \E m : ecs' = [ecs EXCEPT ![n] = m]
      BY <2>1, <2>3 DEF requested
    <3> QED
      BY <1>s, <2>1, <3>1
  <2> QED
    BY <2>2, <2>3
<1>6. ASSUME NEW n \in Nodes, closeEntityRequestAlone(n) PROVE MadeAlone'
  <2>1. ecs' = ecs /\ closes(n)
    BY <1>6 DEF closeEntityRequestAlone
  <2> QED
    BY <1>t, <1>c, <2>1, MadeFrame DEF alone
<1>7. CASE closeEntityRequestServer
  <2>1. /\ ~alone(server) /\ closes(server)
        /\ \E m : ecs' = [ecs EXCEPT ![server] = m]
    BY <1>7 DEF closeEntityRequestServer, alone
  <2> QED
    BY <1>c, <1>s, <2>1
<1>8. ASSUME NEW n \in Clients, closeEntityRequestClient(n) PROVE MadeAlone'
  <2>1. ecs' = ecs /\ closes(n)
    BY <1>8 DEF closeEntityRequestClient
  <2> QED
    BY <1>t, <1>c, <2>1, MadeFrame DEF alone
<1>9. ASSUME NEW n \in Nodes, NEW mask \in {x \in SUBSET Comps : closed(x \union {EXISTENCE})},
             makeManualEntity(n, mask)
      PROVE  MadeAlone'
  <2>1. /\ newId(ecs[n]) # 0
        /\ ecs' = [ecs EXCEPT ![n] = [created(ecs[n]) EXCEPT !.mask[newId(ecs[n])] = turnOnFlags(@, mask)]]
        /\ UNCHANGED << role, entityRequestOpen, openRequestId, wanted, early >>
    BY <1>9 DEF makeManualEntity, nodeVars, requestVars
  <2>2. PICK m : m = withEntity(ecs[n], mask)
    OBVIOUS
  <2>3. ecs' = [ecs EXCEPT ![n] = m]
    BY <1>t, <2>1, <2>2, ManualEntity
  <2>4. entityRequestOpen[n] /\ alone(n) /\ openRequestId[n] # 0
           => m.mask[openRequestId[n]] = ecs[n].mask[openRequestId[n]]
    <3> SUFFICES ASSUME entityRequestOpen[n], alone(n), openRequestId[n] # 0
                 PROVE  m.mask[openRequestId[n]] = ecs[n].mask[openRequestId[n]]
      OBVIOUS
    <3>1. openRequestId[n] \in Ids
      BY <1>t DEF Own
    <3>2. ecs[n].mask[openRequestId[n]] # {}
      BY <1>t DEF MadeAlone, madeSoFar
    <3>3. ecs[n].mask[newId(ecs[n])] = {}
      BY <1>t, <2>1, NewIdFree
    <3>4. openRequestId[n] # newId(ecs[n])
      BY <3>2, <3>3
    <3> QED
      BY <2>2, <3>1, <3>4 DEF withEntity
  <2> QED
    BY <1>s, <2>1, <2>3, <2>4
<1>10. ASSUME NEW id \in unsent, broadcastManualEntity(id) PROVE MadeAlone'
  BY <1>u, <1>10 DEF broadcastManualEntity
<1>11. ASSUME NEW n \in Nodes, NEW id \in Ids, requestEntityDeletion(n, id) PROVE MadeAlone'
  <2>1. /\ ~entityRequestOpen[n] /\ UNCHANGED << role, entityRequestOpen, openRequestId, wanted, early >>
        /\ \E m : ecs' = [ecs EXCEPT ![n] = m]
    BY <1>p, <1>11 DEF requestEntityDeletion, maySend, requestVars
  <2> QED
    BY <1>s, <2>1
<1>12. ASSUME NEW c \in Clients, receiveRequest(c) PROVE MadeAlone'
  <2>1. /\ UNCHANGED << role, entityRequestOpen, openRequestId, wanted, early >> /\ toServer[c] # << >>
        /\ \E m : ecs' = [ecs EXCEPT ![server] = m]
    BY <1>12 DEF receiveRequest, takeRequest, nodeVars, requestVars
  <2>2. ~alone(server)
    BY <1>t, <2>1 DEF Asked
  <2> QED
    BY <1>s, <2>1, <2>2
<1>13. ASSUME NEW c \in Clients, receiveUpdate(c) PROVE MadeAlone'
  <2>1. /\ UNCHANGED << role, entityRequestOpen, openRequestId, wanted, early >> /\ toClient[c] # << >>
        /\ \E m : ecs' = [ecs EXCEPT ![c] = m]
    BY <1>13 DEF receiveUpdate, takeUpdate, nodeVars, requestVars
  <2>2. ~alone(c)
    BY <1>t, <2>1 DEF Separate, alone
  <2> QED
    BY <1>s, <2>1, <2>2
<1>14. CASE UNCHANGED vars
  BY <1>u, <1>14 DEF vars, nodeVars
<1> QED
  BY <1>1, <1>2, <1>3, <1>4, <1>5, <1>5u, <1>6, <1>7, <1>8, <1>9, <1>10, <1>11, <1>12, <1>13, <1>14
  DEF Next

\* Every step keeps what the requests need.
LEMMA RequestsKept ==
    ASSUME Promises, AsksOnce
    PROVE  RequestInv /\ [Next]_vars => RequestInv'
<1> SUFFICES ASSUME RequestInv, [Next]_vars PROVE RequestInv'
  OBVIOUS
<1>1. TypeInv /\ StreamsOnce /\ Quiet /\ Separate /\ RoleKept
  BY DEF RequestInv, Promises
<1>2. TypeInv' /\ StreamsOnce'
  BY <1>1, TypesKept, StreamsKept
<1>3. Quiet' /\ Separate'
  BY <1>1, QuietKept, SeparateKept
<1>4. Asked' /\ MadeAlone'
  BY AskedKept, MadeKept
<1> QED
  BY <1>2, <1>3, <1>4 DEF RequestInv

\* Only a step that handles the next packet from a client takes it away.
LEMMA OnlyReceiving ==
    ASSUME TypeInv, [Next]_vars, NEW c \in Clients, toServer[c] # << >>,
           toServer'[c] = Tail(toServer[c]), role' = role
    PROVE  receiveRequest(c)
<1> USE ServerIsNode
<1>t. Own /\ Wire
  BY DEF TypeInv
<1>0. PICK q \in Seq(Packet) : q = toServer[c]
  BY <1>t DEF Wire
<1>1. Len(Tail(q)) < Len(q) /\ Len(q) \in Nat
  BY <1>0
<1>2. toServer'[c] # toServer[c] /\ \A x : toServer'[c] # Append(toServer[c], x)
  <2>1. \A x : Len(Append(q, x)) = Len(q) + 1
    OBVIOUS
  <2>2. Tail(q) # q /\ \A x : Tail(q) # Append(q, x)
    BY <1>1, <2>1
  <2> QED
    BY <1>0, <2>2
<1>3. ASSUME UNCHANGED toServer PROVE FALSE
  BY <1>2, <1>3
<1>4. ASSUME NEW n \in Clients, leave(n) PROVE FALSE
  <2>1. role[n] = "CLIENT" /\ role' = [role EXCEPT ![n] = "NONE"]
    BY <1>4 DEF leave
  <2>2. role'[n] = "NONE"
    BY <1>t, <2>1 DEF Own
  <2> QED
    BY <2>1, <2>2
<1>5. ASSUME NEW n \in Clients, closeEntityRequestClient(n) PROVE FALSE
  <2>1. PICK x : toServer' = [toServer EXCEPT ![n] = Append(@, x)]
    BY <1>5 DEF closeEntityRequestClient
  <2>2. toServer'[c] = toServer[c] \/ toServer'[c] = Append(toServer[c], x)
    BY <1>t, <2>1 DEF Wire
  <2> QED
    BY <1>2, <2>2
<1>6. ASSUME NEW n \in Clients, receiveRequest(n) PROVE n = c
  <2>1. toServer' = [toServer EXCEPT ![n] = Tail(@)]
    BY <1>6 DEF receiveRequest, takeRequest
  <2>2. n # c => toServer'[c] = toServer[c]
    BY <1>t, <2>1 DEF Wire
  <2> QED
    BY <1>2, <2>2
<1>7. ASSUME NEW n \in Nodes,
             \/ openEntityRequest(n) \/ \E d \in Comps : request(n, d) \/ requestUnopened(n, d)
             \/ closeEntityRequestAlone(n) \/ \E mask : makeManualEntity(n, mask)
             \/ \E id \in Ids : requestEntityDeletion(n, id)
      PROVE  FALSE
  BY <1>3, <1>7 DEF openEntityRequest, request, requestUnopened, requested, closeEntityRequestAlone,
                    makeManualEntity, requestEntityDeletion
<1>8. ASSUME \/ host \/ closeEntityRequestServer \/ UNCHANGED vars
             \/ \E n \in Clients : join(n) \/ receiveUpdate(n)
             \/ \E id \in unsent : broadcastManualEntity(id)
      PROVE  FALSE
  BY <1>3, <1>8 DEF host, closeEntityRequestServer, vars, join, receiveUpdate, broadcastManualEntity
<1> QED
  BY <1>4, <1>5, <1>6, <1>7, <1>8 DEF Next

\* Only a step that closes a request ends it.
LEMMA OnlyClosing ==
    ASSUME TypeInv, [Next]_vars, NEW n \in Nodes, entityRequestOpen[n], ~entityRequestOpen'[n]
    PROVE  \/ closeEntityRequestAlone(n)
           \/ n = server /\ closeEntityRequestServer
           \/ n \in Clients /\ closeEntityRequestClient(n)
<1> SUFFICES ASSUME ~closeEntityRequestAlone(n), ~(n = server /\ closeEntityRequestServer),
                    ~(n \in Clients /\ closeEntityRequestClient(n))
             PROVE  FALSE
  OBVIOUS
<1> USE ServerIsNode
<1>t. Own
  BY DEF TypeInv
<1>1. ASSUME UNCHANGED entityRequestOpen PROVE FALSE
  BY <1>1
<1>2. ASSUME NEW d \in Nodes, closes(d) PROVE d = n
  BY <1>t, <1>2 DEF closes, Own
<1>3. ASSUME NEW d \in Nodes, openEntityRequest(d) PROVE FALSE
  <2>1. entityRequestOpen' = [entityRequestOpen EXCEPT ![d] = TRUE]
    BY <1>3 DEF openEntityRequest
  <2> QED
    BY <1>t, <2>1 DEF Own
<1>4. ASSUME NEW d \in Nodes, closeEntityRequestAlone(d) PROVE FALSE
  BY <1>2, <1>4 DEF closeEntityRequestAlone
<1>5. ASSUME closeEntityRequestServer PROVE FALSE
  BY <1>2, <1>5 DEF closeEntityRequestServer
<1>6. ASSUME NEW d \in Clients, closeEntityRequestClient(d) PROVE FALSE
  BY <1>2, <1>6 DEF closeEntityRequestClient
<1>7. ASSUME \/ host \/ UNCHANGED vars
             \/ \E c \in Clients : join(c) \/ leave(c) \/ receiveUpdate(c) \/ receiveRequest(c)
             \/ \E id \in unsent : broadcastManualEntity(id)
      PROVE  FALSE
  BY <1>1, <1>7 DEF host, vars, nodeVars, requestVars, join, leave, receiveUpdate, receiveRequest,
                    broadcastManualEntity
<1>8. ASSUME NEW d \in Nodes,
             \/ \E c \in Comps : request(d, c) \/ requestUnopened(d, c)
             \/ \E mask : makeManualEntity(d, mask)
             \/ \E id \in Ids : requestEntityDeletion(d, id)
      PROVE  FALSE
  BY <1>1, <1>8 DEF request, requestUnopened, requested, makeManualEntity, requestEntityDeletion,
                    nodeVars, requestVars
<1> QED
  BY <1>3, <1>4, <1>5, <1>6, <1>7, <1>8 DEF Next

\* A request is fulfilled as the game asked, by the server or by a program
\* that is alone.
LEMMA StepFulfils ==
    ASSUME EveryTypeSerialized, NoArgs = {}
    PROVE  RequestInv /\ [Next]_vars => fulfilsRequests
<1> SUFFICES ASSUME RequestInv, [Next]_vars PROVE fulfilsRequests
  OBVIOUS
<1> USE ServerIsNode
<1>t. /\ TypeInv /\ Own /\ Wire /\ Whole /\ StreamsOnce /\ Asked /\ MadeAlone
      /\ \A n \in Nodes : Sound(ecs[n])
  BY SoundAt DEF RequestInv, TypeInv
<1>1. ASSUME NEW c \in Clients, toServer[c] # << >>, toServer'[c] = Tail(toServer[c]), role' = role
      PROVE  made(ecs'[server], newId(ecs[server]), Head(toServer[c])[1].asked)
  <2>1. receiveRequest(c)
    BY <1>t, <1>1, OnlyReceiving
  <2>2. PICK msg : msg = Head(toServer[c])[1]
    OBVIOUS
  <2>3. PICK b : b = ecs[server]
    OBVIOUS
  <2>4. PICK m \in readInto(created(b), newId(b), msg.payload) : ecs' = [ecs EXCEPT ![server] = m]
    BY <2>1, <2>2, <2>3 DEF receiveRequest
  <2>5. msg \in Message /\ Head(toServer[c]) = toServer[c][1]
    BY <1>t, <1>1, <2>2, FirstMessage DEF Wire
  <2>6. msg.payload = writtenFromStreams(streamsOf(msg.asked))
    <3>1. Asks(toServer[c]) /\ toServer[c] \in Seq(Packet)
      BY <1>t DEF Asked, Wire
    <3>2. 1 \in 1 .. Len(toServer[c])
      BY <1>1, <3>1
    <3> QED
      BY <2>2, <2>5, <3>1, <3>2 DEF Asks
  <2>7. msg.asked \in SUBSET Comps /\ Sound(b)
    BY <1>t, <2>3, <2>5 DEF Message
  <2>8. made(m, newId(b), msg.asked)
    BY <2>4, <2>6, <2>7, MadeAsAsked
  <2>9. ecs'[server] = m
    BY <1>t, <2>4, OthersKept
  <2> QED
    BY <2>2, <2>3, <2>8, <2>9
<1>2. ASSUME NEW n \in Nodes, entityRequestOpen[n], ~entityRequestOpen'[n]
      PROVE  /\ role[n] = "SERVER" => made(ecs'[n], newId(ecs[n]), wanted[n])
             /\ alone(n) => madeAlone(ecs'[n], openRequestId[n], wanted[n], n \notin early)
  <2>1. CASE closeEntityRequestAlone(n)
    <3>1. alone(n) /\ ecs' = ecs
      BY <2>1 DEF closeEntityRequestAlone
    <3>2. openRequestId[n] # 0 => madeSoFar(ecs[n].mask[openRequestId[n]], wanted[n], n \notin early)
      BY <1>t, <1>2, <3>1 DEF MadeAlone
    <3> QED
      BY <3>1, <3>2 DEF madeAlone, madeSoFar, alone
  <2>2. CASE n = server /\ closeEntityRequestServer
    <3>1. PICK b : b = ecs[server]
      OBVIOUS
    <3>2. PICK asked : asked = wanted[server]
      OBVIOUS
    <3>3. ~alone(server) /\ \E m \in readInto(created(b), newId(b), writtenFromStreams(compStreams[server])) :
             ecs' = [ecs EXCEPT ![server] = m]
      BY <2>2, <3>1 DEF closeEntityRequestServer, alone
    <3>4. compStreams[server] = streamsOf(asked)
      <4>1. \A c \in Comps : compStreams[server][c] = IF c \in asked THEN ctorArgs(c) ELSE << >>
        BY <1>t, <1>2, <2>2, <3>2, <3>3 DEF StreamsOnce
      <4>2. compStreams[server] = [c \in Comps |-> compStreams[server][c]]
        BY <1>t DEF Own
      <4> QED
        BY <4>1, <4>2 DEF streamsOf
    <3>5. PICK m \in readInto(created(b), newId(b), writtenFromStreams(streamsOf(asked))) :
             ecs' = [ecs EXCEPT ![server] = m]
      BY <3>3, <3>4
    <3>6. asked \in SUBSET Comps /\ Sound(b)
      BY <1>t, <3>1, <3>2 DEF Own
    <3>7. made(m, newId(b), asked)
      BY <3>5, <3>6, MadeAsAsked
    <3>8. ecs'[server] = m
      BY <1>t, <3>5, OthersKept
    <3> QED
      BY <2>2, <3>1, <3>2, <3>3, <3>7, <3>8
  <2>3. CASE n \in Clients /\ closeEntityRequestClient(n)
    BY <1>2, <2>3 DEF closeEntityRequestClient, alone
  <2> QED
    BY <1>t, <1>2, <2>1, <2>2, <2>3, OnlyClosing
<1> QED
  BY <1>1, <1>2 DEF fulfilsRequests

\* "The server fulfills it": as long as the game keeps its promises and asks for
\* a component once in a request, every type is serialized and has a constructor
\* with arguments, the entity of a request that a server fulfils gets the
\* components that the game asked for, no fewer and no more, in whatever order it
\* asked.  The entity that a program makes alone never gets more, and gets all of
\* them if the game asked for each after its prerequisites.
THEOREM EveryRequestFulfilled ==
    ASSUME EveryTypeSerialized, NoArgs = {}, Promises, AsksOnce
    PROVE  Spec => RequestsFulfilled
<1>1. RequestInv /\ [Next]_vars => RequestInv'
  BY RequestsKept
<1>2. RequestInv /\ [Next]_vars => [fulfilsRequests]_vars
  BY StepFulfils
<1> QED
  BY <1>1, <1>2, InitAsked, PTL DEF Spec, RequestsFulfilled

--------------------------------------------------------------------------
(* The components that a message brings *)

rangeOf(q) == {q[i] : i \in 1 .. Len(q)}

\* What is in a concatenation is in one of its parts.
LEMMA RangeConcat ==
    ASSUME NEW S, NEW p \in Seq(S), NEW q \in Seq(S)
    PROVE  rangeOf(p \o q) = rangeOf(p) \union rangeOf(q)
<1> DEFINE a == Len(p)
           b == Len(q)
<1>0. PICK r : r = p \o q
  OBVIOUS
<1>1. a \in Nat /\ b \in Nat
  OBVIOUS
<1>2. /\ Len(r) = a + b
      /\ \A i \in 1 .. a + b : r[i] = IF i <= a THEN p[i] ELSE q[i - a]
  BY <1>0, ConcatProperties
<1> HIDE DEF a, b
<1>3. ASSUME NEW i \in 1 .. a + b PROVE r[i] \in rangeOf(p) \union rangeOf(q)
  <2>1. CASE i <= a
    <3>1. i \in 1 .. a /\ r[i] = p[i]
      BY <1>1, <1>2, <2>1
    <3> QED
      BY <3>1 DEF rangeOf, a
  <2>2. CASE ~(i <= a)
    <3>1. i - a \in 1 .. b /\ r[i] = q[i - a]
      BY <1>1, <1>2, <2>2
    <3> QED
      BY <3>1 DEF rangeOf, b
  <2> QED
    BY <2>1, <2>2
<1>4. ASSUME NEW i \in 1 .. a PROVE p[i] \in rangeOf(r)
  <2>1. i \in 1 .. a + b /\ r[i] = p[i]
    BY <1>1, <1>2
  <2> QED
    BY <1>2, <2>1 DEF rangeOf
<1>5. ASSUME NEW i \in 1 .. b PROVE q[i] \in rangeOf(r)
  <2>1. PICK j \in 1 .. a + b : j = a + i
    BY <1>1
  <2>2. ~(j <= a) /\ j - a = i
    BY <1>1, <2>1
  <2>3. r[j] = q[i]
    BY <1>2, <2>2
  <2> QED
    BY <1>2, <2>3 DEF rangeOf
<1>6. rangeOf(r) \subseteq rangeOf(p) \union rangeOf(q)
  BY <1>2, <1>3 DEF rangeOf
<1>7. rangeOf(p) \subseteq rangeOf(r)
  <2> SUFFICES ASSUME NEW x \in rangeOf(p) PROVE x \in rangeOf(r)
    OBVIOUS
  <2>1. PICK i \in 1 .. a : x = p[i]
    BY DEF rangeOf, a
  <2> QED
    BY <1>4, <2>1
<1>8. rangeOf(q) \subseteq rangeOf(r)
  <2> SUFFICES ASSUME NEW x \in rangeOf(q) PROVE x \in rangeOf(r)
    OBVIOUS
  <2>1. PICK i \in 1 .. b : x = q[i]
    BY DEF rangeOf, b
  <2> QED
    BY <1>5, <2>1
<1> QED
  BY <1>0, <1>6, <1>7, <1>8

\* What is written holds the tokens of all pieces.
LEMMA WrittenRange ==
    ASSUME NEW piece \in [Comps -> Seq(Token)]
    PROVE  rangeOf(inSerialOrder(piece))
               = UNION {rangeOf(piece[SerialOrder[j]]) : j \in 1 .. serials}
<1> DEFINE n == serials
           T(i) == UNION {rangeOf(piece[SerialOrder[j]]) : j \in i + 1 .. n}
<1>1. PICK s \in [0 .. n -> Seq(Token)] : Follows(s, piece) /\ s[0] = inSerialOrder(piece)
  BY WrittenFollows
<1>2. n \in Nat /\ \A i \in 1 .. n : SerialOrder[i] \in Comps
  BY SerialParts
<1>3. s[n] = << >> /\ \A i \in 1 .. n : s[i - 1] = piece[SerialOrder[i]] \o s[i]
  BY <1>1 DEF Follows
<1> HIDE DEF n
<1> DEFINE P == {k \in Nat : k <= n => rangeOf(s[n - k]) = T(n - k)}
<1>4. 0 \in P
  <2>1. n - 0 = n /\ n + 1 .. n = {} /\ Len(<< >>) = 0
    BY <1>2
  <2>2. rangeOf(s[n]) = {} /\ T(n) = {}
    BY <1>3, <2>1 DEF rangeOf
  <2> QED
    BY <2>1, <2>2
<1>5. ASSUME NEW k \in Nat, k \in P PROVE k + 1 \in P
  <2> SUFFICES ASSUME k + 1 <= n PROVE rangeOf(s[n - (k + 1)]) = T(n - (k + 1))
    OBVIOUS
  <2>1. PICK i \in 1 .. n : i = n - k /\ i - 1 = n - (k + 1)
    BY <1>2
  <2>2. rangeOf(s[i]) = T(i)
    BY <1>2, <1>5, <2>1
  <2>3. s[i - 1] = piece[SerialOrder[i]] \o s[i]
    BY <1>3
  <2>4. piece[SerialOrder[i]] \in Seq(Token) /\ s[i] \in Seq(Token)
    BY <1>2
  <2>5. rangeOf(s[i - 1]) = rangeOf(piece[SerialOrder[i]]) \union T(i)
    BY <2>2, <2>3, <2>4, RangeConcat
  <2>6. i - 1 + 1 .. n = {i} \union (i + 1 .. n)
    BY <1>2
  <2>7. T(i - 1) = rangeOf(piece[SerialOrder[i]]) \union T(i)
    BY <2>6
  <2> QED
    BY <2>1, <2>5, <2>7
<1> HIDE DEF P
<1>6. \A k \in Nat : k \in P
  BY <1>4, <1>5, SetInduction
<1>7. PICK k \in Nat : k = n
  BY <1>2
<1>8. n - k = 0 /\ k <= n /\ 0 + 1 .. n = 1 .. n
  BY <1>2, <1>7
<1>9. rangeOf(s[0]) = T(0)
  <2>1. rangeOf(s[n - k]) = T(n - k)
    BY <1>6, <1>8 DEF P
  <2> QED
    BY <1>8, <2>1
<1> QED
  BY <1>1, <1>8, <1>9 DEF n

\* The operation of a creation message is the creation of the components of
\* the entity that was written into it.
LEMMA OperationBrings ==
    ASSUME EveryTypeSerialized, NoArgs = {}, NEW k \in SUBSET Comps, NEW msg, msg.op # "destroy",
           msg.payload = writtenFromEntity({EXISTENCE} \union k)
    PROVE  operationOf(msg) = [op |-> "create", comps |-> k, id |-> 0]
<1> DEFINE piece == pieceOf({EXISTENCE} \union k)
           R == {msg.payload[i] : i \in DOMAIN msg.payload}
<1>1. msg.payload = inSerialOrder(piece)
  BY DEF writtenFromEntity, pieceOf
<1>2. piece \in [Comps -> Seq(Token)]
  BY PieceOfTokens
<1>3. msg.payload \in Seq(Token)
  BY EntityTokens
<1>4. R = rangeOf(msg.payload)
  <2>1. PICK q \in Seq(Token) : q = msg.payload
    BY <1>3
  <2>2. DOMAIN q = 1 .. Len(q)
    OBVIOUS
  <2> QED
    BY <2>1, <2>2 DEF rangeOf
<1>5. \A c \in Comps : rangeOf(piece[c]) = IF c \in k THEN {Yes, Fields(c)} ELSE {No}
  <2> TAKE c \in Comps
  <2>1. c # EXISTENCE
    BY CompsAssumption
  <2>2. CASE c \in k
    <3>1. piece[c] = << Yes, Fields(c) >>
      BY <2>2 DEF pieceOf
    <3>2. PICK q : q = piece[c]
      OBVIOUS
    <3>3. Len(q) = 2 /\ q[1] = Yes /\ q[2] = Fields(c)
      BY <3>1, <3>2
    <3>4. \A i : i \in 1 .. 2 <=> i = 1 \/ i = 2
      OBVIOUS
    <3>5. rangeOf(q) = {Yes, Fields(c)}
      BY <3>3, <3>4 DEF rangeOf
    <3> QED
      BY <2>2, <3>2, <3>5
  <2>3. CASE c \notin k
    <3>1. piece[c] = << No >>
      BY <2>1, <2>3 DEF pieceOf
    <3>2. PICK q : q = piece[c]
      OBVIOUS
    <3>3. Len(q) = 1 /\ q[1] = No
      BY <3>1, <3>2
    <3>4. \A i : i \in 1 .. 1 <=> i = 1
      OBVIOUS
    <3>5. rangeOf(q) = {No}
      BY <3>3, <3>4 DEF rangeOf
    <3> QED
      BY <2>3, <3>2, <3>5
  <2> QED
    BY <2>2, <2>3
<1>6. \A c \in Comps : Fields(c) # Yes /\ Fields(c) # No /\ Fields(c).value = c
  <2>1. \A c \in Comps : Fields(c).kind = "fields" /\ Fields(c).value = c
    BY DEF Fields
  <2>2. Yes.kind = "bit" /\ No.kind = "bit"
    BY DEF Yes, No
  <2> QED
    BY <2>1, <2>2
<1> HIDE DEF piece
<1>7. rangeOf(msg.payload) = UNION {rangeOf(piece[SerialOrder[j]]) : j \in 1 .. serials}
  BY <1>1, <1>2, WrittenRange
<1>8. \A j \in 1 .. serials : SerialOrder[j] \in Comps
  BY SerialParts
<1>9. R \ {Yes, No} = {Fields(c) : c \in k}
  <2>1. ASSUME NEW t \in R, t # Yes, t # No PROVE t \in {Fields(c) : c \in k}
    <3>0. t \in rangeOf(msg.payload)
      BY <1>4, <2>1
    <3>1. PICK j \in 1 .. serials : t \in rangeOf(piece[SerialOrder[j]])
      <4> HIDE DEF R
      <4> QED
        BY <1>7, <3>0
    <3>2. PICK c \in Comps : c = SerialOrder[j]
      BY <1>8
    <3>3. c \in k /\ t = Fields(c)
      BY <1>5, <2>1, <3>1, <3>2
    <3> QED
      BY <3>3
  <2>2. ASSUME NEW c \in k PROVE Fields(c) \in R /\ Fields(c) # Yes /\ Fields(c) # No
    <3>1. PICK j \in 1 .. serials : SerialOrder[j] = c
      BY <2>2 DEF EveryTypeSerialized
    <3>2. Fields(c) \in rangeOf(piece[SerialOrder[j]])
      BY <1>5, <2>2, <3>1
    <3>3. Fields(c) \in rangeOf(msg.payload)
      BY <1>7, <3>2
    <3> QED
      BY <1>4, <1>6, <2>2, <3>3
  <2> HIDE DEF R
  <2> QED
    BY <2>1, <2>2
<1>10. {t.value : t \in R \ {Yes, No}} = k
  <2> HIDE DEF R
  <2> QED
    BY <1>6, <1>9
<1> QED
  BY <1>10 DEF operationOf

\* A message that brings nothing is the creation of a bare entity.
LEMMA OperationBare ==
    ASSUME NEW msg, msg.op # "destroy", msg.payload = << >>
    PROVE  operationOf(msg) = [op |-> "create", comps |-> {}, id |-> 0]
<1>1. DOMAIN << >> = {}
  OBVIOUS
<1> QED
  BY <1>1 DEF operationOf

--------------------------------------------------------------------------
(* The history *)

\* The history speaks of the same ids and the same States.
LEMMA SameMachine ==
    /\ History!Ids = Ids /\ History!emptyMachine = emptyMachine
    /\ \A x : History!closed(x) <=> closed(x)
    /\ \A m : History!newId(m) = newId(m) /\ History!created(m) = created(m)
    /\ \A m, id : History!deleted(m, id) = deleted(m, id)
<1>1. History!Ids = Ids
  BY DEF History!Ids, Ids
<1>2. History!emptyMachine = emptyMachine
  BY <1>1 DEF History!emptyMachine, emptyMachine
<1>3. \A x : History!closed(x) <=> closed(x)
  BY DEF History!closed, closed, History!requiredComps, requiredComps
<1>4. \A m : History!newId(m) = newId(m)
  BY DEF History!newId, newId, History!outOfIds, outOfIds, History!newIdFrom, newIdFrom
<1>5. \A m : History!created(m) = created(m)
  BY <1>1, <1>4 DEF History!created, created, History!nextIdAfter, nextIdAfter,
                    History!freedIdsAfter, freedIdsAfter
<1>6. \A m, id : History!deleted(m, id) = deleted(m, id)
  BY <1>1 DEF History!deleted, deleted, History!lives, lives, History!getComponents, getComponents,
              History!pushFreed, pushFreed
<1> QED
  BY <1>1, <1>2, <1>3, <1>4, <1>5, <1>6

\* What a message leads to is what its operation does.
LEMMA LeadsPerform ==
    ASSUME EveryTypeSerialized, NoArgs = {}, NEW m, Sound(m), NEW msg, NEW w, Leads(m, msg, w)
    PROVE  operationOf(msg) \in History!Operations /\ w = History!perform(m, operationOf(msg))
<1>1. CASE msg.op = "destroy"
  <2>1. msg.id \in Ids /\ w = deleted(m, msg.id)
    BY <1>1 DEF Leads
  <2>2. PICK o : o = operationOf(msg)
    OBVIOUS
  <2>3. o = [op |-> "destroy", comps |-> {}, id |-> msg.id]
    BY <1>1, <2>2 DEF operationOf
  <2>4. o \in History!Operations
    BY <2>1, <2>3, SameMachine DEF History!Operations, History!deletion
  <2>5. History!perform(m, o) = deleted(m, msg.id)
    BY <2>3, SameMachine DEF History!perform
  <2> QED
    BY <2>1, <2>2, <2>4, <2>5
<1>2. CASE msg.op = "create"
  <2>1. PICK k : msg.id = newId(m) /\ Creates(m, msg, k, w)
    BY <1>2 DEF Leads
  <2>2. k \in SUBSET Comps /\ closed({EXISTENCE} \union k) /\ w = withEntity(m, k)
    BY <2>1 DEF Creates
  <2>3. PICK j : j = IF newId(m) = 0 THEN {} ELSE k
    OBVIOUS
  <2>4. j \in SUBSET Comps /\ closed({EXISTENCE} \union j)
    BY <2>2, <2>3, CreatedIsEntity
  <2>5. PICK o : o = operationOf(msg)
    OBVIOUS
  <2>6. o = [op |-> "create", comps |-> j, id |-> 0]
    <3>1. CASE newId(m) = 0
      BY <1>2, <2>1, <2>3, <2>5, <3>1, OperationBare DEF Creates
    <3>2. CASE newId(m) # 0
      BY <1>2, <2>1, <2>2, <2>3, <2>5, <3>2, OperationBrings DEF Creates
    <3> QED
      BY <3>1, <3>2
  <2>7. o \in History!Operations
    BY <2>4, <2>6, SameMachine DEF History!Operations, History!creation
  <2>8. w = withEntity(m, j)
    <3>1. CASE newId(m) = 0
      BY <2>2, <2>3, <3>1, NewIdFree DEF withEntity
    <3>2. CASE newId(m) # 0
      BY <2>2, <2>3, <3>2
    <3> QED
      BY <3>1, <3>2
  <2>9. History!perform(m, o) = withEntity(m, j)
    <3>1. o.op = "create" /\ o.comps = j
      BY <2>6
    <3>2. PICK x : x = [id \in Ids |-> IF id = newId(m) THEN {EXISTENCE} \union j ELSE m.mask[id]]
      OBVIOUS
    <3>3. History!perform(m, o) = [created(m) EXCEPT !.mask = x]
      BY <3>1, <3>2, SameMachine DEF History!perform
    <3>4. [created(m) EXCEPT !.mask = x] = withEntity(m, j)
      <4>1. PICK u, v, y : created(m) = [nextId |-> u, freedIds |-> v, mask |-> y]
                           /\ withEntity(m, j) = [nextId |-> u, freedIds |-> v, mask |-> x]
        BY <3>2 DEF created, withEntity
      <4>2. [[nextId |-> u, freedIds |-> v, mask |-> y] EXCEPT !.mask = x]
                = [nextId |-> u, freedIds |-> v, mask |-> x]
        OBVIOUS
      <4> QED
        BY <4>1, <4>2
    <3> QED
      BY <3>3, <3>4
  <2> QED
    BY <2>5, <2>7, <2>8, <2>9
<1> QED
  BY <1>1, <1>2 DEF Leads

\* The operations that a queue of packets stands for.
pendingOf(q) == [i \in DOMAIN q |-> operationOf(q[i][1])]

\* One more packet is one more operation.
LEMMA PendingAppend ==
    ASSUME NEW q \in Seq(Packet), NEW packet \in Packet
    PROVE  pendingOf(Append(q, packet)) = Append(pendingOf(q), operationOf(packet[1]))
<1> DEFINE S == {operationOf(p[1]) : p \in Packet}
           n == Len(q)
<1>0. PICK r : r = Append(q, packet)
  OBVIOUS
<1>1. r \in Seq(Packet) /\ n \in Nat /\ Len(r) = n + 1 /\ r[n + 1] = packet
      /\ \A i \in 1 .. n : r[i] = q[i]
  BY <1>0
<1>2. DOMAIN q = 1 .. n /\ DOMAIN r = 1 .. n + 1
  BY <1>1
<1>p. PICK a : a = pendingOf(q)
  OBVIOUS
<1>b. PICK b : b = pendingOf(r)
  OBVIOUS
<1>o. PICK o \in S : o = operationOf(packet[1])
  OBVIOUS
<1>3. a \in Seq(S) /\ Len(a) = n /\ \A i \in 1 .. n : a[i] = operationOf(q[i][1])
  <2>1. a \in [1 .. n -> S] /\ \A i \in 1 .. n : a[i] = operationOf(q[i][1])
    BY <1>2, <1>p DEF pendingOf
  <2> HIDE DEF S, n
  <2> QED
    BY <1>1, <2>1
<1>4. b \in Seq(S) /\ Len(b) = n + 1 /\ \A i \in 1 .. n + 1 : b[i] = operationOf(r[i][1])
  <2>1. b \in [1 .. n + 1 -> S] /\ \A i \in 1 .. n + 1 : b[i] = operationOf(r[i][1])
    <3>1. \A i \in 1 .. n + 1 : r[i] \in Packet
      BY <1>1
    <3> QED
      BY <1>2, <1>b, <3>1 DEF pendingOf
  <2> HIDE DEF S, n
  <2> QED
    BY <1>1, <2>1
<1> HIDE DEF S, n
<1>5. b = Append(a, o)
  <2>1. PICK l : l = Append(a, o)
    OBVIOUS
  <2>2. l \in Seq(S) /\ Len(l) = n + 1 /\ l[n + 1] = o /\ \A i \in 1 .. n : l[i] = a[i]
    BY <1>3, <2>1
  <2>3. \A i \in 1 .. n + 1 : b[i] = l[i]
    <3> TAKE i \in 1 .. n + 1
    <3>1. CASE i = n + 1
      BY <1>1, <1>4, <1>o, <2>2, <3>1
    <3>2. CASE i # n + 1
      <4>1. i \in 1 .. n
        BY <1>1, <3>2
      <4> QED
        BY <1>1, <1>3, <1>4, <2>2, <4>1
    <3> QED
      BY <3>1, <3>2
  <2>4. b = l
    BY <1>4, <2>2, <2>3, SeqEqual
  <2> QED
    BY <2>1, <2>4
<1> QED
  BY <1>0, <1>5, <1>p, <1>b, <1>o

\* The first packet is the first operation.
LEMMA PendingTail ==
    ASSUME NEW q \in Seq(Packet), q # << >>
    PROVE  /\ pendingOf(q) # << >> /\ Head(pendingOf(q)) = operationOf(Head(q)[1])
           /\ pendingOf(Tail(q)) = Tail(pendingOf(q))
<1> DEFINE S == {operationOf(p[1]) : p \in Packet}
           n == Len(q)
<1>0. PICK r : r = Tail(q)
  OBVIOUS
<1>1. r \in Seq(Packet) /\ n \in Nat \ {0} /\ Len(r) = n - 1 /\ Head(q) = q[1]
      /\ \A i \in 1 .. n - 1 : r[i] = q[i + 1]
  BY <1>0
<1>2. DOMAIN q = 1 .. n /\ DOMAIN r = 1 .. n - 1
  BY <1>1
<1>p. PICK a : a = pendingOf(q)
  OBVIOUS
<1>b. PICK b : b = pendingOf(r)
  OBVIOUS
<1>3. a \in Seq(S) /\ Len(a) = n /\ \A i \in 1 .. n : a[i] = operationOf(q[i][1])
  <2>1. a \in [1 .. n -> S] /\ \A i \in 1 .. n : a[i] = operationOf(q[i][1])
    BY <1>2, <1>p DEF pendingOf
  <2> HIDE DEF S, n
  <2> QED
    BY <1>1, <2>1
<1>4. b \in Seq(S) /\ Len(b) = n - 1 /\ \A i \in 1 .. n - 1 : b[i] = operationOf(r[i][1])
  <2>1. b \in [1 .. n - 1 -> S] /\ \A i \in 1 .. n - 1 : b[i] = operationOf(r[i][1])
    <3>1. \A i \in 1 .. n - 1 : r[i] \in Packet
      BY <1>1
    <3> QED
      BY <1>2, <1>b, <3>1 DEF pendingOf
  <2> HIDE DEF S, n
  <2> QED
    BY <1>1, <2>1
<1> HIDE DEF S, n
<1>5. a # << >> /\ Head(a) = operationOf(Head(q)[1])
  <2>1. a # << >> /\ Head(a) = a[1] /\ 1 \in 1 .. n
    BY <1>1, <1>3
  <2> QED
    BY <1>1, <1>3, <2>1
<1>6. b = Tail(a)
  <2>1. PICK l : l = Tail(a)
    OBVIOUS
  <2>2. l \in Seq(S) /\ Len(l) = n - 1 /\ \A i \in 1 .. n - 1 : l[i] = a[i + 1]
    BY <1>1, <1>3, <1>5, <2>1
  <2>3. \A i \in 1 .. n - 1 : b[i] = l[i]
    <3> TAKE i \in 1 .. n - 1
    <3>1. PICK j \in 1 .. n : j = i + 1
      BY <1>1
    <3>2. l[i] = a[j] /\ r[i] = q[j]
      BY <1>1, <2>2, <3>1
    <3> QED
      BY <1>3, <1>4, <3>2
  <2>4. b = l
    BY <1>4, <2>2, <2>3, SeqEqual
  <2> QED
    BY <2>1, <2>4
<1> QED
  BY <1>0, <1>5, <1>6, <1>p, <1>b

\* What the history says of this system.
replicas == [c \in Clients |-> IF c \in members THEN ecs[c] ELSE emptyMachine]
pendings == [c \in Clients |-> pendingOf(toClient[c])]
historyVars == << members, replicas, pendings >>

\* Joining, in the variables of this system.
LEMMA JoinMeans ==
    ASSUME NEW c
    PROVE  History!Join(c) <=>
              /\ c \notin members
              /\ \A d \in members : /\ replicas[d] = emptyMachine
                                    /\ \A i \in DOMAIN pendings[d] : pendings[d][i].op = "destroy"
              /\ members' = members \union {c}
              /\ replicas' = replicas /\ pendings' = pendings
  BY SameMachine DEF History!Join, replicas, pendings, pendingOf

\* Leaving.
LEMMA LeaveMeans ==
    ASSUME NEW c
    PROVE  History!Leave(c) <=>
              /\ c \in members /\ members' = members \ {c}
              /\ replicas' = [replicas EXCEPT ![c] = emptyMachine]
              /\ pendings' = [pendings EXCEPT ![c] = << >>]
  BY SameMachine DEF History!Leave, replicas, pendings, pendingOf

\* Publishing.
LEMMA PublishMeans ==
    History!Publish <=>
        /\ \E o \in History!Operations :
              pendings' = [c \in Clients |-> IF c \in members THEN Append(pendings[c], o) ELSE << >>]
        /\ members' = members /\ replicas' = replicas
  BY DEF History!Publish, replicas, pendings, pendingOf

\* Delivering.
LEMMA DeliverMeans ==
    ASSUME NEW c
    PROVE  History!Deliver(c) <=>
              /\ pendings[c] # << >>
              /\ replicas' = [replicas EXCEPT ![c] = History!perform(@, Head(pendings[c]))]
              /\ pendings' = [pendings EXCEPT ![c] = Tail(@)]
              /\ members' = members
  BY DEF History!Deliver, replicas, pendings, pendingOf

\* No packets, no operations.
LEMMA PendingNone == pendingOf(<< >>) = << >>
<1>1. DOMAIN << >> = {}
  OBVIOUS
<1>2. PICK f : f = pendingOf(<< >>)
  OBVIOUS
<1>3. f = [i \in {} |-> operationOf(<< >>[i][1])]
  BY <1>1, <1>2 DEF pendingOf
<1>4. f \in Seq({}) /\ Len(f) = 0
  <2>1. 1 .. 0 = {} /\ 0 \in Nat
    OBVIOUS
  <2>2. f \in [1 .. 0 -> {}]
    BY <1>3, <2>1
  <2> QED
    BY <2>1, <2>2
<1> QED
  BY <1>2, <1>4

\* Where members and their entities stay, so do the replicas.
LEMMA ReplicasFrame ==
    ASSUME members' = members, \A c \in members : ecs'[c] = ecs[c]
    PROVE  replicas' = replicas
<1>1. \A c \in Clients : replicas'[c] = replicas[c]
  BY DEF replicas
<1>2. replicas' = [c \in Clients |-> replicas'[c]] /\ replicas = [c \in Clients |-> replicas[c]]
  BY DEF replicas
<1> QED
  BY <1>1, <1>2

\* A State that nothing was created in comes from such a State by deletions.
LEMMA LeadsEmpty ==
    ASSUME NEW m, Sound(m), NEW msg, Leads(m, msg, emptyMachine)
    PROVE  m = emptyMachine /\ msg.op = "destroy"
<1>1. emptyMachine.nextId = 0 /\ emptyMachine.freedIds = << >>
  BY DEF emptyMachine
<1>2. msg.op = "destroy" /\ msg.id \in Ids /\ emptyMachine = deleted(m, msg.id)
  <2>1. ASSUME NEW k, Creates(m, msg, k, emptyMachine) PROVE FALSE
    <3>1. emptyMachine = withEntity(m, k)
      BY <2>1 DEF Creates
    <3>2. emptyMachine.nextId >= 1
      BY <3>1, EntityCounted
    <3> QED
      BY <1>1, <3>2
  <2> QED
    BY <2>1 DEF Leads
<1>3. ~lives(m, msg.id)
  <2> SUFFICES ASSUME lives(m, msg.id) PROVE FALSE
    OBVIOUS
  <2>1. m.freedIds \in Seq(Ids) /\ m = [nextId |-> m.nextId, freedIds |-> m.freedIds, mask |-> m.mask]
    BY SoundParts
  <2>2. deleted(m, msg.id).freedIds = pushFreed(m.freedIds, msg.id)
    BY <2>1 DEF deleted
  <2>3. PICK q \in Seq(Ids), id \in Ids : q = m.freedIds /\ id = msg.id
    BY <1>2, <2>1
  <2>4. pushFreed(q, id) # << >>
    <3>1. << id >> \in Seq(Ids) /\ Len(<< id >>) = 1 /\ Len(q) \in Nat /\ Len(<< >>) = 0
      OBVIOUS
    <3>2. Len(<< id >> \o q) = 1 + Len(q)
      BY <3>1, ConcatProperties
    <3>3. << id >> \o q # << >>
      BY <3>1, <3>2
    <3> QED
      BY <3>3 DEF pushFreed
  <2> QED
    BY <1>1, <1>2, <2>2, <2>3, <2>4
<1> QED
  BY <1>2, <1>3 DEF deleted

\* A State that has only packets before it that lead to the empty State is
\* empty, and all of them are deletions.
LEMMA BehindEmpty ==
    ASSUME EveryTypeSerialized, NEW m, Sound(m), NEW q \in Seq(Packet), Behind(m, q, emptyMachine)
    PROVE  m = emptyMachine /\ \A i \in 1 .. Len(q) : q[i][1].op = "destroy"
<1> DEFINE n == Len(q)
<1>1. PICK h : h[0] = m /\ h[n] = emptyMachine /\ Path(h, q)
  BY DEF Behind
<1>2. n \in Nat
  OBVIOUS
<1>3. \A i \in 1 .. n : Leads(h[i - 1], q[i][1], h[i])
  BY <1>1 DEF Path
<1>4. \A i \in 0 .. n : Sound(h[i])
  BY <1>1, PathSound
<1> HIDE DEF n
<1>5. \A i \in 1 .. n : h[i] = emptyMachine => h[i - 1] = emptyMachine /\ q[i][1].op = "destroy"
  <2> SUFFICES ASSUME NEW i \in 1 .. n, h[i] = emptyMachine
               PROVE  h[i - 1] = emptyMachine /\ q[i][1].op = "destroy"
    OBVIOUS
  <2>1. Leads(h[i - 1], q[i][1], emptyMachine)
    BY <1>3
  <2>2. Sound(h[i - 1])
    BY <1>2, <1>4
  <2> QED
    BY <2>1, <2>2, LeadsEmpty
<1> DEFINE P == {k \in Nat : k <= n => h[n - k] = emptyMachine}
<1>6. 0 \in P
  <2>1. n - 0 = n
    BY <1>2
  <2> QED
    BY <1>1, <2>1
<1>7. ASSUME NEW k \in Nat, k \in P PROVE k + 1 \in P
  <2> SUFFICES ASSUME k + 1 <= n PROVE h[n - (k + 1)] = emptyMachine
    OBVIOUS
  <2>1. PICK i \in 1 .. n : i = n - k /\ i - 1 = n - (k + 1)
    BY <1>2
  <2>2. h[i] = emptyMachine
    BY <1>2, <1>7, <2>1
  <2> QED
    BY <1>5, <2>1, <2>2
<1> HIDE DEF P
<1>8. \A k \in Nat : k \in P
  BY <1>6, <1>7, SetInduction
<1>9. \A i \in 0 .. n : h[i] = emptyMachine
  <2> TAKE i \in 0 .. n
  <2>1. PICK k \in Nat : k = n - i /\ n - k = i /\ k <= n
    BY <1>2
  <2>2. h[n - k] = emptyMachine
    BY <1>8, <2>1 DEF P
  <2> QED
    BY <2>1, <2>2
<1>10. m = emptyMachine
  <2>1. 0 \in 0 .. n
    BY <1>2
  <2> QED
    BY <1>1, <1>9, <2>1
<1>11. \A i \in 1 .. n : q[i][1].op = "destroy"
  <2>1. \A i \in 1 .. n : i \in 0 .. n
    BY <1>2
  <2> QED
    BY <1>5, <1>9, <2>1
<1> QED
  BY <1>10, <1>11 DEF n

\* What the server publishes is an operation more for every client.
LEMMA PublishesHistory ==
    ASSUME EveryTypeSerialized, NoArgs = {}, TypeInv, Separate, Publishes
    PROVE  History!Publish
<1>1. PICK packet \in Packet, b \in SoundMachine, w \in SoundMachine :
         /\ Leads(b, packet[1], w) /\ sendToClients(packet)
         /\ \A c \in Clients : ecs'[c] = ecs[c]
         /\ role' = role
  BY DEF Publishes
<1>2. PICK o : o = operationOf(packet[1])
  OBVIOUS
<1>3. o \in History!Operations
  <2>1. Sound(b)
    BY DEF SoundMachine
  <2> QED
    BY <1>1, <1>2, <2>1, LeadsPerform
<1>4. members' = members
  BY <1>1 DEF members
<1>5. replicas' = replicas
  <2>1. \A c \in members : ecs'[c] = ecs[c]
    BY <1>1 DEF members
  <2> QED
    BY <1>4, <2>1, ReplicasFrame
<1>6. \A c \in Clients : pendings'[c] = IF c \in members THEN Append(pendings[c], o) ELSE << >>
  <2> TAKE c \in Clients
  <2>1. pendings'[c] = pendingOf(toClient'[c]) /\ pendings[c] = pendingOf(toClient[c])
    BY DEF pendings
  <2>2. CASE role[c] = "CLIENT"
    <3>1. toClient'[c] = Append(toClient[c], packet)
      BY <1>1, <2>2 DEF sendToClients
    <3>2. toClient[c] \in Seq(Packet)
      BY DEF TypeInv, Wire
    <3>3. pendingOf(Append(toClient[c], packet)) = Append(pendingOf(toClient[c]), o)
      BY <1>2, <3>2, PendingAppend
    <3>4. c \in members
      BY <2>2 DEF members
    <3> QED
      BY <2>1, <3>1, <3>3, <3>4
  <2>3. CASE role[c] # "CLIENT"
    <3>1. toClient'[c] = << >>
      BY <1>1, <2>3 DEF sendToClients, Separate
    <3>2. c \notin members
      BY <2>3 DEF members
    <3> QED
      BY <2>1, <3>1, <3>2, PendingNone
  <2> QED
    BY <2>2, <2>3
<1>7. pendings' = [c \in Clients |-> IF c \in members THEN Append(pendings[c], o) ELSE << >>]
  <2>1. pendings' = [c \in Clients |-> pendings'[c]]
    BY DEF pendings
  <2> QED
    BY <1>6, <2>1
<1> QED
  BY <1>3, <1>4, <1>5, <1>7, PublishMeans

\* A program that joins begins where all members are: at the beginning.
LEMMA JoinsHistory ==
    ASSUME EveryTypeSerialized, Promises, StepInv, NEW c \in Clients, join(c)
    PROVE  History!Join(c)
<1> USE ServerIsNode
<1>t. TypeInv /\ Own /\ Wire /\ Separate /\ InStep /\ \A n \in Nodes : Sound(ecs[n])
  BY SoundAt DEF StepInv, TypeInv
<1>p. JoinsFresh
  BY DEF Promises
<1>1. /\ role' = [role EXCEPT ![c] = "CLIENT"] /\ UNCHANGED << ecs, toClient >>
      /\ role[c] = "NONE" /\ ecs[c] = emptyMachine /\ ecs[server] = emptyMachine
  BY <1>p DEF join, alone, fresh
<1>2. role'[c] = "CLIENT" /\ \A d \in Clients : d # c => role'[d] = role[d]
  BY <1>t, <1>1 DEF Own
<1>3. c \notin members /\ members' = members \union {c}
  BY <1>1, <1>2 DEF members
<1>4. PICK b : Published(b) /\ Following(b)
  BY <1>t DEF InStep
<1>5. b = emptyMachine
  BY <1>1, <1>4, FreshPublished
<1>6. ASSUME NEW d \in members
      PROVE  /\ replicas[d] = emptyMachine
             /\ \A i \in DOMAIN pendings[d] : pendings[d][i].op = "destroy"
  <2>1. d \in Clients /\ role[d] = "CLIENT" /\ replicas[d] = ecs[d] /\ pendings[d] = pendingOf(toClient[d])
    BY DEF members, replicas, pendings
  <2>2. toClient[d] \in Seq(Packet) /\ Behind(ecs[d], toClient[d], emptyMachine) /\ Sound(ecs[d])
    BY <1>t, <1>4, <1>5, <2>1 DEF Following, Wire
  <2>3. ecs[d] = emptyMachine /\ \A i \in 1 .. Len(toClient[d]) : toClient[d][i][1].op = "destroy"
    BY <2>2, BehindEmpty
  <2>4. \A i \in 1 .. Len(toClient[d]) : pendingOf(toClient[d])[i].op = "destroy"
    <3> TAKE i \in 1 .. Len(toClient[d])
    <3>1. i \in DOMAIN toClient[d]
      BY <2>2
    <3>2. pendingOf(toClient[d])[i] = operationOf(toClient[d][i][1])
      BY <3>1 DEF pendingOf
    <3>3. operationOf(toClient[d][i][1]).op = "destroy"
      BY <2>3 DEF operationOf
    <3> QED
      BY <3>2, <3>3
  <2>5. DOMAIN pendingOf(toClient[d]) = 1 .. Len(toClient[d])
    BY <2>2 DEF pendingOf
  <2> QED
    BY <2>1, <2>3, <2>4, <2>5
<1>7. replicas' = replicas
  <2>1. \A d \in Clients : replicas'[d] = replicas[d]
    BY <1>1, <1>3 DEF replicas
  <2>2. replicas' = [d \in Clients |-> replicas'[d]] /\ replicas = [d \in Clients |-> replicas[d]]
    BY DEF replicas
  <2> QED
    BY <2>1, <2>2
<1>8. pendings' = pendings
  BY <1>1 DEF pendings
<1> QED
  BY <1>3, <1>6, <1>7, <1>8, JoinMeans

\* A client that leaves has neither entities nor operations in the history.
LEMMA LeavesHistory ==
    ASSUME TypeInv, NEW c \in Clients, leave(c)
    PROVE  History!Leave(c)
<1> USE ServerIsNode
<1>t. Own /\ Wire
  BY DEF TypeInv
<1>1. /\ role' = [role EXCEPT ![c] = "NONE"] /\ toClient' = [toClient EXCEPT ![c] = << >>]
      /\ role[c] = "CLIENT" /\ ecs' = ecs
  BY DEF leave
<1>2. role'[c] = "NONE" /\ \A d \in Clients : d # c => role'[d] = role[d]
  BY <1>t, <1>1 DEF Own
<1>3. c \in members /\ members' = members \ {c}
  BY <1>1, <1>2 DEF members
<1>4. replicas' = [replicas EXCEPT ![c] = emptyMachine]
  <2>1. \A d \in Clients : replicas'[d] = IF d = c THEN emptyMachine ELSE replicas[d]
    BY <1>1, <1>3 DEF replicas
  <2>2. replicas' = [d \in Clients |-> replicas'[d]] /\ replicas = [d \in Clients |-> replicas[d]]
    BY DEF replicas
  <2> QED
    BY <2>1, <2>2
<1>5. pendings' = [pendings EXCEPT ![c] = << >>]
  <2>1. toClient'[c] = << >> /\ \A d \in Clients : d # c => toClient'[d] = toClient[d]
    BY <1>t, <1>1 DEF Wire
  <2>2. \A d \in Clients : pendings'[d] = IF d = c THEN << >> ELSE pendings[d]
    BY <2>1, PendingNone DEF pendings
  <2>3. pendings' = [d \in Clients |-> pendings'[d]] /\ pendings = [d \in Clients |-> pendings[d]]
    BY DEF pendings
  <2> QED
    BY <2>2, <2>3
<1> QED
  BY <1>3, <1>4, <1>5, LeaveMeans

\* A client that handles a packet performs the next operation.
LEMMA DeliversHistory ==
    ASSUME EveryTypeSerialized, NoArgs = {}, StepInv, NEW c \in Clients, receiveUpdate(c)
    PROVE  History!Deliver(c)
<1> USE ServerIsNode
<1>t. TypeInv /\ Wire /\ Whole /\ Separate /\ InStep /\ \A n \in Nodes : Sound(ecs[n])
  BY SoundAt DEF StepInv, TypeInv
<1>1. /\ toClient[c] \in Seq(Packet) /\ toClient[c] # << >>
      /\ toClient' = [toClient EXCEPT ![c] = Tail(@)] /\ role' = role
  BY <1>t DEF receiveUpdate, takeUpdate, Wire, nodeVars
<1>2. role[c] = "CLIENT"
  BY <1>t, <1>1 DEF Separate
<1>3. PICK msg : msg = Head(toClient[c])[1]
  OBVIOUS
<1>4. PICK w : Leads(ecs[c], msg, w)
  <2>1. PICK b : Following(b)
    BY <1>t DEF InStep
  <2>2. Behind(ecs[c], toClient[c], b)
    BY <1>2, <2>1 DEF Following
  <2> QED
    BY <1>1, <1>3, <2>2, BehindTake
<1>5. apply(ecs[c], msg) = {w} /\ w = History!perform(ecs[c], operationOf(msg))
  BY <1>t, <1>4, LeadsOn, LeadsPerform
<1>6. ecs' = [ecs EXCEPT ![c] = w]
  <2>1. \E m \in apply(ecs[c], msg) : ecs' = [ecs EXCEPT ![c] = m]
    BY <1>3 DEF receiveUpdate
  <2> QED
    BY <1>5, <2>1
<1>7. ecs'[c] = w /\ \A d \in Clients : d # c => ecs'[d] = ecs[d]
  BY <1>t, <1>6, OthersKept
<1>8. members' = members /\ c \in members
  BY <1>1, <1>2 DEF members
<1>9. /\ pendings[c] # << >> /\ Head(pendings[c]) = operationOf(msg)
      /\ pendingOf(Tail(toClient[c])) = Tail(pendings[c])
  <2>1. pendings[c] = pendingOf(toClient[c])
    BY DEF pendings
  <2> QED
    BY <1>1, <1>3, <2>1, PendingTail
<1>10. replicas' = [replicas EXCEPT ![c] = History!perform(@, Head(pendings[c]))]
  <2>1. replicas[c] = ecs[c]
    BY <1>8 DEF replicas
  <2>2. \A d \in Clients : replicas'[d] = IF d = c THEN w ELSE replicas[d]
    BY <1>7, <1>8 DEF replicas
  <2>3. replicas' = [d \in Clients |-> replicas'[d]] /\ replicas = [d \in Clients |-> replicas[d]]
    BY DEF replicas
  <2>4. replicas' = [replicas EXCEPT ![c] = w]
    BY <2>2, <2>3
  <2> QED
    BY <1>5, <1>9, <2>1, <2>4
<1>11. pendings' = [pendings EXCEPT ![c] = Tail(@)]
  <2>1. toClient'[c] = Tail(toClient[c]) /\ \A d \in Clients : d # c => toClient'[d] = toClient[d]
    BY <1>t, <1>1 DEF Wire
  <2>2. \A d \in Clients : pendings'[d] = IF d = c THEN Tail(pendings[c]) ELSE pendings[d]
    BY <1>9, <2>1 DEF pendings
  <2>3. pendings' = [d \in Clients |-> pendings'[d]] /\ pendings = [d \in Clients |-> pendings[d]]
    BY DEF pendings
  <2> QED
    BY <2>2, <2>3
<1> QED
  BY <1>8, <1>9, <1>10, <1>11, DeliverMeans

\* What a program does that is no client, and sends nothing, is not part of
\* the history.
LEMMA HistoryFrame ==
    ASSUME TypeInv, NEW n \in Nodes, role[n] # "CLIENT",
           ecs' = ecs \/ \E m : ecs' = [ecs EXCEPT ![n] = m],
           UNCHANGED << role, toClient >>
    PROVE  UNCHANGED historyVars
<1>1. members' = members
  BY DEF members
<1>2. \A c \in members : ecs'[c] = ecs[c]
  <2> SUFFICES ASSUME NEW c \in members PROVE ecs'[c] = ecs[c]
    OBVIOUS
  <2>1. c \in Nodes /\ c # n
    BY ServerIsNode DEF members
  <2> QED
    BY <2>1 DEF TypeInv, Whole
<1>3. replicas' = replicas
  BY <1>1, <1>2, ReplicasFrame
<1>4. pendings' = pendings
  BY DEF pendings
<1> QED
  BY <1>1, <1>3, <1>4 DEF historyVars

\* Every step is one of the history's, or none.
LEMMA HistoryStep ==
    ASSUME EveryTypeSerialized, NoArgs = {}, Promises, StepInv, [Next]_vars
    PROVE  History!Next \/ UNCHANGED historyVars
<1> USE ServerIsNode
<1>t. TypeInv /\ Own /\ Separate
  BY DEF StepInv, TypeInv
<1>u. ASSUME UNCHANGED << role, ecs, toClient >> PROVE UNCHANGED historyVars
  BY <1>u DEF historyVars, members, replicas, pendings
<1>z. ASSUME Publishes PROVE History!Next
  BY <1>t, <1>z, PublishesHistory DEF History!Next
<1>1. CASE host
  <2>1. role' = [role EXCEPT ![server] = "SERVER"] /\ UNCHANGED << ecs, toClient >>
    BY <1>1 DEF host
  <2>2. \A c \in Clients : role'[c] = role[c]
    BY <1>t, <2>1 DEF Own
  <2>3. members' = members
    BY <2>2 DEF members
  <2>4. replicas' = replicas
    BY <2>1, <2>3, ReplicasFrame DEF members
  <2> QED
    BY <2>1, <2>3, <2>4 DEF historyVars, pendings
<1>2. ASSUME NEW c \in Clients, join(c) PROVE History!Next
  BY <1>2, JoinsHistory DEF History!Next
<1>3. ASSUME NEW c \in Clients, leave(c) PROVE History!Next
  BY <1>t, <1>3, LeavesHistory DEF History!Next
<1>4. ASSUME NEW n \in Nodes, openEntityRequest(n) PROVE UNCHANGED historyVars
  <2>1. CASE alone(n)
    <3>1. role[n] # "CLIENT" /\ UNCHANGED << role, toClient >> /\ \E m : ecs' = [ecs EXCEPT ![n] = m]
      BY <1>4, <2>1 DEF openEntityRequest, alone
    <3> QED
      BY <1>t, <3>1, HistoryFrame
  <2>2. CASE ~alone(n)
    BY <1>u, <1>4, <2>2 DEF openEntityRequest
  <2> QED
    BY <2>1, <2>2
<1>5. ASSUME NEW n \in Nodes, NEW d \in Comps, request(n, d) \/ requestUnopened(n, d)
      PROVE  UNCHANGED historyVars
  <2>1. requested(n, d)
    BY <1>5 DEF request, requestUnopened
  <2>2. CASE alone(n)
    <3>1. role[n] # "CLIENT" /\ UNCHANGED << role, toClient >> /\ \E m : ecs' = [ecs EXCEPT ![n] = m]
      BY <2>1, <2>2 DEF requested, alone
    <3> QED
      BY <1>t, <3>1, HistoryFrame
  <2>3. CASE ~alone(n)
    BY <1>u, <2>1, <2>3 DEF requested
  <2> QED
    BY <2>2, <2>3
<1>6. ASSUME NEW n \in Nodes, closeEntityRequestAlone(n) PROVE UNCHANGED historyVars
  BY <1>u, <1>6 DEF closeEntityRequestAlone, closes
<1>7. CASE closeEntityRequestServer
  BY <1>z, <1>7, ClosePublishes
<1>8. ASSUME NEW n \in Clients, closeEntityRequestClient(n) PROVE UNCHANGED historyVars
  BY <1>u, <1>8 DEF closeEntityRequestClient, closes
<1>9. ASSUME NEW n \in Nodes, NEW mask, makeManualEntity(n, mask) PROVE UNCHANGED historyVars
  <2>1. role[n] # "CLIENT" /\ UNCHANGED << role, toClient >> /\ \E m : ecs' = [ecs EXCEPT ![n] = m]
    BY <1>9 DEF makeManualEntity, nodeVars
  <2> QED
    BY <1>t, <2>1, HistoryFrame
<1>10. ASSUME NEW id \in unsent, broadcastManualEntity(id) PROVE History!Next
  BY <1>z, <1>10, BroadcastPublishes
<1>11. ASSUME NEW n \in Nodes, NEW id \in Ids, requestEntityDeletion(n, id)
       PROVE  History!Next \/ UNCHANGED historyVars
  <2>1. CASE alone(n)
    <3>1. role[n] # "CLIENT" /\ UNCHANGED << role, toClient >> /\ \E m : ecs' = [ecs EXCEPT ![n] = m]
      BY <1>11, <2>1 DEF requestEntityDeletion, alone
    <3> QED
      BY <1>t, <3>1, HistoryFrame
  <2>2. CASE ~alone(n)
    BY <1>z, <1>11, <2>2, DeletionPublishes
  <2> QED
    BY <2>1, <2>2
<1>12. ASSUME NEW c \in Clients, receiveRequest(c) PROVE History!Next
  BY <1>z, <1>12, ReceivePublishes
<1>13. ASSUME NEW c \in Clients, receiveUpdate(c) PROVE History!Next
  BY <1>13, DeliversHistory DEF History!Next
<1>14. CASE UNCHANGED vars
  BY <1>u, <1>14 DEF vars, nodeVars
<1> QED
  BY <1>1, <1>2, <1>3, <1>4, <1>5, <1>6, <1>7, <1>8, <1>9, <1>10, <1>11, <1>12, <1>13, <1>14
  DEF Next

\* As long as the game keeps its promises, every type is serialized and has a
\* constructor with arguments, there is one history of creations and deletions
\* which every client performs from the beginning, in order, and without
\* missing any.
THEOREM OneHistoryForAll ==
    ASSUME EveryTypeSerialized, NoArgs = {}, Promises
    PROVE  Spec => OneHistory
<1>1. Init => History!Init
  <2> SUFFICES ASSUME Init PROVE History!Init
    OBVIOUS
  <2>1. members = {}
    BY ServerIsNode DEF Init, members
  <2>2. pendings = [c \in Clients |-> << >>]
    BY PendingNone DEF Init, pendings
  <2>3. replicas = [c \in Clients |-> emptyMachine]
    BY <2>1 DEF replicas
  <2> QED
    BY <2>1, <2>2, <2>3, SameMachine DEF History!Init, pendings, pendingOf, replicas
<1>2. StepInv /\ [Next]_vars => History!Next \/ UNCHANGED historyVars
  BY HistoryStep
<1> QED
  BY <1>1, <1>2, AlwaysInStep, PTL
  DEF Spec, OneHistory, History!Spec, historyVars, replicas, pendings, pendingOf
====
