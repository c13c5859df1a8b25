---- MODULE GeneratorProofs ----
(***************************************************************************)
(* Proofs about Generator, for every set of component types and every      *)
(* configuration.  The inductive invariant is TypeOK, Progress (what the   *)
(* loops have established so far), PrerequisitesFirst and NoDoubles.       *)
(***************************************************************************)
EXTENDS Generator, Induction

\* The generator orders what the file says and nothing else, it has turned
\* unknown names down before, and what a pass has gone over without leaving a
\* type out is written.
settled(c) == serializable(c) => safeAsPreq(c)
Progress ==
    /\ Range(srlAll) \subseteq {c \in Comps : serializable(c)}
    /\ phase = "reading" =>
          /\ srlAll = << >>
          /\ \A k \in 1 .. pos - 1 :
                 /\ ~invalidArg(compTypeNames[k])
                 /\ prerequisiteComps[compTypeNames[k]] = dependencies[compTypeNames[k]]
    /\ phase = "ordering" \/ (phase = "exited" /\ exitCode # -13) =>
          ~namesUnknown /\ prerequisiteComps = dependencies
    /\ phase = "ordering" /\ ~compsRemain =>
          \A k \in 1 .. pos - 1 : settled(compTypeNames[k])
    /\ phase = "exited" /\ exitCode = 0 => \A c \in Comps : settled(c)
    /\ phase = "exited" /\ exitCode = -20 => needsUnserializable
    /\ phase = "exited" /\ exitCode = -13 => namesUnknown

NoDoubles == \A j, k \in 1 .. Len(srlAll) : srlAll[j] = srlAll[k] => j = k

IInv == TypeOK /\ Progress /\ PrerequisitesFirst /\ NoDoubles

\* The name of the loop's current type is a declared type, and the types seen
\* so far become one more.
LEMMA NameType ==
    ASSUME TypeOK, pos <= Len(compTypeNames) PROVE name \in Comps
  BY NamesAssumption DEF TypeOK, name

\* Going on to the next type.
LEMMA SeenSoFar ==
    ASSUME TypeOK, pos <= Len(compTypeNames), pos' = pos + 1
    PROVE  /\ \A k \in 1 .. pos' - 1 : k \in 1 .. pos - 1 \/ k = pos
           /\ pos' \in 1 .. Len(compTypeNames) + 1
           /\ pos \in Nat \ {0}
  BY NamesAssumption DEF TypeOK

\* A step that leaves the order alone.
LEMMA SameOrder ==
    ASSUME PrerequisitesFirst, NoDoubles, UNCHANGED config, UNCHANGED srlAll
    PROVE  PrerequisitesFirst' /\ NoDoubles'
  <1>1. dependencies' = dependencies /\ srlAll' = srlAll
    BY DEF config
  <1>2. PrerequisitesFirst'
    BY <1>1 DEF PrerequisitesFirst
  <1>3. NoDoubles'
    BY <1>1 DEF NoDoubles
  <1> QED BY <1>2, <1>3

\* What appending one type does to the set of types that are written.
LEMMA AppendRange ==
    ASSUME NEW S, NEW s \in Seq(S), NEW c \in S
    PROVE  /\ Append(s, c) \in Seq(S)
           /\ Len(Append(s, c)) = Len(s) + 1
           /\ \A k \in 1 .. Len(s) : Append(s, c)[k] = s[k]
           /\ Append(s, c)[Len(s) + 1] = c
           /\ Range(Append(s, c)) = Range(s) \union {c}
  <1>1. /\ Append(s, c) \in Seq(S)
        /\ Len(Append(s, c)) = Len(s) + 1
        /\ \A k \in 1 .. Len(s) : Append(s, c)[k] = s[k]
        /\ Append(s, c)[Len(s) + 1] = c
    OBVIOUS
  <1>2. Len(s) \in Nat
    OBVIOUS
  <1>3. 1 .. Len(Append(s, c)) = (1 .. Len(s)) \union {Len(s) + 1}
    BY <1>1, <1>2
  <1>4. Range(Append(s, c)) = Range(s) \union {c}
    BY <1>1, <1>2, <1>3 DEF Range
  <1> QED BY <1>1, <1>4

--------------------------------------------------------------------------
\* Nothing is read and nothing written.
LEMMA InitInv == Init => IInv
  <1> SUFFICES ASSUME Init PROVE IInv
    OBVIOUS
  <1> USE NamesAssumption DEF Init
  <1>1. TypeOK
    BY DEF TypeOK
  <1>2. Progress
    BY DEF Progress, Range
  <1>3. PrerequisitesFirst /\ NoDoubles
    BY DEF PrerequisitesFirst, NoDoubles
  <1> QED BY <1>1, <1>2, <1>3 DEF IInv

\* One use of EZECS_COMPONENT_DEPENDENCIES.
LEMMA ReadStep == ASSUME IInv, readDependencies PROVE IInv'
  <1> USE DEF IInv
  <1>0. name \in Comps /\ phase = "reading" /\ srlAll = << >>
    BY NameType DEF readDependencies, Progress
  <1>1. CASE invalidArg(name)
    <2>1. /\ UNCHANGED << config, dependentComps, compsRemain, srlAll, prerequisiteComps, pos >>
          /\ phase' = "exited" /\ exitCode' = -13
      BY <1>1 DEF readDependencies, exit
    <2>2. TypeOK'
      BY <2>1 DEF TypeOK, config
    <2>3. namesUnknown'
      BY <1>0, <1>1, <2>1 DEF namesUnknown, invalidArg, config
    <2>4. Progress'
      BY <1>0, <2>1, <2>3 DEF Progress, Range, config
    <2>5. (PrerequisitesFirst /\ NoDoubles)'
      BY <1>0, <2>1 DEF PrerequisitesFirst, NoDoubles
    <2> QED BY <2>2, <2>4, <2>5
  <1>2. CASE ~invalidArg(name)
    <2>1. /\ UNCHANGED << config, dependentComps, compsRemain, srlAll, phase, exitCode >>
          /\ prerequisiteComps' = [prerequisiteComps EXCEPT ![name] = dependencies[name]]
          /\ pos' = pos + 1 /\ pos <= Len(compTypeNames)
      BY <1>2 DEF readDependencies
    <2>2. dependencies[name] \subseteq Comps
      BY <1>0, <1>2 DEF TypeOK, invalidArg
    <2>3. TypeOK'
      <3>1. prerequisiteComps' \in [Comps -> SUBSET Comps]
        BY <1>0, <2>1, <2>2 DEF TypeOK
      <3>2. pos' \in 1 .. Len(compTypeNames) + 1
        BY <2>1, SeenSoFar
      <3> QED BY <2>1, <3>1, <3>2 DEF TypeOK, config
    <2>4. ASSUME NEW k \in 1 .. pos' - 1
          PROVE  /\ ~invalidArg(compTypeNames[k])'
                 /\ prerequisiteComps'[compTypeNames[k]] = dependencies'[compTypeNames[k]]
      <3>1. k \in 1 .. pos - 1 \/ k = pos
        BY <2>1, SeenSoFar
      <3>2. k \in 1 .. Len(compTypeNames) /\ compTypeNames[k] \in Comps
        BY <2>1, <2>4, <3>1, NamesAssumption DEF TypeOK
      <3>3. CASE k = pos
        BY <3>3, <3>2, <1>0, <1>2, <2>1 DEF TypeOK, name, invalidArg, config
      <3>4. CASE k \in 1 .. pos - 1
        <4>1. /\ ~invalidArg(compTypeNames[k])
              /\ prerequisiteComps[compTypeNames[k]] = dependencies[compTypeNames[k]]
          BY <3>4, <1>0 DEF Progress
        <4> QED BY <4>1, <3>2, <1>0, <2>1 DEF TypeOK, invalidArg, config
      <3> QED BY <3>1, <3>3, <3>4
    <2>5. Progress'
      BY <1>0, <2>1, <2>4 DEF Progress, Range, config
    <2>6. (PrerequisitesFirst /\ NoDoubles)'
      BY <1>0, <2>1 DEF PrerequisitesFirst, NoDoubles
    <2> QED BY <2>3, <2>5, <2>6
  <1> QED BY <1>1, <1>2

\* The end of reading: every type's prerequisites are what the file says.
LEMMA FillStep == ASSUME IInv, fillDependentComps PROVE IInv'
  <1> USE DEF IInv
  <1>1. /\ UNCHANGED << config, prerequisiteComps, srlAll, exitCode >>
        /\ dependentComps' = [c \in Comps |-> {d \in Comps : c \in prerequisiteComps[d]}]
        /\ phase = "reading" /\ phase' = "ordering" /\ pos' = 1 /\ compsRemain' = FALSE
        /\ pos > Len(compTypeNames) /\ srlAll = << >>
    BY DEF fillDependentComps, Progress
  <1>2. TypeOK'
    <2>1. Len(compTypeNames) \in Nat
      BY NamesAssumption
    <2>2. [c \in Comps |-> {d \in Comps : c \in prerequisiteComps[d]}] \in [Comps -> SUBSET Comps]
      OBVIOUS
    <2>3. /\ dependentComps' \in [Comps -> SUBSET Comps]
          /\ pos' \in 1 .. Len(compTypeNames) + 1
      BY <1>1, <2>1, <2>2
    <2> QED BY <1>1, <2>3 DEF TypeOK, config
  <1>3. \A c \in Comps : ~invalidArg(c) /\ prerequisiteComps[c] = dependencies[c]
    <2>1. \A k \in 1 .. Len(compTypeNames) : k \in 1 .. pos - 1
      BY <1>1, NamesAssumption DEF TypeOK
    <2> QED BY <1>1, <2>1, NamesAssumption DEF Progress
  <1>4. ~namesUnknown
    BY <1>3 DEF namesUnknown, invalidArg
  <1>5. prerequisiteComps = dependencies
    BY <1>3 DEF TypeOK
  <1>6. Progress'
    BY <1>1, <1>4, <1>5 DEF Progress, Range, config, namesUnknown
  <1>7. (PrerequisitesFirst /\ NoDoubles)'
    BY <1>1 DEF PrerequisitesFirst, NoDoubles
  <1> QED BY <1>2, <1>6, <1>7

\* One type in a pass.
LEMMA OrderStep == ASSUME IInv, orderComp PROVE IInv'
  <1> USE DEF IInv
  <1>0. /\ name \in Comps /\ phase = "ordering" /\ pos <= Len(compTypeNames)
        /\ UNCHANGED << config, prerequisiteComps, dependentComps >>
        /\ ~namesUnknown /\ prerequisiteComps = dependencies
        /\ Range(srlAll) \subseteq {c \in Comps : serializable(c)}
    BY NameType DEF orderComp, Progress
  <1>1. CASE ~toDo(name)
    <2>1. pos' = pos + 1 /\ UNCHANGED << compsRemain, srlAll, phase, exitCode >>
      BY <1>1 DEF orderComp
    <2>2. TypeOK'
      BY <1>0, <2>1, SeenSoFar DEF TypeOK, config
    <2>3. settled(name)
      BY <1>1 DEF toDo, settled
    <2>4. ~compsRemain => \A k \in 1 .. pos' - 1 : settled(compTypeNames[k])
      BY <1>0, <2>1, <2>3, SeenSoFar DEF Progress, name
    <2>5. Progress'
      BY <1>0, <2>1, <2>4
      DEF Progress, Range, config, settled, serializable, safeAsPreq, namesUnknown
    <2>6. (PrerequisitesFirst /\ NoDoubles)'
      BY <1>0, <2>1, SameOrder
    <2> QED BY <2>2, <2>5, <2>6
  <1>2. CASE toDo(name) /\ dependsOnUnserializable(name)
    <2>1. UNCHANGED << pos, compsRemain, srlAll >> /\ phase' = "exited" /\ exitCode' = -20
      BY <1>2 DEF orderComp, exit
    <2>2. TypeOK'
      BY <1>0, <2>1 DEF TypeOK, config
    <2>3. needsUnserializable
      BY <1>0, <1>2 DEF toDo, dependsOnUnserializable, needsUnserializable
    <2>4. Progress'
      BY <1>0, <2>1, <2>3
      DEF Progress, Range, config, serializable, namesUnknown, needsUnserializable
    <2>5. (PrerequisitesFirst /\ NoDoubles)'
      BY <1>0, <2>1, SameOrder
    <2> QED BY <2>2, <2>4, <2>5
  <1>3. CASE toDo(name) /\ ~dependsOnUnserializable(name) /\ ~preqsSatisfied(name)
    <2>1. pos' = pos + 1 /\ compsRemain' = TRUE /\ UNCHANGED << srlAll, phase, exitCode >>
      BY <1>3 DEF orderComp
    <2>2. TypeOK'
      BY <1>0, <2>1, SeenSoFar DEF TypeOK, config
    <2>3. Progress'
      BY <1>0, <2>1 DEF Progress, Range, config, serializable, namesUnknown
    <2>4. (PrerequisitesFirst /\ NoDoubles)'
      BY <1>0, <2>1, SameOrder
    <2> QED BY <2>2, <2>3, <2>4
  <1>4. CASE toDo(name) /\ ~dependsOnUnserializable(name) /\ preqsSatisfied(name)
    <2>1. pos' = pos + 1 /\ srlAll' = Append(srlAll, name) /\ UNCHANGED << compsRemain, phase, exitCode >>
      BY <1>4 DEF orderComp
    <2>2. /\ srlAll \in Seq(Comps) /\ Len(srlAll) \in Nat
          /\ srlAll' \in Seq(Comps) /\ Len(srlAll') = Len(srlAll) + 1
          /\ \A k \in 1 .. Len(srlAll) : srlAll'[k] = srlAll[k]
          /\ srlAll'[Len(srlAll) + 1] = name
          /\ Range(srlAll)' = Range(srlAll) \union {name}
      <3>1. srlAll \in Seq(Comps)
        BY DEF TypeOK
      <3>2. Len(srlAll) \in Nat
        BY <3>1
      <3>3. Range(srlAll)' = Range(Append(srlAll, name))
        BY <2>1 DEF Range
      <3> QED BY <1>0, <2>1, <3>1, <3>2, <3>3, AppendRange
    <2>3. TypeOK'
      BY <1>0, <2>1, <2>2, SeenSoFar DEF TypeOK, config
    <2>4. /\ serializable(name)
          /\ \A c \in Comps : settled(c) \/ c = name => settled(c)'
          /\ (Range(srlAll) \subseteq {c \in Comps : serializable(c)})'
      <3>1. noserialize' = noserialize
        BY <1>0 DEF config
      <3>2. serializable(name)
        BY <1>4 DEF toDo
      <3>3. \A c \in Comps : settled(c) \/ c = name => settled(c)'
        BY <2>2, <3>1 DEF settled, serializable, safeAsPreq
      <3>4. (Range(srlAll) \subseteq {c \in Comps : serializable(c)})'
        BY <1>0, <2>2, <3>1, <3>2 DEF serializable
      <3> QED BY <3>2, <3>3, <3>4
    <2>5. ~compsRemain => \A k \in 1 .. pos' - 1 : settled(compTypeNames[k])'
      <3> SUFFICES ASSUME ~compsRemain, NEW k \in 1 .. pos' - 1
                   PROVE  settled(compTypeNames[k])'
        OBVIOUS
      <3>1. k \in 1 .. pos - 1 \/ k = pos
        BY <1>0, <2>1, SeenSoFar
      <3>2. k \in 1 .. Len(compTypeNames) /\ compTypeNames[k] \in Comps
        <4>1. pos \in 1 .. Len(compTypeNames)
          BY <1>0 DEF TypeOK
        <4>2. k \in 1 .. Len(compTypeNames)
          BY <3>1, <4>1
        <4> QED
          BY <4>2, NamesAssumption
      <3>3. k \in 1 .. pos - 1 => settled(compTypeNames[k])
        BY <1>0 DEF Progress
      <3>4. k = pos => settled(compTypeNames[k])'
        BY <2>4, <3>2 DEF name
      <3> QED BY <2>4, <3>1, <3>2, <3>3, <3>4
    <2>6. ~namesUnknown' /\ prerequisiteComps' = dependencies'
      BY <1>0 DEF config, namesUnknown
    <2>7. Progress'
      BY <1>0, <2>1, <2>4, <2>5, <2>6 DEF Progress
    <2>8. PrerequisitesFirst'
      <3> SUFFICES ASSUME NEW k \in 1 .. Len(srlAll'), NEW p \in dependencies'[srlAll'[k]]
                   PROVE  \E j \in 1 .. k - 1 : srlAll'[j] = p
        BY DEF PrerequisitesFirst
      <3>1. dependencies' = dependencies
        BY <1>0 DEF config
      <3>2. CASE k \in 1 .. Len(srlAll)
        <4>1. \E j \in 1 .. k - 1 : srlAll[j] = p
          BY <2>2, <3>1, <3>2 DEF PrerequisitesFirst
        <4> QED BY <2>2, <3>2, <4>1
      <3>3. CASE k = Len(srlAll) + 1
        <4>1. p \in Range(srlAll)
          BY <1>0, <1>4, <2>2, <3>1, <3>3 DEF preqsSatisfied, safeAsPreq
        <4>2. \E j \in 1 .. Len(srlAll) : srlAll[j] = p
          BY <4>1 DEF Range
        <4> QED BY <2>2, <3>3, <4>2
      <3> QED BY <2>2, <3>2, <3>3
    <2>9. NoDoubles'
      <3>1. \A k \in 1 .. Len(srlAll) : srlAll[k] # name
        BY <1>4 DEF toDo, safeAsPreq, Range
      <3> QED BY <2>2, <3>1 DEF NoDoubles
    <2> QED BY <2>3, <2>7, <2>8, <2>9
  <1> QED BY <1>1, <1>2, <1>3, <1>4

\* The end of a pass.
LEMMA PassStep == ASSUME IInv, orderPassEnds PROVE IInv'
  <1> USE DEF IInv
  <1>0. /\ phase = "ordering" /\ pos > Len(compTypeNames)
        /\ UNCHANGED << config, prerequisiteComps, dependentComps, srlAll >>
        /\ ~namesUnknown /\ prerequisiteComps = dependencies
        /\ Range(srlAll) \subseteq {c \in Comps : serializable(c)}
    BY DEF orderPassEnds, Progress
  <1>1. CASE compsRemain
    <2>1. pos' = 1 /\ compsRemain' = FALSE /\ UNCHANGED << phase, exitCode >>
      BY <1>1 DEF orderPassEnds
    <2>2. TypeOK'
      <3>1. Len(compTypeNames) \in Nat
        BY NamesAssumption
      <3>2. pos' \in 1 .. Len(compTypeNames) + 1
        BY <2>1, <3>1
      <3> QED BY <1>0, <2>1, <3>2 DEF TypeOK, config
    <2>3. Progress'
      BY <1>0, <2>1 DEF Progress, Range, config, serializable, namesUnknown
    <2> QED BY <1>0, <2>2, <2>3, SameOrder
  <1>2. CASE ~compsRemain
    <2>1. UNCHANGED << pos, compsRemain >> /\ phase' = "exited" /\ exitCode' = 0
      BY <1>2 DEF orderPassEnds, exit
    <2>2. TypeOK'
      BY <1>0, <2>1 DEF TypeOK, config
    <2>3. \A c \in Comps : settled(c)
      <3>1. \A k \in 1 .. pos - 1 : settled(compTypeNames[k])
        BY <1>0, <1>2 DEF Progress
      <3>2. \A k \in 1 .. Len(compTypeNames) : k \in 1 .. pos - 1
        BY <1>0, NamesAssumption DEF TypeOK
      <3> QED BY <3>1, <3>2, NamesAssumption
    <2>4. Progress'
      BY <1>0, <2>1, <2>3
      DEF Progress, Range, config, serializable, safeAsPreq, settled, namesUnknown
    <2> QED BY <1>0, <2>2, <2>4, SameOrder
  <1> QED BY <1>1, <1>2

\* The four steps together, and no step.
LEMMA NextInv == IInv /\ [Next]_vars => IInv'
  <1> SUFFICES ASSUME IInv, [Next]_vars PROVE IInv'
    OBVIOUS
  <1>1. CASE readDependencies
    BY <1>1, ReadStep
  <1>2. CASE fillDependentComps
    BY <1>2, FillStep
  <1>3. CASE orderComp
    BY <1>3, OrderStep
  <1>4. CASE orderPassEnds
    BY <1>4, PassStep
  <1>5. CASE UNCHANGED vars
    BY <1>5 DEF IInv, TypeOK, Progress, PrerequisitesFirst, NoDoubles, vars, config, Range,
                serializable, safeAsPreq, settled, invalidArg, namesUnknown, needsUnserializable
  <1> QED BY <1>1, <1>2, <1>3, <1>4, <1>5 DEF Next

\* So the invariant always holds.
LEMMA Inductive == Spec => []IInv
  BY InitInv, NextInv, PTL DEF Spec

--------------------------------------------------------------------------
\* Every variable keeps its type: in particular no unknown name ever gets
\* among the prerequisites.
THEOREM GeneratorTypes == Spec => []TypeOK
  <1>1. IInv => TypeOK
    BY DEF IInv
  <1> QED BY Inductive, <1>1, PTL

\* The serialize calls are in an order that is safe for every configuration
\* and every order of declaration, at every point of the loop.
THEOREM OrderSafe == Spec => []PrerequisitesFirst
  <1>1. IInv => PrerequisitesFirst
    BY DEF IInv
  <1> QED BY Inductive, <1>1, PTL

\* No call is written twice, and a generator that succeeds has written all.
THEOREM OrderComplete == Spec => []WrittenOnce
  <1>1. IInv => WrittenOnce
    BY DEF IInv, NoDoubles, WrittenOnce, Progress, settled, safeAsPreq
  <1> QED BY Inductive, <1>1, PTL

\* The generator turns down what it has to, with the right code, and nothing
\* else.
THEOREM ExitCodeCorrect == Spec => []ExitCodeRight
  <1>1. IInv => ExitCodeRight
    <2> SUFFICES ASSUME IInv, phase = "exited" PROVE ExitCodeRight
      BY DEF ExitCodeRight
    <2>1. CASE exitCode = -13
      BY <2>1 DEF IInv, Progress, ExitCodeRight
    <2>2. CASE exitCode = -20
      BY <2>2 DEF IInv, Progress, ExitCodeRight
    <2>3. CASE exitCode = 0
      <3>1. /\ Range(srlAll) = {c \in Comps : serializable(c)}
            /\ ~namesUnknown
        BY <2>3 DEF IInv, Progress, settled, safeAsPreq
      <3>2. ASSUME NEW c \in Comps, serializable(c), NEW p \in dependencies[c]
            PROVE  serializable(p)
        <4>1. PICK k \in 1 .. Len(srlAll) : srlAll[k] = c
          BY <3>1, <3>2 DEF Range
        <4>2. PICK j \in 1 .. k - 1 : srlAll[j] = p
          BY <4>1, <3>2 DEF IInv, PrerequisitesFirst
        <4>3. srlAll \in Seq(Comps) /\ Len(srlAll) \in Nat
          BY DEF IInv, TypeOK
        <4>4. p \in Range(srlAll)
          BY <4>2, <4>3 DEF Range
        <4> QED BY <3>1, <4>4
      <3>3. ~needsUnserializable
        BY <3>2 DEF needsUnserializable
      <3> QED BY <2>3, <3>1, <3>3 DEF ExitCodeRight
    <2> QED BY <2>1, <2>2, <2>3 DEF IInv, TypeOK
  <1> QED BY Inductive, <1>1, PTL

\* With a cycle among the serializable types, no order is ever complete: the
\* first type of the cycle that was written would have needed another before
\* it.  So the generator exits only over something else that is wrong.
THEOREM CyclesNeverPass == Spec => []CyclesLoop
  <1>1. IInv => CyclesLoop
    <2> SUFFICES ASSUME IInv, phase = "exited", exitCode = 0, cyclic PROVE FALSE
      BY DEF IInv, TypeOK, Progress, CyclesLoop
    <2>1. PICK S \in SUBSET {c \in Comps : serializable(c)} :
            S # {} /\ \A c \in S : dependencies[c] \intersect S # {}
      BY DEF cyclic
    <2>2. Range(srlAll) = {c \in Comps : serializable(c)} /\ Len(srlAll) \in Nat
      BY DEF IInv, TypeOK, Progress, settled, safeAsPreq
    <2> DEFINE places == {k \in 1 .. Len(srlAll) : srlAll[k] \in S}
    <2>3. places # {} /\ places \in SUBSET Nat
      <3>1. PICK c \in S : c \in Range(srlAll)
        BY <2>1, <2>2
      <3>2. DOMAIN srlAll = 1 .. Len(srlAll)
        BY DEF IInv, TypeOK
      <3> QED
        BY <2>2, <3>1, <3>2 DEF Range
    <2>4. PICK k \in places : \A j \in places : k <= j
      BY <2>3, NatMin
    <2>5. PICK p \in dependencies[srlAll[k]] : p \in S
      BY <2>1, <2>4
    <2>6. PICK j \in 1 .. k - 1 : srlAll[j] = p
      BY <2>4, <2>5 DEF IInv, PrerequisitesFirst
    <2>7. j \in places /\ j < k
      BY <2>2, <2>4, <2>5, <2>6
    <2> QED BY <2>2, <2>4, <2>7
  <1> QED BY Inductive, <1>1, PTL

====
