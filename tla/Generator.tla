---- MODULE Generator ----
(***************************************************************************)
(* The algorithm in ecsGenerator.cpp (main), which GeneratorMain puts into *)
(* the rest of main: it reads                                              *)
(* the uses of EZECS_COMPONENT_DEPENDENCIES and EZECS_COMPONENT_ATTRIBS,   *)
(* inverts the dependencies, and orders the serialize<Comp> calls, so that *)
(* "no dependent comps are processed before their prerequisites".  A       *)
(* configuration is any in which every type is declared once and has a     *)
(* constructor definition; its macros may name types that do not exist.    *)
(***************************************************************************)
EXTENDS Integers, Sequences, FiniteSets

CONSTANTS
    Comps,          \* the declared component types
    compTypeNames,  \* Comps in the order of their declaration
    Unknown         \* a name that is not a declared type

ASSUME NamesAssumption ==
    /\ Unknown \notin Comps
    /\ compTypeNames \in Seq(Comps)
    /\ \A c \in Comps : \E i \in 1 .. Len(compTypeNames) : compTypeNames[i] = c
    /\ \A i, j \in 1 .. Len(compTypeNames) : compTypeNames[i] = compTypeNames[j] => i = j

VARIABLES
    dependencies,       \* what the file says: [Comps -> SUBSET (Comps and Unknown)]
    noserialize,        \* the types it marks noserialize
    prerequisiteComps,  \* [Comps -> SUBSET Comps], as far as read
    dependentComps,     \* its inverse, once filled in
    pos,                \* the next type of the loop over compTypeNames
    compsRemain,
    srlAll,             \* the types whose serialize call is written, in order
    phase,              \* the loop of main that is running, or "exited"
    exitCode

config == << dependencies, noserialize >>
vars == << config, prerequisiteComps, dependentComps, pos, compsRemain, srlAll, phase, exitCode >>

Range(s) == {s[k] : k \in 1 .. Len(s)}

serializable(c) == c \notin noserialize

\* safeAsPreq is set when, and only when, the call is written.
safeAsPreq(c) == c \in Range(srlAll)

name == compTypeNames[pos]

exit(code) == phase' = "exited" /\ exitCode' = code

\* Whether a use of EZECS_COMPONENT_DEPENDENCIES names something that is no
\* declared type.  The bug variant asks that of all the arguments together.
onlyInvalidArgs(c) == dependencies[c] = {Unknown}
invalidArg(c) == Unknown \in dependencies[c]

\* One use of EZECS_COMPONENT_DEPENDENCIES.  What was read before the argument
\* that fails is of no use to anyone.
readDependencies ==
    /\ phase = "reading" /\ pos <= Len(compTypeNames)
    /\ IF invalidArg(name)
       THEN exit(-13) /\ UNCHANGED << prerequisiteComps, pos >>
       ELSE /\ prerequisiteComps' = [prerequisiteComps EXCEPT ![name] = dependencies[name]]
            /\ pos' = pos + 1
            /\ UNCHANGED << phase, exitCode >>
    /\ UNCHANGED << config, dependentComps, compsRemain, srlAll >>

\* Then dependentComps, for every type and each of its prerequisites.
fillDependentComps ==
    /\ phase = "reading" /\ pos > Len(compTypeNames)
    /\ dependentComps' = [c \in Comps |-> {d \in Comps : c \in prerequisiteComps[d]}]
    /\ phase' = "ordering" /\ pos' = 1 /\ compsRemain' = FALSE
    /\ UNCHANGED << config, prerequisiteComps, srlAll, exitCode >>

\* The test on the prerequisites of a type whose call is not written yet.
\* The bug variant is satisfied with any one of them.
anyPreqSatisfied(c) ==
    prerequisiteComps[c] = {} \/ \E p \in prerequisiteComps[c] : safeAsPreq(p)
preqsSatisfied(c) == \A p \in prerequisiteComps[c] : safeAsPreq(p)

\* Whether a prerequisite that is not written can never be.  One bug variant
\* drops the test of what it is, the other asks it of all prerequisites.
dependsOnUnwritten(c) == \E p \in prerequisiteComps[c] : ~safeAsPreq(p)
onlyOnUnserializable(c) ==
    prerequisiteComps[c] # {} /\ \A p \in prerequisiteComps[c] : ~serializable(p)
dependsOnUnserializable(c) ==
    \E p \in prerequisiteComps[c] : ~safeAsPreq(p) /\ ~serializable(p)

\* One type in a pass of the while loop.  The bug variant writes the call
\* again in every pass.
everyPass(c) == serializable(c)
toDo(c) == serializable(c) /\ ~safeAsPreq(c)

orderComp ==
    /\ phase = "ordering" /\ pos <= Len(compTypeNames)
    /\ \/ /\ ~toDo(name)
          /\ pos' = pos + 1 /\ UNCHANGED << compsRemain, srlAll, phase, exitCode >>
       \/ /\ toDo(name) /\ dependsOnUnserializable(name)
          /\ exit(-20) /\ UNCHANGED << pos, compsRemain, srlAll >>
       \/ /\ toDo(name) /\ ~dependsOnUnserializable(name)
          /\ pos' = pos + 1
          /\ IF preqsSatisfied(name)
             THEN srlAll' = Append(srlAll, name) /\ UNCHANGED compsRemain
             ELSE compsRemain' = TRUE /\ UNCHANGED srlAll
          /\ UNCHANGED << phase, exitCode >>
    /\ UNCHANGED << config, prerequisiteComps, dependentComps >>

\* The end of a pass: another one if it left a type out.
orderPassEnds ==
    /\ phase = "ordering" /\ pos > Len(compTypeNames)
    /\ IF compsRemain
       THEN pos' = 1 /\ compsRemain' = FALSE /\ UNCHANGED << phase, exitCode >>
       ELSE exit(0) /\ UNCHANGED << pos, compsRemain >>
    /\ UNCHANGED << config, prerequisiteComps, dependentComps, srlAll >>

Init ==
    /\ dependencies \in [Comps -> SUBSET (Comps \union {Unknown})]
    /\ noserialize \in SUBSET Comps
    /\ prerequisiteComps = [c \in Comps |-> {}]
    /\ dependentComps = [c \in Comps |-> {}]
    /\ pos = 1 /\ compsRemain = TRUE /\ srlAll = << >>
    /\ phase = "reading" /\ exitCode = 0

Next == readDependencies \/ fillDependentComps \/ orderComp \/ orderPassEnds

Spec == Init /\ [][Next]_vars

--------------------------------------------------------------------------
(* Properties *)

TypeOK ==
    /\ dependencies \in [Comps -> SUBSET (Comps \union {Unknown})]
    /\ noserialize \subseteq Comps
    /\ prerequisiteComps \in [Comps -> SUBSET Comps]
    /\ dependentComps \in [Comps -> SUBSET Comps]
    /\ pos \in 1 .. Len(compTypeNames) + 1
    /\ compsRemain \in BOOLEAN
    /\ srlAll \in Seq(Comps)
    /\ phase \in {"reading", "ordering", "exited"}
    /\ exitCode \in {0, -13, -20}

\* "(De)Serialization order must ensure no dependent comps are processed
\* before their prerequisites": whatever order the types are declared in, and
\* also while the order is only half written.
PrerequisitesFirst ==
    \A k \in 1 .. Len(srlAll) : \A p \in dependencies[srlAll[k]] :
        \E j \in 1 .. k - 1 : srlAll[j] = p

\* No type is ever written twice, and when the generator succeeds every
\* serializable type is written: reading a stream consumes what writing it
\* produced.
WrittenOnce ==
    /\ \A j, k \in 1 .. Len(srlAll) : srlAll[j] = srlAll[k] => j = k
    /\ phase = "exited" /\ exitCode = 0 => Range(srlAll) = {c \in Comps : serializable(c)}

\* Configurations the generator has to turn down, and those with a cycle.
namesUnknown == \E c \in Comps : Unknown \in dependencies[c]
needsUnserializable ==
    \E c \in Comps : serializable(c) /\ \E p \in dependencies[c] : ~serializable(p)
cyclic ==
    \E S \in SUBSET {c \in Comps : serializable(c)} :
        S # {} /\ \A c \in S : dependencies[c] \intersect S # {}

\* The generator exits with the code for what is wrong, and with 0 only if
\* nothing is.
ExitCodeRight ==
    phase = "exited" =>
        exitCode = IF namesUnknown THEN -13 ELSE IF needsUnserializable THEN -20 ELSE 0

\* "Currently, component dependency cycles will result in infinite loops"
\* (ecsGenerator.cpp:33), except in configurations it turns down first.
CyclesLoop ==
    phase = "exited" /\ cyclic => namesUnknown \/ needsUnserializable

====
