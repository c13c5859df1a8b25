---- MODULE EcsComponents ----
(***************************************************************************)
(* The component types of a generated ECS and the masks that relate them   *)
(* (source/ecsComponents.hpp and .cpp, and the part of ecsGenerator.cpp    *)
(* that fills in their generated sections).  A compMask is a set of        *)
(* component types: bitwise or is union, `& ~` is set difference, NONE is  *)
(* the empty set.                                                          *)
(***************************************************************************)
EXTENDS Naturals, Sequences, FiniteSets

CONSTANTS
    Comps,          \* the component types the configuration file declares
    EXISTENCE,      \* the flag of the built-in Existence component
    CompOrder,      \* Comps in the order of their declaration
    Prereqs,        \* [Comps -> SUBSET Comps], EZECS_COMPONENT_DEPENDENCIES
    Persistent      \* the types EZECS_COMPONENT_ATTRIBS marks persistent

\* The generator reads the declarations in order, gives each type its own
\* bit, and looks up the prerequisites among the declared types.
ASSUME CompsAssumption ==
    /\ EXISTENCE \notin Comps
    /\ CompOrder \in Seq(Comps)
    /\ \A c \in Comps : \E i \in 1 .. Len(CompOrder) : CompOrder[i] = c
    /\ Prereqs \in [Comps -> SUBSET Comps]
    /\ Persistent \subseteq Comps

AllComps == Comps \union {EXISTENCE}

compMask == SUBSET AllComps

--------------------------------------------------------------------------
\* Component<c>::requiredComps, generated as Existence | prerequisites.
requiredComps(c) == {EXISTENCE} \union Prereqs[c]

\* Component<c>::dependentComps, the inverse relation.  The bug variant
\* takes the relation in the wrong direction.
prerequisiteComps(c) == Prereqs[c]
dependentComps(c) == {d \in Comps : c \in Prereqs[d]}

\* persistenceMask, the flags of the persistent component types.
persistenceMask == Persistent

--------------------------------------------------------------------------
\* Existence's helpers on its own field componentsPresent (here: present).
\* The bug variant is satisfied with any one prerequisite.
passesAnyPrerequisite(present, required) == required \intersect present # {}
passesPrerequisitesForAddition(present, required) == required \subseteq present

passesDependenciesForRemoval(present, dependent) == dependent \intersect present = {}

turnOnFlags(present, mask) == present \union mask

\* The bug variant leaves the flag of a removed component on.
leaveFlagsOn(present, mask) == present
turnOffFlags(present, mask) == present \ mask

--------------------------------------------------------------------------
\* Entering the likeness.  The bug variant does not look at what the entity
\* had before.
firesOnEveryMatch(likeness, current, typeAdded) ==
    likeness \subseteq (current \union {typeAdded})
shouldFireAdditionDlgt(likeness, current, typeAdded) ==
    /\ ~(likeness \subseteq current)
    /\ likeness \subseteq (current \union {typeAdded})

\* Leaving the likeness.  The bug variant fires only for a listener that
\* asked for nothing but the removed component.
firesOnSoleComponent(likeness, current, typeRemoved) ==
    /\ likeness \subseteq current
    /\ likeness \ {typeRemoved} = {}
shouldFireRemovalDlgt(likeness, current, typeRemoved) ==
    /\ likeness \subseteq current
    /\ likeness \ {typeRemoved} # likeness

====
