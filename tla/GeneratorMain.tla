---- MODULE GeneratorMain ----
(***************************************************************************)
(* The whole of main in ecsGenerator.cpp: what it is started with, the     *)
(* files it reads, the sections it looks for, the macros, the constructors *)
(* and the four files it writes, around the algorithm of Generator.  Every *)
(* check has its exit code; whatever is wrong, main goes as far as the     *)
(* first check that fails.                                                 *)
(*                                                                         *)
(* "at" is the place in the list that a stage goes through.  Texts and     *)
(* regular expressions are abstracted to what they find.                   *)
(***************************************************************************)
EXTENDS Generator, ArgLists

CONSTANTS
    NumConfigs,     \* the configuration files on the command line
    CtorArgs,       \* the argument lists a constructor may have
    DiskHolds       \* what is written to a file that could be opened gets
                    \* there

ASSUME MainAssumption == NumConfigs \in Nat \ {0}

VARIABLES
    given,      \* what main is started with
    stage, at,
    emitted,    \* what is generated for a type, apart from its place in
                \* srlAll
    idxCnt,     \* the static counter in genStateCDefns
    outputs,    \* the files in the output directory
    returned    \* what main returns

mainVars == << given, stage, at, emitted, idxCnt, outputs, returned >>
allVars == << vars, mainVars >>

\* The configuration files, then the four templates.
inputFiles == 1 .. NumConfigs + 4
outputFiles == 1 .. 4

\* The comments a configuration file must have, in the order in which they
\* are looked for; each END only after its BEGIN, and the definitions only
\* after BEGIN DECLARATIONS.
sections == << "BEGIN INCLUDES", "END INCLUDES", "BEGIN DECLARATIONS",
               "END DECLARATIONS", "BEGIN DEFINITIONS", "END DEFINITIONS" >>
sectionCode == << -7, -8, -7, -8, -9, -10 >>

\* strayDependency: a use of EZECS_COMPONENT_DEPENDENCIES whose first argument
\* is no declared type.  attributeFaults: what is wrong with the uses of
\* EZECS_COMPONENT_ATTRIBS, by its exit code.
Given == [
    enoughArgs      : BOOLEAN,
    unreadable      : SUBSET inputFiles,
    missing         : [1 .. NumConfigs -> SUBSET (1 .. 6)],
    strayDependency : BOOLEAN,
    attributeFaults : SUBSET {-14, -15},
    noConstructor   : SUBSET Comps,
    ctorArgs        : [Comps -> CtorArgs],
    unwritable      : SUBSET outputFiles]

return(code) == stage' = "done" /\ returned' = code
goOn(next) == stage' = next /\ at' = 1 /\ UNCHANGED returned

--------------------------------------------------------------------------
checkArguments ==
    /\ stage = "arguments"
    /\ IF given.enoughArgs THEN goOn("files") ELSE return(-1) /\ UNCHANGED at
    /\ UNCHANGED << vars, given, emitted, idxCnt, outputs >>

inputCode(k) == IF k <= NumConfigs THEN -2 ELSE -2 - (k - NumConfigs)

openInput ==
    /\ stage = "files"
    /\ IF at \notin inputFiles THEN goOn("sections")
       ELSE IF at \in given.unreadable THEN return(inputCode(at)) /\ UNCHANGED at
       ELSE at' = at + 1 /\ UNCHANGED << stage, returned >>
    /\ UNCHANGED << vars, given, emitted, idxCnt, outputs >>

\* All sections of one configuration file.
firstOf(S) == CHOOSE k \in S : \A j \in S : k <= j

findSections ==
    /\ stage = "sections"
    /\ IF at > NumConfigs THEN goOn("macros")
       ELSE IF given.missing[at] # {}
       THEN return(sectionCode[firstOf(given.missing[at])]) /\ UNCHANGED at
       ELSE at' = at + 1 /\ UNCHANGED << stage, returned >>
    /\ UNCHANGED << vars, given, emitted, idxCnt, outputs >>

\* The uses of the macros come in any order, a stray one anywhere among them.
useDependency ==
    /\ stage = "macros"
    /\ \/ /\ readDependencies
          /\ IF phase' = "exited" THEN return(exitCode') ELSE UNCHANGED << stage, returned >>
       \/ /\ given.strayDependency /\ return(-12) /\ UNCHANGED vars
    /\ UNCHANGED << given, at, emitted, idxCnt, outputs >>

useAttributes ==
    /\ stage = "macros" /\ phase = "reading"
    /\ pos > Len(compTypeNames) /\ ~given.strayDependency
    /\ IF given.attributeFaults = {} THEN goOn("inverting")
       ELSE (\E code \in given.attributeFaults : return(code)) /\ UNCHANGED at
    /\ UNCHANGED << vars, given, emitted, idxCnt, outputs >>

invertDependencies ==
    /\ stage = "inverting"
    /\ fillDependentComps /\ goOn("constructors")
    /\ UNCHANGED << given, emitted, idxCnt, outputs >>

\* Whether a type takes a number for its stream.  The bug variant gives none
\* to a type that writes no arguments.
streamWithArgs(c) == serializable(c) /\ given.ctorArgs[c] # << >>
takesStream(c) == serializable(c)

\* resolveSimpleStrings for the type, from the constructor that was found.
findConstructor ==
    /\ stage = "constructors"
    /\ IF at > Len(compTypeNames)
       THEN goOn("ordering") /\ UNCHANGED << emitted, idxCnt >>
       ELSE LET c == compTypeNames[at]
            IN  IF c \in given.noConstructor
                THEN return(-11) /\ UNCHANGED << at, emitted, idxCnt >>
                ELSE /\ emitted' = [emitted EXCEPT ![c] =
                          [done   |-> TRUE,
                           names  |-> getNamesFromArgList(given.ctorArgs[c]),
                           ptrs   |-> getPtrsFromArgList(given.ctorArgs[c]),
                           stream |-> idxCnt]]
                     /\ idxCnt' = IF takesStream(c) THEN idxCnt + 1 ELSE idxCnt
                     /\ at' = at + 1
                     /\ UNCHANGED << stage, returned >>
    /\ UNCHANGED << vars, given, outputs >>

orderSerialization ==
    /\ stage = "ordering"
    /\ orderComp \/ orderPassEnds
    /\ IF phase' # "exited" THEN UNCHANGED << stage, at, returned >>
       ELSE IF exitCode' # 0 THEN return(exitCode') /\ UNCHANGED at
       ELSE goOn("outputs")
    /\ UNCHANGED << given, emitted, idxCnt, outputs >>

outputCode(f) == -15 - f

\* Every file is opened, which empties it, and given up if that fails.  The
\* bug variant does not look.
unchecked(f) == TRUE
opened(f) == f \notin given.unwritable

\* What ends up in a file.  main never asks whether all of its text did.
received(f) ==
    IF f \in given.unwritable THEN {outputs[f]}
    ELSE {"new"} \union (IF DiskHolds THEN {} ELSE {"cut"})

writeOutput ==
    /\ stage = "outputs"
    /\ IF at \notin outputFiles THEN return(0) /\ UNCHANGED << at, outputs >>
       ELSE IF ~opened(at) THEN return(outputCode(at)) /\ UNCHANGED << at, outputs >>
       ELSE /\ \E content \in received(at) : outputs' = [outputs EXCEPT ![at] = content]
            /\ at' = at + 1
            /\ UNCHANGED << stage, returned >>
    /\ UNCHANGED << vars, given, emitted, idxCnt >>

--------------------------------------------------------------------------
nothing == [done |-> FALSE, names |-> << >>, ptrs |-> << >>, stream |-> 0]

\* main, started with g.
StartedWith(g) ==
    /\ Init
    /\ given = g
    /\ stage = "arguments" /\ at = 1 /\ returned = 0
    /\ emitted = [c \in Comps |-> nothing] /\ idxCnt = 0
    /\ outputs = [f \in outputFiles |-> "old"]

MainInit == \E g \in Given : StartedWith(g)

MainNext ==
    \/ checkArguments \/ openInput \/ findSections
    \/ useDependency \/ useAttributes \/ invertDependencies
    \/ findConstructor \/ orderSerialization \/ writeOutput

MainSpec == MainInit /\ [][MainNext]_allVars

--------------------------------------------------------------------------
(* Properties *)

stages == {"arguments", "files", "sections", "macros", "inverting", "constructors",
           "ordering", "outputs", "done"}

MainTypeOK ==
    /\ TypeOK
    /\ stage \in stages
    /\ at \in (1 .. NumConfigs + 5) \union (1 .. Len(compTypeNames) + 1)
    /\ \A c \in Comps : emitted[c].done \in BOOLEAN /\ emitted[c].stream \in 0 .. Len(compTypeNames)
    /\ idxCnt \in 0 .. Len(compTypeNames)
    /\ outputs \in [outputFiles -> {"old", "new", "cut"}]
    /\ returned \in -20 .. 0

\* What each check of main would return, in the order of the checks; the
\* macros are read in the order of the file, so that either of two codes may
\* come first.
ifSo(cond, code) == IF cond THEN {code} ELSE {}
faults ==
    << ifSo(~given.enoughArgs, -1),
       IF given.unreadable = {} THEN {} ELSE {inputCode(firstOf(given.unreadable))} >>
    \o [k \in 1 .. NumConfigs |->
            IF given.missing[k] = {} THEN {} ELSE {sectionCode[firstOf(given.missing[k])]}]
    \o << ifSo(given.strayDependency, -12) \union ifSo(namesUnknown, -13),
          given.attributeFaults,
          ifSo(given.noConstructor # {}, -11),
          ifSo(needsUnserializable, -20),
          IF given.unwritable = {} THEN {} ELSE {outputCode(firstOf(given.unwritable))} >>

\* main returns the code of the first thing that is wrong and 0 if nothing
\* is: no later stage looks at what an earlier one has not accepted.
ReturnsFirstFault ==
    stage = "done" =>
        LET wrong == {k \in DOMAIN faults : faults[k] # {}}
        IN  IF wrong = {} THEN returned = 0 ELSE returned \in faults[firstOf(wrong)]

\* The four files are written together: when main returns 0 all of them are
\* this run's, and they are left alone when it turns the configuration down.
\* Only a file that cannot be opened leaves new files beside old ones.
OutputsTogether ==
    /\ stage = "done" /\ returned = 0 => \A f \in outputFiles : outputs[f] = "new"
    /\ (\E f \in outputFiles : outputs[f] # "old") =>
          stage = "outputs" \/ returned \in {0} \union {outputCode(f) : f \in given.unwritable}

\* What add<Comp> passes on and what request<Comp> takes the address of are
\* the arguments the constructor declares, one by one.
ArgumentsPassedOn ==
    \A c \in Comps : emitted[c].done =>
        /\ namesRight(given.ctorArgs[c], emitted[c].names)
        /\ pointersRight(given.ctorArgs[c], emitted[c].ptrs)

\* Two types that are serialized never share a stream, and as many streams
\* as there are types are enough.
StreamsFit ==
    \A c, d \in Comps :
        emitted[c].done /\ emitted[d].done /\ serializable(c) /\ serializable(d) =>
            /\ emitted[c].stream < Len(compTypeNames)
            /\ c # d => emitted[c].stream # emitted[d].stream

\* main ends unless there is a cycle (ecsGenerator.cpp:32-33).
MainTerminates == ~cyclic => <>(stage = "done")

====
