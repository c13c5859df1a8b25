---- MODULE GeneratorMainProofs ----
(***************************************************************************)
(* Proofs about GeneratorMain, for every set of component types and        *)
(* everything main may be started with.  Everything around the algorithm   *)
(* leaves it alone, so what GeneratorProofs shows of Generator holds of    *)
(* main; the types, the streams, the output files, the arguments and the   *)
(* exit codes have inductive invariants of their own.                      *)
(***************************************************************************)
EXTENDS GeneratorMain, GeneratorProofs

\* A step of main is a step of the algorithm or leaves its variables alone.
LEMMA CoreStep == [MainNext]_allVars => [Next]_vars
  BY DEF MainNext, allVars, Next, checkArguments, openInput, findSections, useDependency,
         useAttributes, invertDependencies, findConstructor, orderSerialization, writeOutput

\* main begins with the algorithm at its beginning.
LEMMA CoreInit == MainInit => Init
  BY DEF MainInit, StartedWith

\* main, whatever it is started with, runs the algorithm of Generator.
THEOREM MainRunsGenerator == MainSpec => Spec
  BY CoreInit, CoreStep, PTL DEF MainSpec, Spec

\* The order that main writes is safe, whatever else is wrong with what it was
\* started with.
THEOREM MainOrderSafe == MainSpec => []PrerequisitesFirst
  BY MainRunsGenerator, OrderSafe, PTL

--------------------------------------------------------------------------
(* Streams *)

early == {"arguments", "files", "sections", "macros", "inverting"}

stillToCome == \A c \in Comps : ~emitted[c].done

\* The types with a number are those the loop has been at, and a number is
\* less than the counter and than the number of types.
StreamInv ==
    /\ emitted = [c \in Comps |-> emitted[c]]
    /\ idxCnt \in Nat /\ at \in Nat \ {0}
    /\ stage \in early => stillToCome /\ idxCnt = 0
    /\ stage = "constructors" =>
          /\ idxCnt < at /\ at <= Len(compTypeNames) + 1
          /\ \A k \in at .. Len(compTypeNames) : ~emitted[compTypeNames[k]].done
    /\ \A c \in Comps : emitted[c].done /\ serializable(c) =>
          emitted[c].stream \in Nat /\ emitted[c].stream < idxCnt
    /\ StreamsFit

\* The configuration never changes.
LEMMA SameConfig == [MainNext]_allVars => noserialize' = noserialize
  BY CoreStep DEF Next, vars, config, readDependencies, fillDependentComps, orderComp, orderPassEnds

\* No type has a stream at the start.
LEMMA StreamInit == MainInit => StreamInv
  BY DEF MainInit, StartedWith, StreamInv, StreamsFit, stillToCome, nothing, early

\* The constructor loop gives a type a stream that no other type has.
LEMMA StreamNew == StreamInv /\ findConstructor => StreamInv'
  <1> SUFFICES ASSUME StreamInv, findConstructor PROVE StreamInv'
    OBVIOUS
  <1>0. noserialize' = noserialize
    BY DEF findConstructor, vars, config
  <1>1. CASE at > Len(compTypeNames)
    BY <1>0, <1>1 DEF findConstructor, goOn, StreamInv, StreamsFit, stillToCome, early, serializable
  <1>2. CASE at <= Len(compTypeNames)
    <2> DEFINE c == compTypeNames[at]
    <2>0. Len(compTypeNames) \in Nat /\ at \in 1 .. Len(compTypeNames) /\ c \in Comps
      BY <1>2, NamesAssumption DEF StreamInv
    <2>1. CASE c \in given.noConstructor
      <3>1. UNCHANGED << emitted, idxCnt, at >> /\ stage' = "done"
        BY <2>0, <2>1, <1>2 DEF findConstructor, return, StreamInv
      <3> QED
        BY <1>0, <3>1 DEF StreamInv, StreamsFit, stillToCome, early, serializable
    <2>2. CASE c \notin given.noConstructor
      <3>1. /\ stage = "constructors" /\ stage' = "constructors" /\ at' = at + 1
            /\ idxCnt' = IF serializable(c) THEN idxCnt + 1 ELSE idxCnt
            /\ emitted' = [emitted EXCEPT ![c] =
                   [done   |-> TRUE,
                    names  |-> getNamesFromArgList(given.ctorArgs[c]),
                    ptrs   |-> getPtrsFromArgList(given.ctorArgs[c]),
                    stream |-> idxCnt]]
        BY <2>0, <2>2, <1>2 DEF findConstructor, takesStream, StreamInv
      <3>2. /\ emitted'[c].done /\ emitted'[c].stream = idxCnt
            /\ \A d \in Comps : d # c => emitted'[d] = emitted[d]
            /\ emitted' = [d \in Comps |-> emitted'[d]]
        BY <3>1, <2>0 DEF StreamInv
      <3>3. idxCnt < at /\ idxCnt < Len(compTypeNames) /\ idxCnt \in Nat
        BY <3>1, <2>0 DEF StreamInv
      <3>4. \A k \in at + 1 .. Len(compTypeNames) :
                compTypeNames[k] # c /\ compTypeNames[k] \in Comps /\ ~emitted[compTypeNames[k]].done
        <4> SUFFICES ASSUME NEW k \in at + 1 .. Len(compTypeNames)
                     PROVE  /\ compTypeNames[k] # c /\ compTypeNames[k] \in Comps
                            /\ ~emitted[compTypeNames[k]].done
          OBVIOUS
        <4>1. k \in 1 .. Len(compTypeNames) /\ k \in at .. Len(compTypeNames) /\ k # at
          BY <2>0
        <4>2. compTypeNames[k] # c /\ compTypeNames[k] \in Comps
          BY <4>1, <2>0, NamesAssumption
        <4>3. ~emitted[compTypeNames[k]].done
          BY <4>1, <3>1 DEF StreamInv
        <4> QED BY <4>2, <4>3
      <3>5. \A k \in at' .. Len(compTypeNames)' : ~emitted'[compTypeNames[k]].done
        BY <3>1, <3>2, <3>4
      <3>6. idxCnt' \in Nat /\ idxCnt <= idxCnt' /\ idxCnt' < at'
            /\ (serializable(c) => idxCnt < idxCnt')
        BY <3>1, <3>3, <2>0
      <3>7. \A d \in Comps : emitted'[d].done /\ serializable(d) =>
                emitted'[d].stream \in Nat /\ emitted'[d].stream < idxCnt'
        <4> SUFFICES ASSUME NEW d \in Comps, emitted'[d].done, serializable(d)
                     PROVE  emitted'[d].stream \in Nat /\ emitted'[d].stream < idxCnt'
          OBVIOUS
        <4>1. CASE d = c
          BY <4>1, <3>2, <3>3, <3>6
        <4>2. CASE d # c
          <5>1. emitted[d].done /\ emitted[d].stream = emitted'[d].stream
            BY <4>2, <3>2
          <5>2. emitted[d].stream \in Nat /\ emitted[d].stream < idxCnt
            BY <5>1 DEF StreamInv
          <5> QED BY <5>1, <5>2, <3>3, <3>6
        <4> QED BY <4>1, <4>2
      <3>8. StreamsFit'
        <4> SUFFICES ASSUME NEW d \in Comps, NEW e \in Comps, emitted'[d].done, emitted'[e].done,
                            serializable(d), serializable(e)
                     PROVE  /\ emitted'[d].stream < Len(compTypeNames)
                            /\ d # e => emitted'[d].stream # emitted'[e].stream
          BY <1>0 DEF StreamsFit, serializable
        <4>1. \A x \in Comps : x # c /\ emitted'[x].done /\ serializable(x) =>
                  emitted'[x].stream \in Nat /\ emitted'[x].stream < idxCnt
                  /\ emitted'[x].stream < Len(compTypeNames)
          BY <3>2 DEF StreamInv, StreamsFit
        <4>2. d # c /\ e # c /\ d # e => emitted'[d].stream # emitted'[e].stream
          BY <3>2 DEF StreamInv, StreamsFit
        <4> QED BY <4>1, <4>2, <3>2, <3>3
      <3> QED
        BY <1>0, <2>0, <3>1, <3>2, <3>5, <3>6, <3>7, <3>8 DEF StreamInv, serializable, early
    <2> QED BY <2>1, <2>2
  <1> QED BY <1>1, <1>2, NamesAssumption DEF StreamInv

\* No other step touches the streams.
LEMMA StreamNext == StreamInv /\ [MainNext]_allVars => StreamInv'
  <1> SUFFICES ASSUME StreamInv, [MainNext]_allVars PROVE StreamInv'
    OBVIOUS
  <1>0. noserialize' = noserialize
    BY SameConfig
  <1>1. CASE findConstructor
    BY <1>1, StreamNew
  <1> DEFINE Goes ==
        /\ UNCHANGED << emitted, idxCnt >> /\ at' \in Nat \ {0}
        /\ stage' \in early => stage \in early
        /\ stage' = "constructors" => stage \in early /\ at' = 1
  <1>2. Goes => StreamInv'
    BY <1>0, NamesAssumption DEF StreamInv, StreamsFit, stillToCome, serializable
  <1> HIDE DEF Goes
  <1>3. CASE UNCHANGED allVars
    BY <1>3, <1>0 DEF StreamInv, StreamsFit, stillToCome, serializable, allVars, mainVars
  <1>4. CASE checkArguments \/ openInput \/ findSections
    BY <1>2, <1>4
    DEF Goes, checkArguments, openInput, findSections, goOn, return, StreamInv, early
  <1>5. CASE useDependency
    BY <1>2, <1>5 DEF Goes, useDependency, return, StreamInv, early
  <1>6. CASE useAttributes
    BY <1>2, <1>6 DEF Goes, useAttributes, goOn, return, StreamInv, early
  <1>7. CASE invertDependencies
    BY <1>2, <1>7 DEF Goes, invertDependencies, goOn, StreamInv, early
  <1>8. CASE orderSerialization
    BY <1>2, <1>8 DEF Goes, orderSerialization, goOn, return, StreamInv, early
  <1>9. CASE writeOutput
    BY <1>2, <1>9 DEF Goes, writeOutput, return, StreamInv, early
  <1> QED BY <1>1, <1>3, <1>4, <1>5, <1>6, <1>7, <1>8, <1>9 DEF MainNext

\* No two types that are serialized ever share a stream, and a vector of as
\* many streams as there are types has one for each of them.
THEOREM StreamsEnough == MainSpec => []StreamsFit
  <1>1. StreamInv => StreamsFit
    BY DEF StreamInv
  <1> QED BY <1>1, StreamInit, StreamNext, PTL DEF MainSpec

--------------------------------------------------------------------------
(* Output files *)

\* Nothing is written before the last stage; there the files before "at" are
\* new, and could be opened.
OutputInv ==
    /\ given \in Given
    /\ outputs = [f \in outputFiles |-> outputs[f]]
    /\ at \in Nat \ {0}
    /\ stage \notin {"outputs", "done"} => \A f \in outputFiles : outputs[f] = "old"
    /\ stage = "outputs" =>
          at \in 1 .. 5 /\ \A f \in 1 .. at - 1 : outputs[f] = "new"
    /\ OutputsTogether

\* None of the codes that main returns before it writes anything is 0.
LEMMA FirstSection ==
    ASSUME NEW S \in SUBSET (1 .. 6), S # {}
    PROVE  firstOf(S) \in 1 .. 6
  <1>1. \E k \in S : \A j \in S : k <= j
    <2>1. CASE 1 \in S
      BY <2>1
    <2>2. CASE 1 \notin S /\ 2 \in S
      BY <2>2
    <2>3. CASE 1 \notin S /\ 2 \notin S /\ 3 \in S
      BY <2>3
    <2>4. CASE 1 \notin S /\ 2 \notin S /\ 3 \notin S /\ 4 \in S
      BY <2>4
    <2>5. CASE 1 \notin S /\ 2 \notin S /\ 3 \notin S /\ 4 \notin S /\ 5 \in S
      BY <2>5
    <2>6. CASE 1 \notin S /\ 2 \notin S /\ 3 \notin S /\ 4 \notin S /\ 5 \notin S
      <3>1. \A j \in S : j = 6
        BY <2>6
      <3>2. PICK k : k \in S
        OBVIOUS
      <3>3. \A j \in S : k <= j
        BY <3>1, <3>2
      <3> QED BY <3>2, <3>3
    <2> QED BY <2>1, <2>2, <2>3, <2>4, <2>5, <2>6
  <1> QED BY <1>1 DEF firstOf

\* What a stage before the last does to the files: nothing, and if it is the
\* end of main, main does not return 0.
leavesFiles ==
    /\ stage \notin {"outputs", "done"}
    /\ UNCHANGED << given, outputs >> /\ at' \in Nat \ {0}
    /\ stage' = "outputs" => at' = 1
    /\ stage' = "done" => returned' # 0

\* So no stage before the last touches the files, or ends main with 0.
LEMMA EarlyStages ==
    ASSUME OutputInv,
           checkArguments \/ openInput \/ findSections \/ useDependency \/ useAttributes
             \/ invertDependencies \/ findConstructor \/ orderSerialization
    PROVE  leavesFiles
  <1>1. CASE checkArguments
    BY <1>1 DEF checkArguments, goOn, return, leavesFiles, OutputInv
  <1>2. CASE openInput
    <2>1. inputCode(at) # 0
      BY MainAssumption DEF inputCode, OutputInv
    <2> QED
      BY <1>2, <2>1 DEF openInput, goOn, return, leavesFiles, OutputInv
  <1>3. CASE findSections
    <2>1. CASE at > NumConfigs
      BY <1>3, <2>1 DEF findSections, goOn, leavesFiles, OutputInv
    <2>2. CASE ~(at > NumConfigs) /\ given.missing[at] = {}
      BY <1>3, <2>2 DEF findSections, goOn, leavesFiles, OutputInv
    <2>3. CASE ~(at > NumConfigs) /\ given.missing[at] # {}
      <3>1. given.missing[at] \in SUBSET (1 .. 6)
        <4>1. at \in 1 .. NumConfigs
          BY <2>3, MainAssumption DEF OutputInv
        <4>2. given.missing \in [1 .. NumConfigs -> SUBSET (1 .. 6)]
          BY DEF OutputInv, Given
        <4> QED BY <4>1, <4>2
      <3>2. firstOf(given.missing[at]) \in 1 .. 6
        BY <3>1, <2>3, FirstSection
      <3>3. sectionCode[firstOf(given.missing[at])] # 0
        BY <3>2 DEF sectionCode
      <3> QED
        BY <1>3, <2>3, <3>3 DEF findSections, return, leavesFiles, OutputInv
    <2> QED BY <2>1, <2>2, <2>3
  <1>4. CASE useDependency
    BY <1>4 DEF useDependency, readDependencies, exit, return, leavesFiles, OutputInv
  <1>5. CASE useAttributes
    <2>1. given.attributeFaults \subseteq {-14, -15}
      BY DEF OutputInv, Given
    <2> QED
      BY <1>5, <2>1 DEF useAttributes, goOn, return, leavesFiles, OutputInv
  <1>6. CASE invertDependencies
    BY <1>6 DEF invertDependencies, goOn, leavesFiles, OutputInv
  <1>7. CASE findConstructor
    BY <1>7 DEF findConstructor, goOn, return, leavesFiles, OutputInv
  <1>8. CASE orderSerialization
    BY <1>8 DEF orderSerialization, goOn, return, leavesFiles, OutputInv
  <1> QED BY <1>1, <1>2, <1>3, <1>4, <1>5, <1>6, <1>7, <1>8

\* All files are the old ones at the start.
LEMMA OutputInit == MainInit => OutputInv
  BY DEF MainInit, StartedWith, OutputInv, OutputsTogether

\* The last stage replaces them one by one.
LEMMA OutputNext ==
    ASSUME DiskHolds, OutputInv, [MainNext]_allVars
    PROVE  OutputInv'
  <1>1. CASE leavesFiles
    BY <1>1 DEF leavesFiles, OutputInv, OutputsTogether, outputFiles
  <1>2. CASE UNCHANGED allVars
    BY <1>2 DEF allVars, mainVars, OutputInv, OutputsTogether, outputFiles
  <1>3. CASE writeOutput
    <2>0. stage = "outputs" /\ given' = given /\ at \in 1 .. 5
      BY <1>3 DEF writeOutput, OutputInv
    <2>1. CASE at \notin outputFiles
      <3>1. at = 5 /\ stage' = "done" /\ returned' = 0 /\ UNCHANGED << at, outputs >>
        BY <1>3, <2>0, <2>1 DEF writeOutput, return, outputFiles
      <3>2. \A f \in outputFiles : outputs[f] = "new"
        BY <2>0, <3>1 DEF OutputInv, outputFiles
      <3> QED
        BY <2>0, <3>1, <3>2 DEF OutputInv, OutputsTogether, outputFiles
    <2>2. CASE at \in outputFiles /\ at \in given.unwritable
      <3>1. /\ stage' = "done" /\ returned' = outputCode(at) /\ UNCHANGED << at, outputs >>
            /\ outputCode(at) # 0
        BY <1>3, <2>0, <2>2 DEF writeOutput, return, opened, outputCode
      <3> QED
        BY <2>0, <2>2, <3>1 DEF OutputInv, OutputsTogether, outputFiles
    <2>3. CASE at \in outputFiles /\ at \notin given.unwritable
      <3>1. /\ at' = at + 1 /\ stage' = "outputs" /\ returned' = returned
            /\ outputs' = [outputs EXCEPT ![at] = "new"]
        BY <1>3, <2>0, <2>3 DEF writeOutput, opened, received
      <3>2. \A f \in 1 .. at' - 1 : outputs'[f] = "new"
        BY <2>0, <2>3, <3>1 DEF OutputInv, outputFiles
      <3>3. outputs' = [f \in outputFiles |-> outputs'[f]]
        BY <3>1 DEF OutputInv
      <3>4. at' \in 1 .. 5
        BY <2>0, <2>3, <3>1 DEF outputFiles
      <3>5. OutputsTogether'
        BY <3>1 DEF OutputsTogether
      <3> QED
        BY <2>0, <3>1, <3>2, <3>3, <3>4, <3>5 DEF OutputInv
    <2> QED BY <2>1, <2>2, <2>3
  <1> QED BY <1>1, <1>2, <1>3, EarlyStages DEF MainNext

\* Provided that what is written gets to the disk: a generator that returns 0
\* has written all four files, and one that turns its configuration down has
\* written none.
THEOREM OutputsWhole == ASSUME DiskHolds PROVE MainSpec => []OutputsTogether
  <1>1. OutputInv => OutputsTogether
    BY DEF OutputInv
  <1>2. OutputInv /\ [MainNext]_allVars => OutputInv'
    BY OutputNext
  <1> QED BY <1>1, <1>2, OutputInit, PTL DEF MainSpec

--------------------------------------------------------------------------
(* Types *)

\* "at" never leaves the list that its stage goes through.
TypesInv ==
    /\ given \in Given
    /\ stage = "files" => at \in 1 .. NumConfigs + 5
    /\ stage = "sections" => at \in 1 .. NumConfigs + 1
    /\ stage = "constructors" => at \in 1 .. Len(compTypeNames) + 1
    /\ stage = "outputs" => at \in 1 .. 5
    /\ emitted = [c \in Comps |-> emitted[c]]
    /\ MainTypeOK

\* The steps that keep to their list, and generate nothing.
inPlace ==
    /\ UNCHANGED << given, emitted, idxCnt >>
    /\ stage' \in stages
    /\ at' \in (1 .. NumConfigs + 5) \union (1 .. Len(compTypeNames) + 1)
    /\ stage' = "files" => at' \in 1 .. NumConfigs + 5
    /\ stage' = "sections" => at' \in 1 .. NumConfigs + 1
    /\ stage' = "constructors" => at' \in 1 .. Len(compTypeNames) + 1
    /\ stage' = "outputs" => at' \in 1 .. 5
    /\ outputs' \in [outputFiles -> {"old", "new", "cut"}]
    /\ returned' \in -20 .. 0

\* The code for a missing section is one of the codes of main.
LEMMA SectionCodes ==
    ASSUME NEW S \in SUBSET (1 .. 6), S # {}
    PROVE  sectionCode[firstOf(S)] \in -20 .. 0
  BY FirstSection DEF sectionCode

\* Every stage but the constructor loop is such a step.
LEMMA StaysInPlace ==
    ASSUME TypesInv, TypeOK',
           checkArguments \/ openInput \/ findSections \/ useDependency \/ useAttributes
             \/ invertDependencies \/ orderSerialization \/ writeOutput
    PROVE  inPlace
  <1>0. Len(compTypeNames) \in Nat /\ NumConfigs \in Nat \ {0}
    BY NamesAssumption, MainAssumption
  <1>1. CASE checkArguments
    BY <1>0, <1>1 DEF checkArguments, goOn, return, inPlace, TypesInv, MainTypeOK, stages
  <1>2. CASE openInput
    <2>1. at \in 1 .. NumConfigs + 5 /\ UNCHANGED << given, emitted, idxCnt, outputs >>
      BY <1>2 DEF openInput, TypesInv
    <2>2. CASE at \notin inputFiles
      BY <1>0, <1>2, <2>1, <2>2
      DEF openInput, goOn, inPlace, TypesInv, MainTypeOK, stages
    <2>3. CASE at \in inputFiles /\ at \in given.unreadable
      <3>1. inputCode(at) \in -20 .. 0
        BY <1>0, <2>3 DEF inputCode, inputFiles
      <3>2. stage' = "done" /\ returned' \in -20 .. 0 /\ at' = at
        BY <1>2, <2>3, <3>1 DEF openInput, return
      <3> QED
        BY <2>1, <3>2 DEF inPlace, TypesInv, MainTypeOK, stages
    <2>4. CASE at \in inputFiles /\ at \notin given.unreadable
      <3>1. stage' = "files" /\ returned' = returned /\ at' = at + 1
        BY <1>2, <2>4 DEF openInput
      <3>2. at' \in 1 .. NumConfigs + 5
        BY <1>0, <2>1, <2>4, <3>1 DEF inputFiles
      <3> QED
        BY <2>1, <3>1, <3>2 DEF inPlace, TypesInv, MainTypeOK, stages
    <2> QED BY <2>2, <2>3, <2>4
  <1>3. CASE findSections
    <2>1. at \in 1 .. NumConfigs + 1
      BY <1>3 DEF findSections, TypesInv
    <2>2. CASE at > NumConfigs \/ given.missing[at] = {}
      <3>1. CASE at > NumConfigs
        BY <1>0, <1>3, <2>1, <3>1 DEF findSections, goOn, inPlace, TypesInv, MainTypeOK, stages
      <3>2. CASE ~(at > NumConfigs) /\ given.missing[at] = {}
        <4>1. stage' = stage /\ returned' = returned /\ at' = at + 1 /\ at + 1 \in 1 .. NumConfigs + 1
          BY <1>0, <1>3, <2>1, <3>2 DEF findSections
        <4>2. UNCHANGED << given, emitted, idxCnt, outputs >> /\ stage = "sections"
          BY <1>3 DEF findSections
        <4> QED
          BY <1>0, <4>1, <4>2 DEF inPlace, TypesInv, MainTypeOK, stages
      <3> QED BY <2>2, <3>1, <3>2
    <2>3. CASE ~(at > NumConfigs) /\ given.missing[at] # {}
      <3>1. given.missing[at] \in SUBSET (1 .. 6)
        BY <1>0, <2>1, <2>3 DEF TypesInv, Given
      <3> QED
        BY <1>0, <1>3, <2>1, <2>3, <3>1, SectionCodes
        DEF findSections, return, inPlace, TypesInv, MainTypeOK, stages
    <2> QED BY <2>2, <2>3
  <1>4. CASE useDependency
    <2>1. exitCode' \in -20 .. 0
      BY DEF TypeOK
    <2>2. /\ UNCHANGED << given, at, emitted, idxCnt, outputs >>
          /\ stage' \in {"macros", "done"} /\ returned' \in -20 .. 0
      <3>1. stage = "macros" /\ returned \in -20 .. 0
        BY <1>4 DEF useDependency, TypesInv, MainTypeOK
      <3>2. \A code \in -20 .. 0 : return(code) => stage' = "done" /\ returned' \in -20 .. 0
        BY DEF return
      <3>3. \/ return(exitCode') \/ return(-12)
            \/ UNCHANGED << stage, returned >>
        BY <1>4 DEF useDependency
      <3> QED
        BY <1>4, <2>1, <3>1, <3>2, <3>3 DEF useDependency
    <2> QED
      BY <2>2 DEF inPlace, TypesInv, MainTypeOK, stages
  <1>5. CASE useAttributes
    <2>1. given.attributeFaults \subseteq {-14, -15}
      BY DEF TypesInv, Given
    <2> QED
      <3>1. /\ UNCHANGED << given, emitted, idxCnt, outputs >>
            /\ \/ stage' = "inverting" /\ at' = 1
               \/ stage' = "done" /\ at' = at
            /\ returned' \in -20 .. 0
        <4>1. UNCHANGED << given, emitted, idxCnt, outputs >> /\ returned \in -20 .. 0
          BY <1>5 DEF useAttributes, TypesInv, MainTypeOK
        <4>2. CASE given.attributeFaults = {}
          BY <1>5, <4>1, <4>2 DEF useAttributes, goOn
        <4>3. CASE given.attributeFaults # {}
          <5>1. PICK code \in given.attributeFaults : return(code) /\ UNCHANGED at
            BY <1>5, <4>3 DEF useAttributes
          <5>2. code \in -20 .. 0
            BY <2>1
          <5> QED
            BY <4>1, <5>1, <5>2 DEF return
        <4> QED BY <4>2, <4>3
      <3> QED
        BY <1>0, <3>1 DEF inPlace, TypesInv, MainTypeOK, stages
  <1>6. CASE invertDependencies
    BY <1>0, <1>6 DEF invertDependencies, goOn, inPlace, TypesInv, MainTypeOK, stages
  <1>7. CASE orderSerialization
    <2>1. exitCode' \in -20 .. 0
      BY DEF TypeOK
    <2>2. /\ UNCHANGED << given, emitted, idxCnt, outputs >>
          /\ \/ stage' \in {"ordering", "done"} /\ at' = at
             \/ stage' = "outputs" /\ at' = 1
          /\ returned' \in -20 .. 0
      BY <1>7, <2>1 DEF orderSerialization, goOn, return, TypesInv, MainTypeOK
    <2> QED
      BY <1>0, <2>2 DEF inPlace, TypesInv, MainTypeOK, stages
  <1>8. CASE writeOutput
    <2>1. at \in 1 .. 5
      BY <1>8 DEF writeOutput, TypesInv
    <2>2. CASE at \notin outputFiles \/ ~opened(at)
      <3>1. /\ UNCHANGED << given, at, emitted, idxCnt, outputs >>
            /\ stage' = "done" /\ returned' \in -20 .. 0
        BY <1>8, <2>1, <2>2 DEF writeOutput, return, outputCode
      <3> QED
        BY <3>1 DEF inPlace, TypesInv, MainTypeOK, stages
    <2>3. CASE at \in outputFiles /\ opened(at)
      <3>1. /\ UNCHANGED << given, emitted, idxCnt, stage, returned >> /\ at' = at + 1
            /\ \E content \in received(at) : outputs' = [outputs EXCEPT ![at] = content]
        BY <1>8, <2>3 DEF writeOutput
      <3>2. received(at) \subseteq {"old", "new", "cut"}
        BY <2>3 DEF received, opened
      <3>3. outputs' \in [outputFiles -> {"old", "new", "cut"}]
        BY <2>3, <3>1, <3>2 DEF TypesInv, MainTypeOK
      <3>4. at' \in 1 .. 5 /\ stage' = "outputs"
        BY <1>8, <2>1, <2>3, <3>1 DEF writeOutput, outputFiles
      <3>5. at' \in 1 .. NumConfigs + 5
        BY <1>0, <3>4
      <3> QED
        BY <3>1, <3>3, <3>4, <3>5 DEF inPlace, TypesInv, MainTypeOK, stages
    <2> QED BY <2>2, <2>3
  <1> QED BY <1>1, <1>2, <1>3, <1>4, <1>5, <1>6, <1>7, <1>8

\* Every step keeps the types.
LEMMA TypesNext ==
    ASSUME TypesInv, TypeOK', StreamInv, [MainNext]_allVars
    PROVE  TypesInv'
  <1>0. Len(compTypeNames) \in Nat /\ NumConfigs \in Nat \ {0}
    BY NamesAssumption, MainAssumption
  <1>1. CASE inPlace
    BY <1>1 DEF inPlace, TypesInv, MainTypeOK
  <1>2. CASE UNCHANGED allVars
    BY <1>2 DEF allVars, mainVars, TypesInv, MainTypeOK
  <1>3. CASE findConstructor
    <2>1. at \in 1 .. Len(compTypeNames) + 1 /\ idxCnt < at /\ idxCnt \in Nat
      BY <1>3 DEF findConstructor, TypesInv, StreamInv
    <2>2. CASE at > Len(compTypeNames) \/ compTypeNames[at] \in given.noConstructor
      <3>1. /\ UNCHANGED << given, emitted, idxCnt, outputs >>
            /\ \/ stage' = "ordering" /\ at' = 1 /\ returned' = returned
               \/ stage' = "done" /\ at' = at /\ returned' = -11
        BY <1>3, <2>1, <2>2 DEF findConstructor, goOn, return, TypesInv, MainTypeOK, stages
      <3> QED
        BY <1>0, <3>1 DEF TypesInv, MainTypeOK, stages
    <2>3. CASE at <= Len(compTypeNames) /\ compTypeNames[at] \notin given.noConstructor
      <3> DEFINE c == compTypeNames[at]
      <3>1. /\ stage' = stage /\ at' = at + 1 /\ UNCHANGED << given, outputs, returned >>
            /\ idxCnt' \in {idxCnt, idxCnt + 1}
            /\ emitted' = [emitted EXCEPT ![c] =
                   [done   |-> TRUE,
                    names  |-> getNamesFromArgList(given.ctorArgs[c]),
                    ptrs   |-> getPtrsFromArgList(given.ctorArgs[c]),
                    stream |-> idxCnt]]
        BY <1>3, <2>1, <2>3 DEF findConstructor, takesStream
      <3>2. /\ emitted' = [d \in Comps |-> emitted'[d]]
            /\ \A d \in Comps : \/ emitted'[d] = emitted[d]
                                \/ emitted'[d].done = TRUE /\ emitted'[d].stream = idxCnt
        BY <3>1 DEF TypesInv
      <3>3. \A d \in Comps : /\ emitted'[d].done \in BOOLEAN
                             /\ emitted'[d].stream \in 0 .. Len(compTypeNames)
        BY <1>0, <2>1, <2>3, <3>2 DEF TypesInv, MainTypeOK
      <3>4. idxCnt' \in 0 .. Len(compTypeNames) /\ at' \in 1 .. Len(compTypeNames) + 1
        BY <1>0, <2>1, <2>3, <3>1
      <3> QED
        BY <1>3, <3>1, <3>2, <3>3, <3>4 DEF findConstructor, TypesInv, MainTypeOK
    <2> QED BY <1>0, <2>1, <2>2, <2>3
  <1> QED BY <1>1, <1>2, <1>3, StaysInPlace DEF MainNext

\* They hold at the start.
LEMMA TypesInit == MainInit /\ TypeOK => TypesInv
  <1> SUFFICES ASSUME NEW g \in Given, StartedWith(g), TypeOK PROVE TypesInv
    BY DEF MainInit
  <1>1. Len(compTypeNames) \in Nat /\ NumConfigs \in Nat \ {0}
    BY NamesAssumption, MainAssumption
  <1>2. /\ given \in Given /\ stage = "arguments" /\ at = 1 /\ returned = 0 /\ idxCnt = 0
        /\ emitted = [c \in Comps |-> nothing] /\ outputs = [f \in outputFiles |-> "old"]
    BY DEF StartedWith
  <1>3. \A c \in Comps : emitted[c].done = FALSE /\ emitted[c].stream = 0
    BY <1>2 DEF nothing
  <1>4. emitted = [c \in Comps |-> emitted[c]]
    BY <1>2
  <1>5. outputs \in [outputFiles -> {"old", "new", "cut"}]
    BY <1>2
  <1>6. /\ at \in 1 .. NumConfigs + 5 /\ idxCnt \in 0 .. Len(compTypeNames)
        /\ returned \in -20 .. 0
    BY <1>1, <1>2
  <1>7. \A c \in Comps : emitted[c].done \in BOOLEAN /\ emitted[c].stream \in 0 .. Len(compTypeNames)
    <2>1. 0 \in 0 .. Len(compTypeNames)
      BY <1>1
    <2> QED BY <1>3, <2>1
  <1>8. given \in Given /\ stage = "arguments"
    BY <1>2
  <1>9. MainTypeOK
    BY <1>5, <1>6, <1>7, <1>8 DEF MainTypeOK, stages
  <1> QED
    BY <1>4, <1>8, <1>9 DEF TypesInv

\* No stage of main goes past the end of its list, and what it returns is one
\* of its codes.
THEOREM MainTypes == MainSpec => []MainTypeOK
  <1>1. TypesInv => MainTypeOK
    BY DEF TypesInv
  <1>2. MainSpec => []TypeOK
    BY MainRunsGenerator, GeneratorTypes, PTL
  <1>3. TypesInv /\ TypeOK' /\ StreamInv /\ [MainNext]_allVars => TypesInv'
    BY TypesNext
  <1>4. MainSpec => []StreamInv
    BY StreamInit, StreamNext, PTL DEF MainSpec
  <1> QED BY <1>1, <1>2, <1>3, <1>4, TypesInit, PTL DEF MainSpec

--------------------------------------------------------------------------
(* Arguments *)

\* The lists that the conversions of ArgLists count on: no const, and every
\* asterisk written on the type or on the name.
Plain(types, names) == {arg \in Argument(types, names) : ~arg.const /\ arg.star # "apart"}
TwoWordArguments == \E types, names : CtorArgs \subseteq Seq(Plain(types, names))

\* The word that is the type of an argument and the one that is its name.
typeWord(arg, starsBlank) ==
    word(arg.type, IF arg.star = "onType" /\ ~starsBlank THEN 1 ELSE 0)
nameWord(arg, starsBlank) ==
    word(arg.name, IF arg.star = "onName" /\ ~starsBlank THEN 1 ELSE 0)

\* Two sequences, one after the other.
LEMMA Joined ==
    ASSUME NEW S, NEW s \in Seq(S), NEW t \in Seq(S)
    PROVE  /\ s \o t \in Seq(S) /\ Len(s \o t) = Len(s) + Len(t)
           /\ \A i \in 1 .. Len(s) : (s \o t)[i] = s[i]
           /\ \A i \in 1 .. Len(t) : (s \o t)[Len(s) + i] = t[i]
  OBVIOUS

\* A sequence of two elements, put together.
LEMMA TwoInSequence == ASSUME NEW S, NEW x \in S, NEW y \in S PROVE << >> \o << x >> \o << >> \o << y >> = << x, y >>
<1>1. << >> \in Seq(S) /\ << x >> \in Seq(S) /\ << y >> \in Seq(S)
  OBVIOUS
<1>2. << >> \o << x >> = << x >> /\ << x >> \o << >> = << x >>
  BY <1>1
<1>3. << x >> \o << y >> = << x, y >>
  <2> DEFINE s == << x >>
             t == << y >>
             u == s \o t
  <2>1. Len(s) = 1 /\ Len(t) = 1 /\ s[1] = x /\ t[1] = y /\ s \in Seq(S) /\ t \in Seq(S)
    OBVIOUS
  <2> HIDE DEF s, t
  <2>2. u \in Seq(S) /\ Len(u) = 2 /\ u[1] = x /\ u[2] = y
    <3>1. 1 \in 1 .. Len(s) /\ 1 \in 1 .. Len(t) /\ Len(s) + 1 = 2
      BY <2>1
    <3> QED
      BY <2>1, <3>1, Joined
  <2> HIDE DEF u
  <2>3. u = << x, y >>
    BY <2>2
  <2> QED
    BY <2>3 DEF s, t, u
<1> QED
  BY <1>2, <1>3

\* The words of one argument.
LEMMA WordsOfArgument ==
    ASSUME NEW types, NEW names, NEW arg \in Plain(types, names), NEW blank \in BOOLEAN
    PROVE  wordsOf(arg, blank) = << typeWord(arg, blank), nameWord(arg, blank) >>
<1>1. ~arg.const /\ arg.star # "apart"
  BY DEF Plain
<1>2. wordsOf(arg, blank) = << >> \o << typeWord(arg, blank) >> \o << >> \o << nameWord(arg, blank) >>
  <2>1. CASE blank
    BY <1>1, <2>1 DEF wordsOf, typeWord, nameWord
  <2>2. CASE ~blank
    BY <1>1, <2>2 DEF wordsOf, typeWord, nameWord
  <2> QED
    BY <2>1, <2>2
<1> DEFINE S == {typeWord(arg, blank), nameWord(arg, blank)}
<1>3. typeWord(arg, blank) \in S /\ nameWord(arg, blank) \in S
  OBVIOUS
<1> HIDE DEF S
<1> QED
  BY <1>2, <1>3, TwoInSequence

\* The words of such a list are a type and a name in turn.
InTurn(list, blank) ==
    /\ Len(list) \in Nat
    /\ Len(words(list, blank)) = 2 * Len(list)
    /\ \A i \in 1 .. Len(list) :
          /\ words(list, blank)[2 * i - 1] = typeWord(list[i], blank)
          /\ words(list, blank)[2 * i] = nameWord(list[i], blank)

\* So they are, however long it is.
LEMMA WordsOfList ==
    ASSUME NEW types, NEW names, NEW list \in Seq(Plain(types, names)), NEW blank \in BOOLEAN
    PROVE  InTurn(list, blank)
<1> DEFINE n == Len(list)
           Word == [text : types \union names, stars : Nat]
           a == [k \in 1 .. n |-> typeWord(list[k], blank)]
           b == [k \in 1 .. n |-> nameWord(list[k], blank)]
           step == [k \in 1 .. n |-> [q \in Seq(Word) |-> q \o << a[k], b[k] >>]]
           upTo[k \in 0 .. n] == IF k = 0 THEN << >> ELSE upTo[k - 1] \o wordsOf(list[k], blank)
<1>1. /\ n \in Nat /\ \A k \in 1 .. n : list[k] \in Plain(types, names)
  OBVIOUS
<1>2. words(list, blank) = upTo[n]
  BY DEF words
<1>3. ASSUME NEW k \in 1 .. n
      PROVE  a[k] \in Word /\ b[k] \in Word /\ wordsOf(list[k], blank) = << a[k], b[k] >>
  <2>1. list[k] \in Plain(types, names)
    BY <1>1
  <2>2. a[k] \in Word /\ b[k] \in Word
    BY <2>1 DEF Plain, Argument, typeWord, nameWord, word
  <2>3. wordsOf(list[k], blank) = << typeWord(list[k], blank), nameWord(list[k], blank) >>
    BY <2>1, WordsOfArgument
  <2> QED
    BY <2>2, <2>3
<1> HIDE DEF n, a, b, Word
<1>4. step \in [1 .. n -> [Seq(Word) -> Seq(Word)]]
  <2>1. ASSUME NEW k \in 1 .. n, NEW q \in Seq(Word) PROVE q \o << a[k], b[k] >> \in Seq(Word)
    BY <1>3
  <2> QED
    BY <2>1
<1>5. \A k \in 0 .. n :
         upTo[k] = IF k = 0 THEN << >> ELSE upTo[k - 1] \o wordsOf(list[k], blank)
  <2>1. PICK f \in [0 .. n -> Seq(Word)] : Recursion(f, n, << >>, step)
    <3>1. << >> \in Seq(Word) /\ n \in Nat
      BY <1>1
    <3> HIDE DEF step
    <3> QED
      BY <1>4, <3>1, RecursionExists
  <2>2. f = [k \in 0 .. n |-> IF k = 0 THEN << >> ELSE f[k - 1] \o wordsOf(list[k], blank)]
    <3>1. ASSUME NEW k \in 0 .. n
          PROVE  f[k] = IF k = 0 THEN << >> ELSE f[k - 1] \o wordsOf(list[k], blank)
      <4>1. f[k] = IF k = 0 THEN << >> ELSE step[k][f[k - 1]]
        BY <2>1 DEF Recursion
      <4>2. CASE k = 0
        BY <4>1, <4>2
      <4>3. CASE k # 0
        <5>1. k \in 1 .. n /\ f[k - 1] \in Seq(Word)
          BY <1>1, <4>3, <2>1
        <5>2. step[k][f[k - 1]] = f[k - 1] \o << a[k], b[k] >>
          BY <5>1
        <5> QED
          BY <1>3, <4>1, <4>3, <5>1, <5>2
      <4> QED
        BY <4>2, <4>3
    <3> QED
      BY <3>1
  <2>3. upTo = [k \in 0 .. n |-> IF k = 0 THEN << >> ELSE upTo[k - 1] \o wordsOf(list[k], blank)]
    BY <2>2 DEF upTo
  <2> HIDE DEF upTo
  <2> QED
    BY <2>3
<1> HIDE DEF upTo
<1> DEFINE Right(q, m) == /\ q \in Seq(Word) /\ Len(q) = 2 * m
                          /\ \A i \in 1 .. m : q[2 * i - 1] = a[i] /\ q[2 * i] = b[i]
           P == {m \in Nat : m <= n => Right(upTo[m], m)}
<1>6. 0 \in P
  <2>1. 0 \in 0 .. n
    BY <1>1
  <2>2. upTo[0] = << >>
    BY <1>5, <2>1
  <2>3. Right(<< >>, 0)
    OBVIOUS
  <2> HIDE DEF Right
  <2> QED
    BY <2>2, <2>3
<1>7. ASSUME NEW m \in Nat, m \in P PROVE m + 1 \in P
  <2> SUFFICES ASSUME m + 1 <= n PROVE Right(upTo[m + 1], m + 1)
    OBVIOUS
  <2>1. m <= n /\ m + 1 \in 1 .. n /\ m + 1 \in 0 .. n /\ m + 1 # 0 /\ m + 1 - 1 = m
    BY <1>1
  <2>2. Right(upTo[m], m)
    <3> HIDE DEF Right
    <3> QED
      BY <1>7, <2>1
  <2> DEFINE q == upTo[m]
             r == upTo[m + 1]
  <2>3. r = q \o << a[m + 1], b[m + 1] >>
    <3>1. PICK k \in 1 .. n : k = m + 1
      BY <2>1
    <3>2. k \in 0 .. n /\ k # 0 /\ k - 1 = m
      BY <3>1
    <3>3. upTo[k] = upTo[k - 1] \o wordsOf(list[k], blank)
      BY <1>5, <3>2
    <3>4. upTo[k] = upTo[k - 1] \o << a[k], b[k] >>
      BY <1>3, <3>3
    <3> QED
      BY <3>1, <3>2, <3>4
  <2>4. q \in Seq(Word) /\ Len(q) = 2 * m /\ \A i \in 1 .. m : q[2 * i - 1] = a[i] /\ q[2 * i] = b[i]
    BY <2>2
  <2> HIDE DEF q, r
  <2>5. a[m + 1] \in Word /\ b[m + 1] \in Word
    BY <1>3, <2>1
  <2>6. /\ r \in Seq(Word) /\ Len(r) = 2 * m + 2
        /\ \A j \in 1 .. 2 * m : r[j] = q[j]
        /\ r[2 * m + 1] = a[m + 1] /\ r[2 * m + 2] = b[m + 1]
    BY <2>3, <2>4, <2>5
  <2>7. ASSUME NEW i \in 1 .. m + 1 PROVE r[2 * i - 1] = a[i] /\ r[2 * i] = b[i]
    <3>1. CASE i = m + 1
      <4>1. 2 * i - 1 = 2 * m + 1 /\ 2 * i = 2 * m + 2
        BY <3>1
      <4> QED
        BY <2>6, <3>1, <4>1
    <3>2. CASE i # m + 1
      <4>1. i \in 1 .. m /\ 2 * i - 1 \in 1 .. 2 * m /\ 2 * i \in 1 .. 2 * m
        BY <3>2
      <4> QED
        BY <2>4, <2>6, <4>1
    <3> QED
      BY <3>1, <3>2
  <2>8. Len(r) = 2 * (m + 1)
    BY <2>6
  <2> QED
    BY <2>6, <2>7, <2>8 DEF r
<1> HIDE DEF P
<1>8. \A m \in Nat : m \in P
  BY <1>6, <1>7, SetInduction
<1>9. Right(upTo[n], n)
  BY <1>1, <1>8 DEF P
<1> QED
  BY <1>1, <1>2, <1>9 DEF InTurn, n, a, b

\* Every other word is a name: the names of the arguments, in order.
LEMMA NamesOfList ==
    ASSUME NEW types, NEW names, NEW list \in Seq(Plain(types, names))
    PROVE  namesRight(list, getNamesFromArgList(list))
<1> DEFINE ws == words(list, TRUE)
           n == Len(list)
<1>1. /\ n \in Nat /\ Len(ws) = 2 * n
      /\ \A i \in 1 .. n : ws[2 * i] = nameWord(list[i], TRUE)
  <2>1. InTurn(list, TRUE)
    BY WordsOfList
  <2> QED
    BY <2>1 DEF InTurn
<1> HIDE DEF ws
<1>2. Len(ws) \div 2 = n
  BY <1>1
<1>3. \A i \in 1 .. n : ws[2 * i] = word(list[i].name, 0)
  BY <1>1 DEF nameWord
<1> QED
  BY <1>2, <1>3 DEF getNamesFromArgList, picked, namesRight, ws

\* Every argument becomes a pointer to it, under its name.
LEMMA PointersOfList ==
    ASSUME NEW types, NEW names, NEW list \in Seq(Plain(types, names))
    PROVE  pointersRight(list, getPtrsFromArgList(list))
<1> DEFINE ws == words(list, FALSE)
           n == Len(list)
           ptrs == getPtrsFromArgList(list)
<1>1. /\ n \in Nat /\ Len(ws) = 2 * n
      /\ \A i \in 1 .. n : /\ ws[2 * i - 1] = typeWord(list[i], FALSE)
                           /\ ws[2 * i] = nameWord(list[i], FALSE)
  <2>1. InTurn(list, FALSE)
    BY WordsOfList
  <2> QED
    BY <2>1 DEF InTurn
<1>2. ptrs = [k \in 1 .. (Len(ws) + 1) \div 2 |->
                IF 2 * k <= Len(ws)
                THEN << ws[2 * k - 1], [ws[2 * k] EXCEPT !.stars = @ + 1] >>
                ELSE << ws[2 * k - 1] >>]
  BY DEF getPtrsFromArgList
<1> HIDE DEF ws, ptrs
<1>3. (Len(ws) + 1) \div 2 = n
  BY <1>1
<1>4. ptrs = [k \in 1 .. n |-> << ws[2 * k - 1], [ws[2 * k] EXCEPT !.stars = @ + 1] >>]
  <2>1. \A k \in 1 .. n : 2 * k <= Len(ws)
    BY <1>1
  <2> QED
    BY <1>2, <1>3, <2>1
<1>5. ASSUME NEW k \in 1 .. n
      PROVE  /\ Len(ptrs[k]) = 2
             /\ ptrs[k][1].text = list[k].type /\ ptrs[k][2].text = list[k].name
             /\ ptrs[k][1].stars + ptrs[k][2].stars = pointers(list[k]) + 1
  <2>1. list[k] \in Plain(types, names)
    BY <1>1
  <2>2. ptrs[k] = << typeWord(list[k], FALSE), [nameWord(list[k], FALSE) EXCEPT !.stars = @ + 1] >>
    BY <1>1, <1>4
  <2>3. Len(ptrs[k]) = 2 /\ ptrs[k][1] = typeWord(list[k], FALSE)
    BY <2>2
  <2>4. ptrs[k][2] = [nameWord(list[k], FALSE) EXCEPT !.stars = @ + 1]
    BY <2>2
  <2>5. ptrs[k][2].text = list[k].name /\ ptrs[k][2].stars = nameWord(list[k], FALSE).stars + 1
    BY <2>4 DEF nameWord, word
  <2>6. typeWord(list[k], FALSE).stars + nameWord(list[k], FALSE).stars = pointers(list[k])
    <3>1. list[k].star \in {"none", "onType", "onName"}
      BY <2>1 DEF Plain, Argument
    <3> QED
      BY <3>1 DEF typeWord, nameWord, word, pointers
  <2>7. typeWord(list[k], FALSE).stars \in Nat /\ nameWord(list[k], FALSE).stars \in Nat
    BY DEF typeWord, nameWord, word
  <2>8. ptrs[k][1].text = list[k].type
    BY <2>3 DEF typeWord, word
  <2>9. ptrs[k][1].stars + ptrs[k][2].stars = pointers(list[k]) + 1
    <3>1. PICK s \in Nat, t \in Nat :
            s = typeWord(list[k], FALSE).stars /\ t = nameWord(list[k], FALSE).stars
      BY <2>7
    <3>2. ptrs[k][1].stars = s /\ ptrs[k][2].stars = t + 1 /\ pointers(list[k]) = s + t
      BY <2>3, <2>5, <2>6, <3>1
    <3> QED
      BY <3>2
  <2> QED
    BY <2>3, <2>5, <2>8, <2>9
<1>6. Len(ptrs) = n
  BY <1>1, <1>4
<1> QED
  BY <1>5, <1>6 DEF pointersRight, ptrs

\* What is emitted for a type comes from its constructor.
ArgsInv ==
    /\ given \in Given /\ at \in Nat \ {0}
    /\ emitted = [c \in Comps |-> emitted[c]]
    /\ \A c \in Comps : emitted[c].done =>
          /\ emitted[c].names = getNamesFromArgList(given.ctorArgs[c])
          /\ emitted[c].ptrs = getPtrsFromArgList(given.ctorArgs[c])

\* Nothing is emitted at the start.
LEMMA ArgsInit == MainInit => ArgsInv
  BY DEF MainInit, StartedWith, ArgsInv, nothing

\* A type is only ever given what its own constructor says.
LEMMA ArgsNext ==
    ASSUME ArgsInv, [MainNext]_allVars
    PROVE  ArgsInv'
<1>1. CASE UNCHANGED << given, emitted >> /\ at' \in Nat \ {0}
  BY <1>1 DEF ArgsInv
<1>2. CASE findConstructor /\ ~UNCHANGED emitted
  <2> DEFINE c == compTypeNames[at]
  <2>1. /\ given' = given /\ at' = at + 1
        /\ emitted' = [emitted EXCEPT ![c] =
              [done   |-> TRUE,
               names  |-> getNamesFromArgList(given.ctorArgs[c]),
               ptrs   |-> getPtrsFromArgList(given.ctorArgs[c]),
               stream |-> idxCnt]]
    BY <1>2 DEF findConstructor
  <2>2. ASSUME NEW d \in Comps, emitted'[d].done
        PROVE  /\ emitted'[d].names = getNamesFromArgList(given.ctorArgs[d])
               /\ emitted'[d].ptrs = getPtrsFromArgList(given.ctorArgs[d])
    <3>1. CASE d = c
      BY <2>1, <3>1 DEF ArgsInv
    <3>2. CASE d # c
      BY <2>1, <2>2, <3>2 DEF ArgsInv
    <3> QED
      BY <3>1, <3>2
  <2>3. emitted' = [d \in Comps |-> emitted'[d]]
    BY <2>1 DEF ArgsInv
  <2>4. given' \in Given /\ at' \in Nat \ {0}
    BY <2>1 DEF ArgsInv
  <2> HIDE DEF c
  <2> QED
    BY <2>1, <2>2, <2>3, <2>4 DEF ArgsInv
<1>3. CASE UNCHANGED allVars
  BY <1>3 DEF allVars, mainVars, ArgsInv
<1>4. ASSUME checkArguments \/ openInput \/ findSections \/ useDependency \/ useAttributes
               \/ invertDependencies \/ orderSerialization \/ writeOutput
      PROVE  UNCHANGED << given, emitted >> /\ at' \in Nat \ {0}
  BY <1>4 DEF checkArguments, openInput, findSections, useDependency, useAttributes,
              invertDependencies, orderSerialization, writeOutput, goOn, return, ArgsInv
<1>5. CASE findConstructor /\ UNCHANGED emitted
  <2>1. given' = given /\ at' \in {1, at, at + 1}
    BY <1>5 DEF findConstructor, goOn, return
  <2> QED
    BY <1>5, <2>1 DEF ArgsInv
<1> QED
  BY <1>1, <1>2, <1>3, <1>4, <1>5 DEF MainNext

\* add<Comp> passes on, and request<Comp> takes the address of, exactly the
\* arguments that the constructor of the type declares, in their order,
\* however many there are: if the lists are what the conversions count on.
THEOREM ArgumentsArrive == ASSUME TwoWordArguments PROVE MainSpec => []ArgumentsPassedOn
<1>1. PICK types, names : CtorArgs \subseteq Seq(Plain(types, names))
  BY DEF TwoWordArguments
<1>2. ArgsInv => ArgumentsPassedOn
  <2> SUFFICES ASSUME ArgsInv, NEW c \in Comps, emitted[c].done
               PROVE  /\ namesRight(given.ctorArgs[c], emitted[c].names)
                      /\ pointersRight(given.ctorArgs[c], emitted[c].ptrs)
    BY DEF ArgumentsPassedOn
  <2>1. given.ctorArgs[c] \in Seq(Plain(types, names))
    BY <1>1 DEF ArgsInv, Given
  <2> QED
    BY <2>1, NamesOfList, PointersOfList DEF ArgsInv
<1> QED
  BY <1>2, ArgsInit, ArgsNext, PTL DEF MainSpec

--------------------------------------------------------------------------
(* Exit codes *)

\* The checks, and what each of them can return.
firstTwo == << ifSo(~given.enoughArgs, -1),
               IF given.unreadable = {} THEN {} ELSE {inputCode(firstOf(given.unreadable))} >>
sectionFaults(k) ==
    IF given.missing[k] = {} THEN {} ELSE {sectionCode[firstOf(given.missing[k])]}
lastFive == << ifSo(given.strayDependency, -12) \union ifSo(namesUnknown, -13),
               given.attributeFaults,
               ifSo(given.noConstructor # {}, -11),
               ifSo(needsUnserializable, -20),
               IF given.unwritable = {} THEN {} ELSE {outputCode(firstOf(given.unwritable))} >>

\* Where in the list of faults each check has its place.
LEMMA FaultsAt ==
    /\ DOMAIN faults = 1 .. NumConfigs + 7
    /\ faults[1] = firstTwo[1] /\ faults[2] = firstTwo[2]
    /\ \A k \in 1 .. NumConfigs : faults[k + 2] = sectionFaults(k)
    /\ \A i \in 1 .. 5 : faults[NumConfigs + 2 + i] = lastFive[i]
<1> DEFINE n == NumConfigs
           a == firstTwo
           b == [k \in 1 .. n |-> sectionFaults(k)]
           c == lastFive
           ab == a \o b
           S == {a[i] : i \in 1 .. 2} \union {b[k] : k \in 1 .. n} \union {c[i] : i \in 1 .. 5}
<1>1. n \in Nat /\ faults = ab \o c
  BY MainAssumption DEF faults, firstTwo, sectionFaults, lastFive
<1>2. /\ a = [i \in 1 .. 2 |-> a[i]] /\ b = [k \in 1 .. n |-> b[k]] /\ c = [i \in 1 .. 5 |-> c[i]]
      /\ Len(a) = 2 /\ Len(c) = 5
  BY DEF firstTwo, lastFive
<1> HIDE DEF n, a, b, c
<1>3. a \in Seq(S) /\ b \in Seq(S) /\ c \in Seq(S) /\ Len(b) = n
  <2>1. ASSUME NEW m \in Nat, NEW T, NEW s, s = [i \in 1 .. m |-> s[i]], \A i \in 1 .. m : s[i] \in T
        PROVE  s \in Seq(T) /\ Len(s) = m
    BY <2>1
  <2>2. /\ \A i \in 1 .. 2 : a[i] \in S
        /\ \A k \in 1 .. n : b[k] \in S
        /\ \A i \in 1 .. 5 : c[i] \in S
    OBVIOUS
  <2> HIDE DEF S
  <2> QED
    BY <1>1, <1>2, <2>1, <2>2
<1> HIDE DEF S
<1>4. /\ ab \in Seq(S) /\ Len(ab) = n + 2
      /\ \A i \in 1 .. 2 : ab[i] = a[i] /\ \A k \in 1 .. n : ab[2 + k] = b[k]
  BY <1>1, <1>2, <1>3, Joined
<1> HIDE DEF ab
<1>5. /\ faults \in Seq(S) /\ Len(faults) = n + 7
      /\ \A i \in 1 .. n + 2 : faults[i] = ab[i]
      /\ \A i \in 1 .. 5 : faults[n + 2 + i] = c[i]
  <2>1. /\ ab \o c \in Seq(S) /\ Len(ab \o c) = Len(ab) + Len(c)
        /\ \A i \in 1 .. Len(ab) : (ab \o c)[i] = ab[i]
        /\ \A i \in 1 .. Len(c) : (ab \o c)[Len(ab) + i] = c[i]
    <3>1. ab \in Seq(S) /\ c \in Seq(S)
      BY <1>3, <1>4
    <3> QED
      BY <3>1
  <2>2. /\ faults \in Seq(S) /\ Len(faults) = (n + 2) + 5
        /\ \A i \in 1 .. n + 2 : faults[i] = ab[i]
        /\ \A i \in 1 .. 5 : faults[n + 2 + i] = c[i]
    BY <1>1, <1>2, <1>4, <2>1
  <2>3. (n + 2) + 5 = n + 7
    BY <1>1
  <2> QED
    BY <2>2, <2>3
<1>6. faults[1] = a[1] /\ faults[2] = a[2]
  BY <1>1, <1>4, <1>5
<1>7. ASSUME NEW k \in 1 .. n PROVE faults[k + 2] = b[k]
  <2>1. k + 2 \in 1 .. n + 2 /\ k + 2 = 2 + k
    BY <1>1
  <2> QED
    BY <1>4, <1>5, <2>1
<1> QED
  BY <1>5, <1>6, <1>7 DEF n, a, b, c

\* The least of a set of numbers.
LEMMA FirstOfLeast ==
    ASSUME NEW S \in SUBSET Nat, S # {}
    PROVE  firstOf(S) \in S /\ \A j \in S : firstOf(S) <= j
  BY NatMin DEF firstOf

\* ... which any element is that is not above the others.
LEMMA FirstOfIs ==
    ASSUME NEW S \in SUBSET Nat, NEW k \in S, \A j \in S : k <= j
    PROVE  firstOf(S) = k
<1>1. PICK x \in S : x = firstOf(S)
  BY FirstOfLeast
<1>2. x <= k /\ k <= x
  BY <1>1, FirstOfLeast
<1>3. x \in Nat /\ k \in Nat
  OBVIOUS
<1> QED
  BY <1>1, <1>2, <1>3

\* The checks up to a place have found nothing.
Passed(n) == \A k \in 1 .. n : faults[k] = {}

\* A check that comes after checks that found nothing may return what it found.
FirstFault(code) ==
    LET wrong == {k \in DOMAIN faults : faults[k] # {}}
    IN  IF wrong = {} THEN code = 0 ELSE code \in faults[firstOf(wrong)]

\* It is the first fault if nothing before it was found.
LEMMA FirstFaultIs ==
    ASSUME NEW n \in 1 .. NumConfigs + 7, Passed(n - 1), NEW code \in faults[n]
    PROVE  FirstFault(code)
<1> DEFINE wrong == {k \in DOMAIN faults : faults[k] # {}}
<1>1. NumConfigs \in Nat /\ DOMAIN faults = 1 .. NumConfigs + 7
  BY MainAssumption, FaultsAt
<1>2. n \in wrong /\ wrong \in SUBSET Nat
  BY <1>1
<1>3. ASSUME NEW j \in wrong PROVE n <= j
  BY <1>1, <1>3 DEF Passed
<1> HIDE DEF wrong
<1>4. firstOf(wrong) = n
  BY <1>2, <1>3, FirstOfIs
<1> QED
  BY <1>2, <1>4 DEF FirstFault, wrong

\* If all of them found nothing, main returns 0.
LEMMA NoFault ==
    ASSUME Passed(NumConfigs + 7)
    PROVE  FirstFault(0)
  BY FaultsAt DEF Passed, FirstFault

\* Every stage has found nothing wrong so far, and has looked at what it went
\* past.
ChecksInv ==
    /\ given \in Given /\ at \in Nat \ {0}
    /\ stage = "files" =>
          Passed(1) /\ at <= NumConfigs + 5 /\ \A f \in 1 .. at - 1 : f \notin given.unreadable
    /\ stage = "sections" =>
          Passed(2) /\ at <= NumConfigs + 1 /\ \A k \in 1 .. at - 1 : given.missing[k] = {}
    /\ stage = "macros" => Passed(NumConfigs + 2)
    /\ stage \in {"inverting", "constructors"} => Passed(NumConfigs + 4)
    /\ stage = "constructors" =>
          /\ at <= Len(compTypeNames) + 1
          /\ \A k \in 1 .. at - 1 : compTypeNames[k] \notin given.noConstructor
    /\ stage = "ordering" => Passed(NumConfigs + 5)
    /\ stage = "outputs" =>
          Passed(NumConfigs + 6) /\ at <= 5 /\ \A f \in 1 .. at - 1 : f \notin given.unwritable
    /\ stage = "done" => FirstFault(returned)

\* Nothing has been looked at.
LEMMA ChecksInit == MainInit => ChecksInv
  BY DEF MainInit, StartedWith, ChecksInv

\* What is wrong stays the same.
LEMMA SameFaults ==
    ASSUME [MainNext]_allVars
    PROVE  UNCHANGED << config, given, faults >>
<1>1. UNCHANGED << config, given >>
  <2>1. given' = given
    BY DEF MainNext, allVars, mainVars, checkArguments, openInput, findSections, useDependency,
           useAttributes, invertDependencies, findConstructor, orderSerialization, writeOutput
  <2>2. UNCHANGED config
    BY CoreStep DEF Next, vars, readDependencies, fillDependentComps, orderComp, orderPassEnds
  <2> QED
    BY <2>1, <2>2
<1>2. namesUnknown' = namesUnknown /\ needsUnserializable' = needsUnserializable
  BY <1>1 DEF config, namesUnknown, needsUnserializable, serializable
<1> QED
  BY <1>1, <1>2 DEF faults, ifSo

\* So what passed before still does, and a fault is the first one still.
LEMMA SamePassed ==
    ASSUME UNCHANGED faults
    PROVE  /\ \A n : Passed(n)' = Passed(n)
           /\ \A code : FirstFault(code)' = FirstFault(code)
  BY DEF Passed, FirstFault

\* The shape of a step: it goes on in its stage, or to the next one, or main
\* returns.
LEMMA Returns ==
    ASSUME [MainNext]_allVars, ChecksInv, NEW n \in 1 .. NumConfigs + 7, Passed(n - 1),
           NEW code \in faults[n], return(code), at' \in Nat \ {0}
    PROVE  ChecksInv'
<1>1. FirstFault(code)'
  BY FirstFaultIs, SameFaults, SamePassed
<1>2. given' = given /\ stage' = "done" /\ returned' = code
  BY SameFaults DEF return
<1> QED
  BY <1>1, <1>2 DEF ChecksInv

\* The files that could be opened are those that could be read.
LEMMA OpenInputKeeps ==
    ASSUME [MainNext]_allVars, ChecksInv, openInput
    PROVE  ChecksInv'
<1>1. /\ stage = "files" /\ Passed(1) /\ at \in Nat \ {0} /\ at <= NumConfigs + 5
      /\ \A f \in 1 .. at - 1 : f \notin given.unreadable
      /\ NumConfigs \in Nat \ {0} /\ given.unreadable \in SUBSET inputFiles
  BY MainAssumption DEF openInput, ChecksInv, Given
<1>2. given' = given /\ given \in Given /\ \A m : Passed(m)' = Passed(m)
  BY SameFaults, SamePassed DEF ChecksInv
<1>3. faults[2] = IF given.unreadable = {} THEN {} ELSE {inputCode(firstOf(given.unreadable))}
  BY FaultsAt DEF firstTwo
<1>4. CASE at \notin inputFiles
  <2>1. given.unreadable = {}
    BY <1>1, <1>4 DEF inputFiles
  <2>2. Passed(2)
    BY <1>1, <1>3, <2>1 DEF Passed
  <2>3. stage' = "sections" /\ at' = 1
    BY <1>1, <1>4 DEF openInput, goOn
  <2> QED
    BY <1>1, <1>2, <2>2, <2>3 DEF ChecksInv
<1>5. CASE at \in inputFiles /\ at \in given.unreadable
  <2>1. firstOf(given.unreadable) = at
    <3>1. given.unreadable \in SUBSET Nat /\ \A j \in given.unreadable : at <= j
      BY <1>1 DEF inputFiles
    <3> QED
      BY <1>5, <3>1, FirstOfIs
  <2>2. inputCode(at) \in faults[2] /\ 2 \in 1 .. NumConfigs + 7 /\ Passed(2 - 1)
    BY <1>1, <1>3, <1>5, <2>1
  <2>3. return(inputCode(at)) /\ at' \in Nat \ {0}
    BY <1>1, <1>5 DEF openInput
  <2> QED
    BY <2>2, <2>3, Returns
<1>6. CASE at \in inputFiles /\ at \notin given.unreadable
  <2>1. at' = at + 1 /\ stage' = "files"
    BY <1>1, <1>6 DEF openInput
  <2>2. at' <= NumConfigs + 5 /\ \A f \in 1 .. at' - 1 : f \notin given.unreadable
    <3>1. \A f \in 1 .. at' - 1 : f \in 1 .. at - 1 \/ f = at
      BY <1>1, <2>1
    <3> QED
      BY <1>1, <1>6, <2>1, <3>1 DEF inputFiles
  <2> QED
    BY <1>1, <1>2, <2>1, <2>2 DEF ChecksInv
<1> QED
  BY <1>4, <1>5, <1>6

\* All sections are there in the files that were gone past.
LEMMA FindSectionsKeeps ==
    ASSUME [MainNext]_allVars, ChecksInv, findSections
    PROVE  ChecksInv'
<1>1. /\ stage = "sections" /\ Passed(2) /\ at \in Nat \ {0} /\ at <= NumConfigs + 1
      /\ \A k \in 1 .. at - 1 : given.missing[k] = {}
      /\ NumConfigs \in Nat \ {0}
  BY MainAssumption DEF findSections, ChecksInv
<1>2. given' = given /\ given \in Given /\ \A m : Passed(m)' = Passed(m)
  BY SameFaults, SamePassed DEF ChecksInv
<1>3. Passed(at + 1)
  <2>1. ASSUME NEW k \in 1 .. at + 1 PROVE faults[k] = {}
    <3>1. CASE k \in 1 .. 2
      BY <1>1, <3>1 DEF Passed
    <3>2. CASE k \notin 1 .. 2
      <4>1. k - 2 \in 1 .. at - 1 /\ k - 2 \in 1 .. NumConfigs /\ (k - 2) + 2 = k
        BY <1>1, <3>2
      <4>2. faults[(k - 2) + 2] = sectionFaults(k - 2)
        BY <4>1, FaultsAt
      <4> QED
        BY <1>1, <4>1, <4>2 DEF sectionFaults
    <3> QED
      BY <3>1, <3>2
  <2> QED
    BY <2>1 DEF Passed
<1>4. CASE at > NumConfigs
  <2>1. at + 1 = NumConfigs + 2
    BY <1>1, <1>4
  <2>2. stage' = "macros" /\ at' = 1
    BY <1>1, <1>4 DEF findSections, goOn
  <2> QED
    BY <1>1, <1>2, <1>3, <2>1, <2>2 DEF ChecksInv
<1>5. CASE at <= NumConfigs /\ given.missing[at] # {}
  <2>1. at \in 1 .. NumConfigs /\ at + 2 \in 1 .. NumConfigs + 7 /\ at + 1 = (at + 2) - 1
    BY <1>1, <1>5
  <2>2. sectionCode[firstOf(given.missing[at])] \in faults[at + 2]
    BY <1>5, <2>1, FaultsAt DEF sectionFaults
  <2>3. return(sectionCode[firstOf(given.missing[at])]) /\ at' \in Nat \ {0}
    BY <1>1, <1>5 DEF findSections
  <2> QED
    BY <1>3, <2>1, <2>2, <2>3, Returns
<1>6. CASE at <= NumConfigs /\ given.missing[at] = {}
  <2>1. at' = at + 1 /\ stage' = "sections"
    BY <1>1, <1>6 DEF findSections
  <2>2. at' <= NumConfigs + 1 /\ \A k \in 1 .. at' - 1 : given.missing[k] = {}
    <3>1. \A k \in 1 .. at' - 1 : k \in 1 .. at - 1 \/ k = at
      BY <1>1, <2>1
    <3> QED
      BY <1>1, <1>6, <2>1, <3>1
  <2> QED
    BY <1>1, <1>2, <2>1, <2>2 DEF ChecksInv
<1> QED
  BY <1>1, <1>4, <1>5, <1>6

\* Names that do not exist, and uses of the macros that are wrong, end main
\* where they are found.
LEMMA MacrosKeep ==
    ASSUME [MainNext]_allVars, ChecksInv, IInv, useDependency \/ useAttributes
    PROVE  ChecksInv'
<1>1. /\ stage = "macros" /\ Passed(NumConfigs + 2) /\ at \in Nat \ {0} /\ NumConfigs \in Nat \ {0}
  BY MainAssumption DEF useDependency, useAttributes, ChecksInv
<1>2. given' = given /\ given \in Given /\ \A m : Passed(m)' = Passed(m)
  BY SameFaults, SamePassed DEF ChecksInv
<1>3. /\ faults[NumConfigs + 3] = ifSo(given.strayDependency, -12) \union ifSo(namesUnknown, -13)
      /\ faults[NumConfigs + 4] = given.attributeFaults
  <2>1. faults[NumConfigs + 2 + 1] = lastFive[1] /\ faults[NumConfigs + 2 + 2] = lastFive[2]
    BY FaultsAt
  <2>2. NumConfigs + 2 + 1 = NumConfigs + 3 /\ NumConfigs + 2 + 2 = NumConfigs + 4
    BY <1>1
  <2> QED
    BY <2>1, <2>2 DEF lastFive
<1>n. NumConfigs + 3 \in 1 .. NumConfigs + 7 /\ (NumConfigs + 3) - 1 = NumConfigs + 2
  BY <1>1
<1>4. CASE useDependency
  <2>0. at' = at
    BY <1>4 DEF useDependency
  <2>1. CASE given.strayDependency /\ return(-12)
    <3>1. -12 \in faults[NumConfigs + 3]
      BY <1>3, <2>1 DEF ifSo
    <3> QED
      BY <1>1, <1>n, <2>0, <2>1, <3>1, Returns
  <2>2. CASE readDependencies /\ phase' = "exited" /\ return(exitCode')
    <3>1. exitCode' = -13 /\ name \in Comps /\ invalidArg(name)
      BY <2>2, NameType DEF readDependencies, exit, IInv
    <3>2. namesUnknown
      BY <3>1 DEF namesUnknown, invalidArg
    <3>3. exitCode' \in faults[NumConfigs + 3]
      BY <1>3, <3>1, <3>2 DEF ifSo
    <3> QED
      BY <1>1, <1>n, <2>0, <2>2, <3>3, Returns
  <2>3. CASE UNCHANGED << stage, returned >>
    BY <1>1, <1>2, <2>0, <2>3 DEF ChecksInv
  <2> QED
    BY <1>4, <2>1, <2>2, <2>3 DEF useDependency
<1>5. CASE useAttributes
  <2>1. phase = "reading" /\ pos > Len(compTypeNames) /\ ~given.strayDependency
    BY <1>5 DEF useAttributes
  <2>2. ~namesUnknown
    <3>1. \A k \in 1 .. Len(compTypeNames) : k \in 1 .. pos - 1
      BY <2>1, NamesAssumption DEF IInv, TypeOK
    <3>2. \A k \in 1 .. Len(compTypeNames) : ~invalidArg(compTypeNames[k])
      BY <2>1, <3>1 DEF IInv, Progress
    <3> QED
      BY <3>2, NamesAssumption DEF namesUnknown, invalidArg
  <2>3. Passed(NumConfigs + 3)
    <3>1. faults[NumConfigs + 3] = {}
      BY <1>3, <2>1, <2>2 DEF ifSo
    <3> QED
      BY <1>1, <3>1 DEF Passed
  <2>4. CASE given.attributeFaults = {}
    <3>1. Passed(NumConfigs + 4)
      BY <1>1, <1>3, <2>3, <2>4 DEF Passed
    <3>2. stage' = "inverting" /\ at' = 1
      BY <1>5, <2>4 DEF useAttributes, goOn
    <3> QED
      BY <1>1, <1>2, <3>1, <3>2 DEF ChecksInv
  <2>5. CASE given.attributeFaults # {}
    <3>1. PICK code \in faults[NumConfigs + 4] : return(code)
      BY <1>3, <1>5, <2>5 DEF useAttributes
    <3>2. at' = at
      BY <1>5, <2>5 DEF useAttributes
    <3>3. NumConfigs + 4 \in 1 .. NumConfigs + 7 /\ (NumConfigs + 4) - 1 = NumConfigs + 3
      BY <1>1
    <3> QED
      BY <1>1, <2>3, <3>1, <3>2, <3>3, Returns
  <2> QED
    BY <2>4, <2>5
<1> QED
  BY <1>4, <1>5

\* The types that were gone past have a constructor.
LEMMA FindConstructorKeeps ==
    ASSUME [MainNext]_allVars, ChecksInv, findConstructor
    PROVE  ChecksInv'
<1>1. /\ stage = "constructors" /\ Passed(NumConfigs + 4) /\ at \in Nat \ {0}
      /\ at <= Len(compTypeNames) + 1 /\ Len(compTypeNames) \in Nat
      /\ \A k \in 1 .. at - 1 : compTypeNames[k] \notin given.noConstructor
      /\ NumConfigs \in Nat \ {0} /\ given.noConstructor \in SUBSET Comps
  BY MainAssumption, NamesAssumption DEF findConstructor, ChecksInv, Given
<1>2. given' = given /\ given \in Given /\ \A m : Passed(m)' = Passed(m)
  BY SameFaults, SamePassed DEF ChecksInv
<1>3. faults[NumConfigs + 5] = ifSo(given.noConstructor # {}, -11)
  <2>1. faults[NumConfigs + 2 + 3] = lastFive[3] /\ NumConfigs + 2 + 3 = NumConfigs + 5
    BY <1>1, FaultsAt
  <2> QED
    BY <2>1 DEF lastFive
<1>4. CASE at > Len(compTypeNames)
  <2>1. given.noConstructor = {}
    <3>1. \A k \in 1 .. Len(compTypeNames) : k \in 1 .. at - 1
      BY <1>1, <1>4
    <3>2. ASSUME NEW c \in given.noConstructor PROVE FALSE
      <4>1. PICK i \in 1 .. Len(compTypeNames) : compTypeNames[i] = c
        BY <1>1, NamesAssumption
      <4> QED
        BY <1>1, <3>1, <4>1
    <3> QED
      BY <3>2
  <2>2. Passed(NumConfigs + 5)
    BY <1>1, <1>3, <2>1 DEF Passed, ifSo
  <2>3. stage' = "ordering" /\ at' = 1
    BY <1>4 DEF findConstructor, goOn
  <2> QED
    BY <1>1, <1>2, <2>2, <2>3 DEF ChecksInv
<1>5. CASE at <= Len(compTypeNames) /\ compTypeNames[at] \in given.noConstructor
  <2>1. return(-11) /\ at' = at
    BY <1>1, <1>5 DEF findConstructor
  <2>2. -11 \in faults[NumConfigs + 5]
    BY <1>3, <1>5 DEF ifSo
  <2>3. NumConfigs + 5 \in 1 .. NumConfigs + 7 /\ (NumConfigs + 5) - 1 = NumConfigs + 4
    BY <1>1
  <2> QED
    BY <1>1, <2>1, <2>2, <2>3, Returns
<1>6. CASE at <= Len(compTypeNames) /\ compTypeNames[at] \notin given.noConstructor
  <2>1. at' = at + 1 /\ stage' = "constructors"
    BY <1>1, <1>6 DEF findConstructor
  <2>2. at' <= Len(compTypeNames) + 1
        /\ \A k \in 1 .. at' - 1 : compTypeNames[k] \notin given.noConstructor
    <3>1. \A k \in 1 .. at' - 1 : k \in 1 .. at - 1 \/ k = at
      BY <1>1, <2>1
    <3> QED
      BY <1>1, <1>6, <2>1, <3>1
  <2> QED
    BY <1>1, <1>2, <2>1, <2>2 DEF ChecksInv
<1> QED
  BY <1>1, <1>4, <1>5, <1>6

\* The order is complete only if nothing needs what is not serialized.
LEMMA OrderingKeeps ==
    ASSUME [MainNext]_allVars, ChecksInv, ExitCodeRight', orderSerialization
    PROVE  ChecksInv'
<1>1. stage = "ordering" /\ Passed(NumConfigs + 5) /\ at \in Nat \ {0} /\ NumConfigs \in Nat \ {0}
  BY MainAssumption DEF orderSerialization, ChecksInv
<1>2. given' = given /\ given \in Given /\ \A m : Passed(m)' = Passed(m)
  BY SameFaults, SamePassed DEF ChecksInv
<1>3. /\ faults[NumConfigs + 3] = ifSo(given.strayDependency, -12) \union ifSo(namesUnknown, -13)
      /\ faults[NumConfigs + 6] = ifSo(needsUnserializable, -20)
  <2>1. faults[NumConfigs + 2 + 1] = lastFive[1] /\ faults[NumConfigs + 2 + 4] = lastFive[4]
    BY FaultsAt
  <2>2. NumConfigs + 2 + 1 = NumConfigs + 3 /\ NumConfigs + 2 + 4 = NumConfigs + 6
    BY <1>1
  <2> QED
    BY <2>1, <2>2 DEF lastFive
<1>4. ~namesUnknown
  BY <1>1, <1>3 DEF Passed, ifSo
<1>5. namesUnknown' = namesUnknown /\ needsUnserializable' = needsUnserializable
  BY SameFaults DEF config, namesUnknown, needsUnserializable, serializable
<1>6. CASE phase' # "exited"
  BY <1>1, <1>2, <1>6 DEF orderSerialization, ChecksInv
<1>7. CASE phase' = "exited" /\ exitCode' # 0
  <2>1. exitCode' = -20 /\ needsUnserializable
    BY <1>4, <1>5, <1>7 DEF ExitCodeRight
  <2>2. return(exitCode') /\ at' = at
    BY <1>7 DEF orderSerialization
  <2>3. exitCode' \in faults[NumConfigs + 6]
    BY <1>3, <2>1 DEF ifSo
  <2>4. NumConfigs + 6 \in 1 .. NumConfigs + 7 /\ (NumConfigs + 6) - 1 = NumConfigs + 5
    BY <1>1
  <2> QED
    BY <1>1, <2>2, <2>3, <2>4, Returns
<1>8. CASE phase' = "exited" /\ exitCode' = 0
  <2>1. ~needsUnserializable
    BY <1>4, <1>5, <1>8 DEF ExitCodeRight
  <2>2. Passed(NumConfigs + 6)
    BY <1>1, <1>3, <2>1 DEF Passed, ifSo
  <2>3. stage' = "outputs" /\ at' = 1
    BY <1>8 DEF orderSerialization, goOn
  <2> QED
    BY <1>1, <1>2, <2>2, <2>3 DEF ChecksInv
<1> QED
  BY <1>6, <1>7, <1>8

\* The files that were gone past could be opened.
LEMMA WriteOutputKeeps ==
    ASSUME [MainNext]_allVars, ChecksInv, writeOutput
    PROVE  ChecksInv'
<1>1. /\ stage = "outputs" /\ Passed(NumConfigs + 6) /\ at \in Nat \ {0} /\ at <= 5
      /\ \A f \in 1 .. at - 1 : f \notin given.unwritable
      /\ NumConfigs \in Nat \ {0} /\ given.unwritable \in SUBSET (1 .. 4)
  BY MainAssumption DEF writeOutput, ChecksInv, Given, outputFiles
<1>2. given' = given /\ given \in Given /\ \A m : Passed(m)' = Passed(m)
  BY SameFaults, SamePassed DEF ChecksInv
<1>3. faults[NumConfigs + 7] =
         IF given.unwritable = {} THEN {} ELSE {outputCode(firstOf(given.unwritable))}
  <2>1. faults[NumConfigs + 2 + 5] = lastFive[5] /\ NumConfigs + 2 + 5 = NumConfigs + 7
    BY <1>1, FaultsAt
  <2> QED
    BY <2>1 DEF lastFive
<1>4. CASE at \notin outputFiles
  <2>1. given.unwritable = {}
    BY <1>1, <1>4 DEF outputFiles
  <2>2. Passed(NumConfigs + 7)
    BY <1>1, <1>3, <2>1 DEF Passed
  <2>3. FirstFault(0)'
    BY <2>2, NoFault, SameFaults, SamePassed
  <2>4. stage' = "done" /\ returned' = 0 /\ at' = at
    BY <1>4 DEF writeOutput, return
  <2> QED
    BY <1>1, <1>2, <2>3, <2>4 DEF ChecksInv
<1>5. CASE at \in outputFiles /\ ~opened(at)
  <2>1. firstOf(given.unwritable) = at
    <3>1. given.unwritable \in SUBSET Nat /\ at \in given.unwritable /\ \A j \in given.unwritable : at <= j
      BY <1>1, <1>5 DEF opened
    <3> QED
      BY <3>1, FirstOfIs
  <2>2. outputCode(at) \in faults[NumConfigs + 7]
    BY <1>3, <1>5, <2>1 DEF opened
  <2>3. return(outputCode(at)) /\ at' = at
    BY <1>5 DEF writeOutput
  <2>4. NumConfigs + 7 \in 1 .. NumConfigs + 7 /\ (NumConfigs + 7) - 1 = NumConfigs + 6
    BY <1>1
  <2> QED
    BY <1>1, <2>2, <2>3, <2>4, Returns
<1>6. CASE at \in outputFiles /\ opened(at)
  <2>1. at' = at + 1 /\ stage' = "outputs"
    BY <1>1, <1>6 DEF writeOutput
  <2>2. at' <= 5 /\ \A f \in 1 .. at' - 1 : f \notin given.unwritable
    <3>1. \A f \in 1 .. at' - 1 : f \in 1 .. at - 1 \/ f = at
      BY <1>1, <2>1
    <3> QED
      BY <1>1, <1>6, <2>1, <3>1 DEF outputFiles, opened
  <2> QED
    BY <1>1, <1>2, <2>1, <2>2 DEF ChecksInv
<1> QED
  BY <1>4, <1>5, <1>6

\* Every step of main keeps it.
LEMMA ChecksNext ==
    ASSUME [MainNext]_allVars, ChecksInv, IInv, ExitCodeRight'
    PROVE  ChecksInv'
<1>2. given' = given /\ given \in Given /\ \A m : Passed(m)' = Passed(m)
  BY SameFaults, SamePassed DEF ChecksInv
<1>n. NumConfigs \in Nat \ {0} /\ at \in Nat \ {0}
  BY MainAssumption DEF ChecksInv
<1>3. CASE checkArguments
  <2>1. faults[1] = ifSo(~given.enoughArgs, -1)
    BY FaultsAt DEF firstTwo
  <2>2. CASE given.enoughArgs
    <3>1. stage' = "files" /\ at' = 1
      BY <1>3, <2>2 DEF checkArguments, goOn
    <3>2. Passed(1)
      BY <2>1, <2>2 DEF Passed, ifSo
    <3> QED
      BY <1>2, <1>n, <3>1, <3>2 DEF ChecksInv
  <2>3. CASE ~given.enoughArgs
    <3>1. return(-1) /\ at' = at
      BY <1>3, <2>3 DEF checkArguments
    <3>2. -1 \in faults[1] /\ 1 \in 1 .. NumConfigs + 7 /\ Passed(1 - 1)
      BY <1>n, <2>1, <2>3 DEF ifSo, Passed
    <3> QED
      BY <1>n, <3>1, <3>2, Returns
  <2> QED
    BY <2>2, <2>3
<1>4. CASE invertDependencies
  <2>1. stage = "inverting" /\ stage' = "constructors" /\ at' = 1 /\ Len(compTypeNames) \in Nat
    BY <1>4, NamesAssumption DEF invertDependencies, goOn
  <2> QED
    BY <1>2, <2>1 DEF ChecksInv
<1>5. CASE UNCHANGED allVars
  <2>1. UNCHANGED << stage, at, returned >> /\ \A code : FirstFault(code)' = FirstFault(code)
    BY <1>5, SameFaults, SamePassed DEF allVars, mainVars
  <2> QED
    BY <1>2, <2>1 DEF ChecksInv
<1> QED
  BY <1>3, <1>4, <1>5, OpenInputKeeps, FindSectionsKeeps, MacrosKeep, FindConstructorKeeps,
     OrderingKeeps, WriteOutputKeeps DEF MainNext

\* main returns the code of the first thing that is wrong with what it was
\* started with, however much else is, and 0 only if nothing is.
THEOREM FirstFaultReturned == MainSpec => []ReturnsFirstFault
<1>1. ChecksInv => ReturnsFirstFault
  BY DEF ChecksInv, FirstFault, ReturnsFirstFault
<1>2. ChecksInv /\ IInv /\ ExitCodeRight' /\ [MainNext]_allVars => ChecksInv'
  BY ChecksNext
<1>3. MainSpec => []IInv /\ []ExitCodeRight
  BY MainRunsGenerator, Inductive, ExitCodeCorrect, PTL
<1> QED
  BY <1>1, <1>2, <1>3, ChecksInit, PTL DEF MainSpec

====
