---- MODULE MCGenerator ----
(***************************************************************************)
(* GeneratorMain over every configuration of three component types with    *)
(* nothing else wrong, and over everything else that can be wrong, alone   *)
(* and in pairs, with a few configurations.                                *)
(***************************************************************************)
EXTENDS GeneratorMain

CONSTANTS Foo, Bar, Meh

MCNames == << Foo, Bar, Meh >>

\* No argument, an integer, and two arguments with a pointer among them.
plain(t, n, s) == [type |-> t, name |-> n, star |-> s, const |-> FALSE]
MCCtorArgs ==
    {<< >>, << plain("int", "a", "none") >>}
        \union {<< plain("int", "a", s), plain("char", "b", t) >> :
                    s \in {"none", "onType", "onName"}, t \in {"none", "onName"}}

sound == [
    enoughArgs |-> TRUE, unreadable |-> {}, missing |-> [k \in 1 .. NumConfigs |-> {}],
    strayDependency |-> FALSE, attributeFaults |-> {}, noConstructor |-> {},
    ctorArgs |-> [c \in Comps |-> << >>], unwritable |-> {}]

\* g with one more thing wrong, or with other constructors.
worse(g) ==
    {[g EXCEPT !.enoughArgs = FALSE], [g EXCEPT !.strayDependency = TRUE]}
        \union {[g EXCEPT !.unreadable = @ \union {f}] : f \in inputFiles}
        \union {[g EXCEPT !.missing[k] = @ \union {s}] : k \in 1 .. NumConfigs, s \in 1 .. 6}
        \union {[g EXCEPT !.attributeFaults = @ \union {code}] : code \in {-14, -15}}
        \union {[g EXCEPT !.noConstructor = @ \union {c}] : c \in Comps}
        \union {[g EXCEPT !.unwritable = @ \union {f}] : f \in outputFiles}
        \union {[g EXCEPT !.ctorArgs[c] = a] : c \in Comps, a \in CtorArgs}

\* A chain, a cycle, an unserializable prerequisite and an unknown name.
few ==
    /\ dependencies \in {[c \in Comps |-> IF c = Foo THEN f ELSE IF c = Meh THEN m ELSE {}] :
                            f \in {{}, {Bar}, {Unknown}}, m \in {{Foo}, {Meh}}}
    /\ noserialize \in {{}, {Foo}}

MCInit ==
    \/ StartedWith(sound)
    \/ few /\ \E g \in UNION {worse(h) : h \in worse(sound)} : StartedWith(g)

MCSpec == MCInit /\ [][MainNext]_allVars /\ WF_allVars(MainNext)

====
