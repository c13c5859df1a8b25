---- MODULE ComponentStream ----
(***************************************************************************)
(* The part of a creation request that lists the components: what the      *)
(* generated serialize<Comp> and request<Comp> write into a bit stream and *)
(* read back (genStateCDefns in source/ecsGenerator.cpp, hasComponent in   *)
(* source/ecsState.cpp).  A stream is a sequence of tokens: a bit, or the  *)
(* serialized fields of one component.  Nothing in the stream says which a *)
(* token is; a reader that comes to a token other than the one it expects  *)
(* gets arbitrary bits from there on.                                      *)
(***************************************************************************)
EXTENDS EntityMachine

CONSTANTS
    SerialOrder,    \* the serializable types in the generated order
    NoArgs          \* the types whose constructor takes no arguments

\* serializeComponentCreationRequest calls every serialize<Comp> once.
ASSUME SerialAssumption ==
    /\ SerialOrder \in Seq(Comps)
    /\ \A i, j \in DOMAIN SerialOrder : SerialOrder[i] = SerialOrder[j] => i = j
    /\ NoArgs \subseteq Comps

\* The generator's order: a type comes after its prerequisites.
ASSUME OrderAssumption ==
    \A i \in DOMAIN SerialOrder : \A d \in Prereqs[SerialOrder[i]] :
        \E j \in 1 .. i - 1 : SerialOrder[j] = d

Yes == [kind |-> "bit", value |-> TRUE]
No == [kind |-> "bit", value |-> FALSE]
Fields(c) == [kind |-> "fields", value |-> c]
Token == {Yes, No} \union {Fields(c) : c \in Comps}

\* The pieces of the components of SerialOrder, one after the other.
inSerialOrder(piece) ==
    LET upTo[i \in 0 .. Len(SerialOrder)] ==
            IF i = 0 THEN << >> ELSE upTo[i - 1] \o piece[SerialOrder[i]]
    IN  upTo[Len(SerialOrder)]

\* request<Comp> on a networked State writes the constructor's arguments to
\* the component's own stream, or one false bit when there are none.
ctorArgs(c) == IF c \in NoArgs THEN << No >> ELSE << Fields(c) >>

\* serialize<Comp> with ctorStreams: true and a copy of the component's
\* stream, false if that is empty.  The bug variant leaves out the bit that
\* announces the copy.
writtenBare(ctorStreams) == inSerialOrder(
    [c \in Comps |-> IF ctorStreams[c] = << >> THEN << No >> ELSE ctorStreams[c]])
writtenFromStreams(ctorStreams) == inSerialOrder(
    [c \in Comps |-> IF ctorStreams[c] = << >> THEN << No >> ELSE << Yes >> \o ctorStreams[c]])

\* serialize<Comp> writing the components of an entity.
writtenFromEntity(mask) == inSerialOrder(
    [c \in Comps |-> IF c \notin mask THEN << No >>
                     ELSE IF c \in NoArgs THEN << Yes >> ELSE << Yes, Fields(c) >>])

\* serialize<Comp> reading, for one type: r.m is the State it inserts into,
\* r.rest what it has not read, r.ahead the types still to come, and r.sane
\* whether the bits still mean something.  A failed insert is reported with
\* EZECS_VERBOSE_FATAL, which evaluates its argument once more, and so takes
\* the fields of the component from the stream a second time.
readOne(r, id, c) ==
    LET expected == IF c \in NoArgs THEN << Yes >> ELSE << Yes, Fields(c) >>
        after == SubSeq(r.rest, Len(expected) + 1, Len(r.rest))
        fits  == Len(r.rest) >= Len(expected)
                     /\ SubSeq(r.rest, 1, Len(expected)) = expected
        twice == c \notin NoArgs /\ ~insertable(r.m, id, c) /\ after # << >>
    IN  IF ~r.sane THEN r
        ELSE IF r.rest # << >> /\ Head(r.rest) = No
        THEN [r EXCEPT !.rest = Tail(@), !.ahead = @ \ {c}]
        ELSE IF fits
        THEN [m |-> inserted(r.m, id, c), rest |-> after, ahead |-> r.ahead \ {c}, sane |-> ~twice]
        ELSE [r EXCEPT !.sane = FALSE]

readAll(m, id, tokens) ==
    LET start == [m |-> m, rest |-> tokens, ahead |-> Comps, sane |-> TRUE]
        upTo[i \in 0 .. Len(SerialOrder)] ==
            IF i = 0 THEN start ELSE readOne(upTo[i - 1], id, SerialOrder[i])
    IN  upTo[Len(SerialOrder)]

\* serializeComponentCreationRequest reading: the States it may lead to.
\* Once the bits have lost their meaning the entity may get any of the types
\* still to come whose prerequisites it has.
readInto(m, id, tokens) ==
    LET r == readAll(m, id, tokens)
    IN  IF r.sane \/ ~lives(r.m, id) THEN {r.m}
        ELSE {[r.m EXCEPT !.mask[id] = @ \union extra] :
                extra \in {x \in SUBSET r.ahead : closed(r.m.mask[id] \union x)}}

====
