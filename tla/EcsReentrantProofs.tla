---- MODULE EcsReentrantProofs ----
(***************************************************************************)
(* What holds of a State whose delegates call back into it, for every      *)
(* depth of nesting and every set of component types, ids, Systems and     *)
(* registries, as long as the game keeps to all four rules.                *)
(***************************************************************************)
EXTENDS EcsReentrant, Induction, SequenceTheorems

\* The game keeps to all rules.
Disciplined == {"others", "pinned", "systems", "clear"} \subseteq Rules

\* Min returns the least element.
LEMMA MinLeast ==
    ASSUME NEW T \in SUBSET Nat, T # {}
    PROVE  Min(T) \in T /\ \A y \in T : Min(T) <= y
  BY NatMin DEF Min

--------------------------------------------------------------------------
(* Sequences *)

\* The end of a sequence and the rest.
LEMMA LastAndFront ==
    ASSUME NEW S, NEW s \in Seq(S), s # << >>
    PROVE  /\ Len(s) \in Nat \ {0}
           /\ Last(s) = s[Len(s)] /\ Last(s) \in S
           /\ Front(s) \in Seq(S)
           /\ Len(Front(s)) = Len(s) - 1
           /\ DOMAIN Front(s) = 1 .. Len(s) - 1
           /\ \A i \in 1 .. Len(s) - 1 : Front(s)[i] = s[i]
<1>1. Len(s) \in Nat \ {0}
  OBVIOUS
<1>2. Last(s) = s[Len(s)] /\ Last(s) \in S
  BY <1>1 DEF Last
<1>3. Front(s) = [i \in 1 .. Len(s) - 1 |-> s[i]]
  BY <1>1 DEF Front
<1>4. Front(s) \in Seq(S) /\ Len(Front(s)) = Len(s) - 1
  BY <1>1, <1>3
<1> QED
  BY <1>1, <1>2, <1>3, <1>4

\* Adding to the end.
LEMMA AppendAt ==
    ASSUME NEW S, NEW s \in Seq(S), NEW e \in S
    PROVE  /\ Append(s, e) \in Seq(S)
           /\ Len(Append(s, e)) = Len(s) + 1
           /\ \A i \in 1 .. Len(s) : Append(s, e)[i] = s[i]
           /\ Append(s, e)[Len(s) + 1] = e
  OBVIOUS

\* Replacing one element.
LEMMA PlacedAt ==
    ASSUME NEW S, NEW s \in Seq(S), NEW e \in S, NEW n \in 1 .. Len(s)
    PROVE  /\ [s EXCEPT ![n] = e] \in Seq(S)
           /\ Len([s EXCEPT ![n] = e]) = Len(s)
           /\ \A i \in 1 .. Len(s) : [s EXCEPT ![n] = e][i] = IF i = n THEN e ELSE s[i]
  OBVIOUS

\* Erasing one element, as forget does: what follows it moves up.
LEMMA RemovedAt ==
    ASSUME NEW S, NEW s \in Seq(S), NEW k \in DOMAIN s
    PROVE  /\ RemoveAt(s, k) \in Seq(S)
           /\ Len(RemoveAt(s, k)) = Len(s) - 1
           /\ \A i \in 1 .. Len(s) - 1 : RemoveAt(s, k)[i] = IF i < k THEN s[i] ELSE s[i + 1]
<1>1. Len(s) \in Nat /\ k \in 1 .. Len(s)
  OBVIOUS
<1> DEFINE a == SubSeq(s, 1, k - 1)
           b == SubSeq(s, k + 1, Len(s))
<1>2. a \in Seq(S) /\ Len(a) = k - 1 /\ \A i \in 1 .. k - 1 : a[i] = s[i]
  BY <1>1
<1>3. b \in Seq(S) /\ Len(b) = Len(s) - k /\ \A i \in 1 .. Len(s) - k : b[i] = s[k + i]
  BY <1>1
<1>4. RemoveAt(s, k) = a \o b
  BY DEF RemoveAt
<1> HIDE DEF a, b
<1>5. /\ a \o b \in Seq(S) /\ Len(a \o b) = Len(s) - 1
      /\ \A i \in 1 .. Len(s) - 1 : (a \o b)[i] = IF i <= Len(a) THEN a[i] ELSE b[i - Len(a)]
  <2>1. a \o b \in Seq(S) /\ Len(a \o b) = Len(a) + Len(b)
    BY <1>2, <1>3, ConcatProperties
  <2>2. \A i \in 1 .. Len(a) + Len(b) : (a \o b)[i] = IF i <= Len(a) THEN a[i] ELSE b[i - Len(a)]
    BY <1>2, <1>3, ConcatProperties
  <2>3. Len(a) + Len(b) = Len(s) - 1
    BY <1>1, <1>2, <1>3
  <2> QED
    BY <2>1, <2>2, <2>3
<1>6. ASSUME NEW i \in 1 .. Len(s) - 1
      PROVE  (a \o b)[i] = IF i < k THEN s[i] ELSE s[i + 1]
  <2>1. CASE i < k
    BY <1>1, <1>2, <1>5, <2>1
  <2>2. CASE ~(i < k)
    <3>1. i - (k - 1) \in 1 .. Len(s) - k /\ k + (i - (k - 1)) = i + 1 /\ ~(i <= k - 1)
      BY <1>1, <2>2
    <3>2. (a \o b)[i] = b[i - (k - 1)]
      BY <1>2, <1>5, <3>1
    <3>3. b[i - (k - 1)] = s[k + (i - (k - 1))]
      BY <1>3, <3>1
    <3> QED
      BY <2>2, <3>1, <3>2, <3>3
  <2> QED
    BY <2>1, <2>2
<1> QED
  BY <1>4, <1>5, <1>6

\* The first place at which a registry holds an id.
LEMMA PositionFound ==
    ASSUME NEW l, NEW e, ids[l] \in Seq(Ids)
    PROVE  /\ position(l, e) \in Nat
           /\ Contains(ids[l], e) => position(l, e) \in DOMAIN ids[l] /\ ids[l][position(l, e)] = e
<1> DEFINE I == {i \in 1 .. Len(ids[l]) : ids[l][i] = e}
<1>1. I \in SUBSET Nat
  OBVIOUS
<1>2. CASE I = {}
  BY <1>2 DEF position, SelectInSeq, Contains
<1>3. CASE I # {}
  <2>1. Min(I) \in I
    BY <1>1, <1>3, MinLeast
  <2>2. position(l, e) = Min(I)
    BY <1>3 DEF position, SelectInSeq
  <2> QED
    BY <2>1, <2>2
<1> QED
  BY <1>2, <1>3

--------------------------------------------------------------------------
(* The invariant.  Its parts speak of a sequence of frames, which is the   *)
(* stack or what a step makes of it.                                       *)

loops == {"add", "rem"}
clearings == {"clearEntity", "deleteEntity"}

Refs == {<< >>} \union (Listeners \X Nat)
LoopFrame ==
    [op : loops, id : Ids, ref : Refs, entity : Ids, stale : BOOLEAN,
     c : Comps, pos : Nat, last : Nat]
ClearingFrame ==
    [op : clearings, id : Ids, ref : Refs, entity : Ids, stale : BOOLEAN,
     pos : Nat, was : compMask]
HandlerFrame ==
    [op : handlers, id : Ids, ref : Refs, entity : Ids, stale : BOOLEAN,
     l : Listeners, at : Nat]
ClearFrame == [op : {"clear"}, ref : {<< >>}, stale : BOOLEAN, doomed : SUBSET Ids]
Frame == LoopFrame \union ClearingFrame \union HandlerFrame \union ClearFrame

Typed ==
    /\ nextId \in EntityId /\ freedIds \in Seq(Ids)
    /\ comps \in [AllComps -> SUBSET Ids]
    /\ componentsPresent \in [Ids -> compMask]
    /\ callbacks \in [Comps -> Seq(Listeners)]
    /\ constructed \subseteq Systems
    /\ ids \in [Listeners -> Seq(Ids)]
    /\ stack \in Seq(Frame)

\* A frame whose references, pointers and iterators are what they were: it is
\* about an entity that is alive, its loop still ends where the list does, and
\* forget finds the id where it found it.
Fresh(f) ==
    /\ ~f.stale
    /\ f.op # "clear" => f.id = f.entity
    /\ f.op \in loops => f.last = Len(callbacks[f.c]) /\ f.pos \in 1 .. f.last + 1
    /\ f.op \in clearings => f.pos \in 1 .. Len(CompOrder) + 1
    /\ f.op \in calls => f.entity \in live
    /\ f.op = "forget" => f.at \in DOMAIN ids[f.l] /\ ids[f.l][f.at] = f.id
AllFresh(s) == \A i \in 1 .. Len(s) : Fresh(s[i])

\* What may stand on top of a frame: a loop over callbacks waits for the
\* handler it called last, a clearing loop for the removal of the component it
\* was last at, clear for deleteEntity, and a handler for what it called.
Below(f, g) ==
    /\ f.op \in loops =>
        /\ f.pos >= 2
        /\ g.op = IF f.op = "add" THEN "discover" ELSE "forget"
        /\ g.entity = f.entity /\ g.ref = f.ref /\ g.l = callbacks[f.c][f.pos - 1]
    /\ f.op \in clearings =>
        /\ f.pos >= 2
        /\ g.op = "rem" /\ g.entity = f.entity /\ g.ref = f.ref /\ g.c = CompOrder[f.pos - 1]
    /\ f.op \in handlers => g.op \notin handlers
    /\ f.op = "clear" => g.op = "deleteEntity" /\ g.ref = << >>
Shape(s) ==
    /\ s # << >> => s[1].op \notin handlers
    /\ \A i \in 1 .. Len(s) - 1 : Below(s[i], s[i + 1])

\* Two running calls are about different entities, except a clearing call and
\* the removal it is waiting for; and what clear has still to delete is no
\* entity of a call that was running before.
ApartFrom(f, g) ==
    /\ f.op \in calls /\ g.op \in calls /\ f.entity = g.entity
          => f.op \in clearings /\ g.op = "rem"
    /\ f.op \in calls /\ g.op = "clear" => ~(f.entity \in live /\ f.entity \in g.doomed)
Apart(s) ==
    \A j \in 1 .. Len(s) : \A i \in 1 .. j - 1 :
        /\ ApartFrom(s[i], s[j])
        /\ s[i].op \in calls /\ s[j].op \in calls /\ s[i].entity = s[j].entity => j = i + 1

\* Nothing the frame f has still to do changes registry l.
Spares(f, l) ==
    /\ f.op = "add" => ~shouldFireAdditionDlgt(Likeness[l], componentsPresent[f.entity], f.c)
    /\ f.op = "rem" => ~shouldFireRemovalDlgt(Likeness[l], componentsPresent[f.entity], f.c)
    /\ f.op \in clearings => ~matches(l, f.entity)
    /\ f.op = "clear" => \A id \in f.doomed \intersect live : ~matches(l, id)

\* A registry in which a frame has a place is spared by that frame and by all
\* above it, and no handler above it is about to change the registry.
PinsSpared(s) ==
    \A j \in 1 .. Len(s) : \A i \in 1 .. j : \A l \in Listeners :
        placedIn(s[i], l) =>
            /\ Spares(s[j], l)
            /\ i < j /\ s[j].op \in handlers => s[j].l # l

Good(s) == AllFresh(s) /\ Shape(s) /\ Apart(s) /\ PinsSpared(s)

--------------------------------------------------------------------------
(* Frames *)

\* The op of a frame says which kind of record it is.
LEMMA FrameFacts ==
    ASSUME NEW f \in Frame
    PROVE  /\ f.op \in loops \union clearings \union handlers \union {"clear"}
           /\ f.ref \in Refs
           /\ f.op \in loops => f \in LoopFrame
           /\ f.op \in clearings => f \in ClearingFrame
           /\ f.op \in handlers => f \in HandlerFrame
           /\ f.op = "clear" => f \in ClearFrame
<1>1. CASE f \in LoopFrame
  BY <1>1 DEF LoopFrame, loops, clearings, handlers
<1>2. CASE f \in ClearingFrame
  BY <1>2 DEF ClearingFrame, loops, clearings, handlers
<1>3. CASE f \in HandlerFrame
  BY <1>3 DEF HandlerFrame, loops, clearings, handlers
<1>4. CASE f \in ClearFrame
  BY <1>4 DEF ClearFrame, Refs, loops, clearings, handlers
<1> QED
  BY <1>1, <1>2, <1>3, <1>4 DEF Frame

\* The frames that a step puts on the stack.
LEMMA NewLoop ==
    ASSUME NEW op \in loops, NEW id \in Ids, NEW ref \in Refs, NEW c \in Comps, NEW n \in Nat
    PROVE  [op |-> op, id |-> id, ref |-> ref, entity |-> id, stale |-> FALSE,
            c |-> c, pos |-> 1, last |-> n] \in Frame
  BY DEF Frame, LoopFrame

\* ... a clearing call,
LEMMA NewClearing ==
    ASSUME NEW op \in clearings, NEW id \in Ids, NEW ref \in Refs, NEW was \in compMask
    PROVE  [op |-> op, id |-> id, ref |-> ref, entity |-> id, stale |-> FALSE,
            pos |-> 1, was |-> was] \in Frame
  BY DEF Frame, ClearingFrame

\* ... a handler that has been called,
LEMMA NewHandler ==
    ASSUME NEW op \in handlers, NEW id \in Ids, NEW ref \in Refs, NEW l \in Listeners, NEW n \in Nat
    PROVE  [op |-> op, id |-> id, ref |-> ref, entity |-> id, stale |-> FALSE,
            l |-> l, at |-> n] \in Frame
  BY DEF Frame, HandlerFrame

\* ... and clear.
LEMMA NewClear ==
    ASSUME NEW doomed \in SUBSET Ids
    PROVE  [op |-> "clear", ref |-> << >>, stale |-> FALSE, doomed |-> doomed] \in Frame
  BY DEF Frame, ClearFrame

\* The stack without its top is as good as it was.
LEMMA FrontGood ==
    ASSUME NEW s \in Seq(Frame), s # << >>, Good(s)
    PROVE  Good(Front(s))
<1>1. /\ Front(s) \in Seq(Frame)
      /\ Len(s) \in Nat \ {0}
      /\ Len(Front(s)) = Len(s) - 1
      /\ \A i \in 1 .. Len(s) - 1 : Front(s)[i] = s[i]
  BY LastAndFront
<1>2. AllFresh(Front(s))
  BY <1>1 DEF Good, AllFresh
<1>3. Shape(Front(s))
  BY <1>1 DEF Good, Shape
<1>4. Apart(Front(s))
  <2>1. ASSUME NEW j \in 1 .. Len(s) - 1, NEW i \in 1 .. j - 1
        PROVE  /\ ApartFrom(Front(s)[i], Front(s)[j])
               /\ Front(s)[i].op \in calls /\ Front(s)[j].op \in calls
                     /\ Front(s)[i].entity = Front(s)[j].entity => j = i + 1
    <3>1. j \in 1 .. Len(s) /\ i \in 1 .. Len(s) - 1
      BY <1>1
    <3>2. /\ ApartFrom(s[i], s[j])
          /\ s[i].op \in calls /\ s[j].op \in calls /\ s[i].entity = s[j].entity => j = i + 1
      BY <3>1 DEF Good, Apart
    <3> QED
      BY <1>1, <3>1, <3>2
  <2> QED
    BY <1>1, <2>1 DEF Apart
<1>5. PinsSpared(Front(s))
  BY <1>1 DEF Good, PinsSpared
<1> QED
  BY <1>2, <1>3, <1>4, <1>5 DEF Good

\* A frame that differs from f only in how far it is.
Advanced(g, f) ==
    /\ g.op = f.op /\ g.ref = f.ref
    /\ f.op # "clear" => g.entity = f.entity
    /\ f.op \in loops => g.c = f.c
    /\ f.op \in clearings => g.was = f.was
    /\ f.op \in handlers => g.l = f.l
    /\ f.op = "clear" => g.doomed \subseteq f.doomed

\* Moving the top frame on leaves the stack as good as it was.
LEMMA AdvancedGood ==
    ASSUME NEW s \in Seq(Frame), s # << >>, Good(s),
           NEW g \in Frame, Advanced(g, Last(s)), Fresh(g)
    PROVE  Good([s EXCEPT ![Len(s)] = g])
<1> DEFINE n == Len(s)
           r == [s EXCEPT ![n] = g]
<1>1. n \in Nat \ {0} /\ Last(s) = s[n] /\ Last(s) \in Frame /\ n \in 1 .. Len(s)
  BY LastAndFront
<1>2. /\ r \in Seq(Frame) /\ Len(r) = n /\ r # << >>
      /\ \A i \in 1 .. n : r[i] = IF i = n THEN g ELSE s[i]
  BY <1>1, PlacedAt
<1>3. g.op = s[n].op /\ g.ref = s[n].ref /\ Advanced(g, s[n])
  BY <1>1 DEF Advanced
<1> HIDE DEF r, n
<1>4. AllFresh(r)
  BY <1>1, <1>2 DEF Good, AllFresh, n
<1>5. Shape(r)
  <2>1. r[1].op \notin handlers
    BY <1>1, <1>2, <1>3 DEF Good, Shape
  <2>2. ASSUME NEW i \in 1 .. n - 1 PROVE Below(r[i], r[i + 1])
    <3>1. Below(s[i], s[i + 1])
      BY <2>2 DEF Good, Shape, n
    <3>2. r[i] = s[i] /\ r[i + 1] = IF i + 1 = n THEN g ELSE s[i + 1]
      BY <1>1, <1>2, <2>2
    <3>3. CASE i + 1 = n
      BY <3>1, <3>2, <3>3, <1>3 DEF Below, Advanced, loops, clearings, handlers
    <3> QED
      BY <3>1, <3>2, <3>3
  <2> QED
    BY <1>2, <2>1, <2>2 DEF Shape
<1>6. Apart(r)
  <2>1. ASSUME NEW j \in 1 .. n, NEW i \in 1 .. j - 1
        PROVE  /\ ApartFrom(r[i], r[j])
               /\ r[i].op \in calls /\ r[j].op \in calls /\ r[i].entity = r[j].entity => j = i + 1
    <3>1. /\ ApartFrom(s[i], s[j])
          /\ s[i].op \in calls /\ s[j].op \in calls /\ s[i].entity = s[j].entity => j = i + 1
      BY <1>1, <2>1 DEF Good, Apart, n
    <3>2. r[i] = s[i] /\ r[j] = IF j = n THEN g ELSE s[j]
      BY <1>1, <1>2, <2>1
    <3>3. CASE j = n
      BY <3>1, <3>2, <3>3, <1>3 DEF ApartFrom, Advanced, calls
    <3> QED
      BY <3>1, <3>2, <3>3
  <2> QED
    BY <1>2, <2>1 DEF Apart
<1>7. PinsSpared(r)
  <2>1. ASSUME NEW j \in 1 .. n, NEW i \in 1 .. j, NEW l \in Listeners, placedIn(r[i], l)
        PROVE  /\ Spares(r[j], l)
               /\ i < j /\ r[j].op \in handlers => r[j].l # l
    <3>1. placedIn(s[i], l)
      BY <1>1, <1>2, <1>3, <2>1 DEF placedIn, Advanced, handlers
    <3>2. /\ Spares(s[j], l)
          /\ i < j /\ s[j].op \in handlers => s[j].l # l
      BY <1>1, <2>1, <3>1 DEF Good, PinsSpared, n
    <3>3. CASE j = n
      BY <1>2, <1>3, <2>1, <3>2, <3>3 DEF Spares, Advanced, loops, clearings, handlers
    <3> QED
      BY <1>2, <2>1, <3>2, <3>3
  <2> QED
    BY <1>2, <2>1 DEF PinsSpared
<1> QED
  BY <1>4, <1>5, <1>6, <1>7 DEF Good, r, n

\* What a new top frame has to satisfy for the stack to stay good.
LEMMA PushGood ==
    ASSUME NEW s \in Seq(Frame), Good(s), NEW f \in Frame, Fresh(f),
           s = << >> => f.op \notin handlers,
           s # << >> => Below(Last(s), f),
           \A i \in 1 .. Len(s) :
              /\ ApartFrom(s[i], f)
              /\ s[i].op \in calls /\ f.op \in calls /\ s[i].entity = f.entity => i = Len(s),
           \A i \in 1 .. Len(s) : \A l \in Listeners :
              placedIn(s[i], l) => Spares(f, l) /\ (f.op \in handlers => f.l # l),
           \A l \in Listeners : placedIn(f, l) => Spares(f, l)
    PROVE  Good(Append(s, f))
<1> DEFINE n == Len(s)
           r == Append(s, f)
<1>a. /\ Append(s, f) \in Seq(Frame)
      /\ Len(Append(s, f)) = Len(s) + 1
      /\ \A i \in 1 .. Len(s) : Append(s, f)[i] = s[i]
      /\ Append(s, f)[Len(s) + 1] = f
  BY AppendAt
<1>b. Len(s) \in Nat
  OBVIOUS
<1>c. Append(s, f) # << >>
  BY <1>a, <1>b
<1>1. /\ n \in Nat
      /\ r \in Seq(Frame) /\ Len(r) = n + 1 /\ r # << >>
      /\ \A i \in 1 .. n : r[i] = s[i]
      /\ r[n + 1] = f
  BY <1>a, <1>b, <1>c
<1>2. ASSUME s # << >> PROVE n > 0 /\ Last(s) = s[n]
  <2>1. Len(s) \in Nat \ {0} /\ Last(s) = s[Len(s)]
    BY <1>2, LastAndFront
  <2> QED
    BY <2>1
<1>3. s = << >> => n = 0
  OBVIOUS
<1> HIDE DEF r
<1>4. AllFresh(r)
  BY <1>1 DEF Good, AllFresh
<1>5. Shape(r)
  <2>1. r[1].op \notin handlers
    BY <1>1, <1>2, <1>3 DEF Good, Shape
  <2>2. ASSUME NEW i \in 1 .. n PROVE Below(r[i], r[i + 1])
    <3>1. CASE i = n
      BY <1>1, <1>2, <1>3, <2>2, <3>1
    <3>2. CASE i # n
      <4>1. i \in 1 .. n - 1 /\ i + 1 \in 1 .. n
        BY <1>1, <2>2, <3>2
      <4> QED
        BY <1>1, <4>1 DEF Good, Shape
    <3> QED
      BY <3>1, <3>2
  <2> QED
    BY <1>1, <2>1, <2>2 DEF Shape
<1>6. Apart(r)
  <2>1. ASSUME NEW j \in 1 .. n + 1, NEW i \in 1 .. j - 1
        PROVE  /\ ApartFrom(r[i], r[j])
               /\ r[i].op \in calls /\ r[j].op \in calls /\ r[i].entity = r[j].entity => j = i + 1
    <3>1. i \in 1 .. n /\ r[i] = s[i]
      BY <1>1, <2>1
    <3>2. CASE j = n + 1
      BY <1>1, <3>1, <3>2
    <3>3. CASE j # n + 1
      <4>1. j \in 1 .. n /\ r[j] = s[j]
        BY <1>1, <2>1, <3>3
      <4>2. /\ ApartFrom(s[i], s[j])
            /\ s[i].op \in calls /\ s[j].op \in calls /\ s[i].entity = s[j].entity => j = i + 1
        BY <2>1, <4>1 DEF Good, Apart
      <4> QED
        BY <3>1, <4>1, <4>2
    <3> QED
      BY <3>2, <3>3
  <2> QED
    BY <1>1, <2>1 DEF Apart
<1>7. PinsSpared(r)
  <2>1. ASSUME NEW j \in 1 .. n + 1, NEW i \in 1 .. j, NEW l \in Listeners, placedIn(r[i], l)
        PROVE  /\ Spares(r[j], l)
               /\ i < j /\ r[j].op \in handlers => r[j].l # l
    <3>1. CASE j = n + 1
      <4>1. CASE i = n + 1
        BY <1>1, <2>1, <3>1, <4>1
      <4>2. CASE i # n + 1
        <5>1. i \in 1 .. n /\ r[i] = s[i]
          BY <1>1, <2>1, <3>1, <4>2
        <5> QED
          BY <1>1, <2>1, <3>1, <5>1
      <4> QED
        BY <4>1, <4>2
    <3>2. CASE j # n + 1
      <4>1. j \in 1 .. n /\ r[j] = s[j] /\ i \in 1 .. n /\ r[i] = s[i]
        BY <1>1, <2>1, <3>2
      <4> QED
        BY <2>1, <4>1 DEF Good, PinsSpared
    <3> QED
      BY <3>1, <3>2
  <2> QED
    BY <1>1, <2>1 DEF PinsSpared
<1> QED
  BY <1>4, <1>5, <1>6, <1>7 DEF Good, r

\* A change of the state that keeps what the frames of s depend on.
LEMMA ChangeGood ==
    ASSUME NEW s \in Seq(Frame), Good(s), callbacks' = callbacks,
           \A i \in 1 .. Len(s) : s[i].op \in calls => s[i].entity \in live',
           \A i \in 1 .. Len(s) : s[i].op = "forget" => ids'[s[i].l] = ids[s[i].l],
           \A i \in 1 .. Len(s) : s[i].op = "clear" => live' \subseteq live,
           \A j \in 1 .. Len(s) : \A i \in 1 .. j : \A l \in Listeners :
              placedIn(s[i], l) /\ Spares(s[j], l) => Spares(s[j], l)'
    PROVE  Good(s)'
<1>1. AllFresh(s)'
  BY DEF Good, AllFresh, Fresh
<1>2. Shape(s)'
  BY DEF Good, Shape, Below
<1>3. Apart(s)'
  <2>1. ASSUME NEW j \in 1 .. Len(s), NEW i \in 1 .. j - 1
        PROVE  /\ ApartFrom(s[i], s[j])'
               /\ s[i].op \in calls /\ s[j].op \in calls /\ s[i].entity = s[j].entity => j = i + 1
    <3>1. /\ ApartFrom(s[i], s[j])
          /\ s[i].op \in calls /\ s[j].op \in calls /\ s[i].entity = s[j].entity => j = i + 1
      BY <2>1 DEF Good, Apart
    <3> QED
      BY <2>1, <3>1 DEF ApartFrom
  <2> QED
    BY <2>1 DEF Apart
<1>4. PinsSpared(s)'
  <2>1. ASSUME NEW j \in 1 .. Len(s), NEW i \in 1 .. j, NEW l \in Listeners, placedIn(s[i], l)
        PROVE  /\ Spares(s[j], l)'
               /\ i < j /\ s[j].op \in handlers => s[j].l # l
    BY <2>1 DEF Good, PinsSpared
  <2> QED
    BY <2>1 DEF PinsSpared, placedIn
<1> QED
  BY <1>1, <1>2, <1>3, <1>4 DEF Good

\* ... in particular one that changes nothing of what they depend on.
LEMMA SameGood ==
    ASSUME NEW s \in Seq(Frame), Good(s),
           UNCHANGED << live, componentsPresent, callbacks, ids >>
    PROVE  Good(s)'
<1>1. ASSUME NEW f, NEW l PROVE Spares(f, l) => Spares(f, l)'
  BY DEF Spares, matches
<1>2. \A i \in 1 .. Len(s) : s[i].op \in calls => s[i].entity \in live'
  BY DEF Good, AllFresh, Fresh
<1>3. /\ callbacks' = callbacks
      /\ \A i \in 1 .. Len(s) : s[i].op = "forget" => ids'[s[i].l] = ids[s[i].l]
      /\ \A i \in 1 .. Len(s) : s[i].op = "clear" => live' \subseteq live
  OBVIOUS
<1>4. \A j \in 1 .. Len(s) : \A i \in 1 .. j : \A l \in Listeners :
              placedIn(s[i], l) /\ Spares(s[j], l) => Spares(s[j], l)'
  BY <1>1
<1> QED
  BY <1>2, <1>3, <1>4, ChangeGood

--------------------------------------------------------------------------
(* Components that are being added *)

Adds(f, id, c) == f.op = "add" /\ f.entity = id /\ f.c = c
BeingAdded(s, id, c) == \E i \in 1 .. Len(s) : Adds(s[i], id, c)

\* StoreMatchesMask, for a sequence of frames.
Stored(s) ==
    \A c \in AllComps : \A id \in Ids :
        id \in comps[c] <=> c \in componentsPresent[id] \/ BeingAdded(s, id, c)

\* The components that are being added, without the top frame,
LEMMA AddedFront ==
    ASSUME NEW s \in Seq(Frame), s # << >>, NEW id, NEW c
    PROVE  BeingAdded(s, id, c) <=> BeingAdded(Front(s), id, c) \/ Adds(Last(s), id, c)
<1>1. /\ Len(s) \in Nat \ {0} /\ Last(s) = s[Len(s)]
      /\ Len(Front(s)) = Len(s) - 1
      /\ \A i \in 1 .. Len(s) - 1 : Front(s)[i] = s[i]
  BY LastAndFront
<1>2. \A i \in 1 .. Len(s) : i = Len(s) \/ i \in 1 .. Len(s) - 1
  BY <1>1
<1> QED
  BY <1>1, <1>2 DEF BeingAdded

\* ... with a new one,
LEMMA AddedAppend ==
    ASSUME NEW s \in Seq(Frame), NEW f \in Frame, NEW id, NEW c
    PROVE  BeingAdded(Append(s, f), id, c) <=> BeingAdded(s, id, c) \/ Adds(f, id, c)
<1>1. /\ Len(s) \in Nat
      /\ Len(Append(s, f)) = Len(s) + 1
      /\ \A i \in 1 .. Len(s) : Append(s, f)[i] = s[i]
      /\ Append(s, f)[Len(s) + 1] = f
  BY AppendAt
<1>2. \A i \in 1 .. Len(s) + 1 : i = Len(s) + 1 \/ i \in 1 .. Len(s)
  BY <1>1
<1> QED
  BY <1>1, <1>2 DEF BeingAdded

\* ... and with one that has moved on.
LEMMA AddedAdvanced ==
    ASSUME NEW s \in Seq(Frame), s # << >>, NEW g \in Frame, Advanced(g, Last(s)), NEW id, NEW c
    PROVE  BeingAdded([s EXCEPT ![Len(s)] = g], id, c) <=> BeingAdded(s, id, c)
<1> DEFINE r == [s EXCEPT ![Len(s)] = g]
<1>0. Len(s) \in Nat \ {0} /\ Last(s) = s[Len(s)]
  BY LastAndFront
<1>1. Len(s) \in Nat \ {0} /\ Last(s) = s[Len(s)] /\ Len(s) \in 1 .. Len(s)
  BY <1>0
<1>2. Len(r) = Len(s) /\ \A i \in 1 .. Len(s) : r[i] = IF i = Len(s) THEN g ELSE s[i]
  BY <1>1, PlacedAt
<1>3. Adds(g, id, c) <=> Adds(s[Len(s)], id, c)
  BY <1>1 DEF Adds, Advanced, loops
<1> HIDE DEF r
<1>4. BeingAdded(r, id, c) <=> BeingAdded(s, id, c)
  BY <1>1, <1>2, <1>3 DEF BeingAdded
<1> QED
  BY <1>4 DEF r

--------------------------------------------------------------------------
(* Calls *)

\* The id a call is given, by value or by reference to a place in a registry.
LEMMA ArgumentType ==
    ASSUME Typed, NEW arg \in arguments
    PROVE  arg.id \in Ids /\ arg.ref \in Refs
<1>1. live \subseteq Ids
  BY DEF Typed, live, AllComps
<1>2. ASSUME NEW l \in Listeners, NEW i \in DOMAIN ids[l]
      PROVE  ids[l][i] \in Ids /\ << l, i >> \in Listeners \X Nat
  BY <1>2 DEF Typed
<1> QED
  BY <1>1, <1>2 DEF arguments, byValue, byReference, Refs

\* The rules know every registry in which a frame has a place.
LEMMA PlacesArePinned ==
    ASSUME Typed, Good(stack), NEW i \in 1 .. Len(stack), NEW l \in Listeners,
           placedIn(stack[i], l), NEW arg
    PROVE  l \in pinned(arg)
<1>1. DOMAIN stack = 1 .. Len(stack) /\ stack[i] \in Frame
  BY DEF Typed
<1>2. CASE stack[i].op = "forget" /\ stack[i].l = l
  BY <1>1, <1>2 DEF pinned, onStack
<1>3. CASE stack[i].ref # << >> /\ stack[i].ref[1] = l
  <2>1. ASSUME NEW k \in 1 .. Len(stack), stack[k].op \in calls, stack[k].ref = stack[i].ref
        PROVE  l \in pinned(arg)
    BY <1>1, <1>3, <2>1 DEF pinned, onStack
  <2>2. CASE stack[i].op \in calls
    BY <2>1, <2>2
  <2>3. CASE stack[i].op \in handlers
    <3>1. i # 1 /\ i - 1 \in 1 .. Len(stack) - 1 /\ i - 1 \in 1 .. Len(stack) /\ i - 1 + 1 = i
      BY <2>3 DEF Good, Shape
    <3>2. Below(stack[i - 1], stack[i]) /\ stack[i - 1] \in Frame
      BY <3>1 DEF Good, Shape, Typed
    <3>3. stack[i - 1].op \in loops
      BY <2>3, <3>2, FrameFacts DEF Below, handlers, clearings, loops
    <3>4. stack[i - 1].ref = stack[i].ref
      BY <3>2, <3>3 DEF Below
    <3> QED
      BY <2>1, <3>1, <3>3, <3>4 DEF calls, loops
  <2>4. stack[i].op # "clear"
    BY <1>1, <1>3, FrameFacts DEF ClearFrame
  <2> QED
    BY <1>1, <2>2, <2>3, <2>4, FrameFacts DEF calls, loops, clearings, handlers
<1> QED
  BY <1>2, <1>3 DEF placedIn

\* A call that is made from the main loop or from a handler, for an entity no
\* running call is about, which spares all registries in which a frame has a
\* place.
LEMMA CallGood ==
    ASSUME Typed, Good(stack), inControl, NEW f \in Frame, Fresh(f), f.op \notin handlers,
           f.op \in calls => f.entity \notin busy,
           f.op = "clear" => busy \intersect f.doomed = {},
           \A i \in 1 .. Len(stack) : \A l \in Listeners : placedIn(stack[i], l) => Spares(f, l),
           \A l \in Listeners : placedIn(f, l) => Spares(f, l)
    PROVE  Good(Append(stack, f))
<1>1. stack \in Seq(Frame)
  BY DEF Typed
<1>2. ASSUME stack # << >> PROVE Below(Last(stack), f)
  <2>1. Last(stack).op \in handlers
    BY <1>2 DEF inControl, resumes, top
  <2> QED
    BY <2>1 DEF Below, handlers, loops, clearings
<1>3. ASSUME NEW i \in 1 .. Len(stack)
      PROVE  /\ ApartFrom(stack[i], f)
             /\ ~(stack[i].op \in calls /\ f.op \in calls /\ stack[i].entity = f.entity)
  <2>1. stack[i].op \in calls => stack[i].entity \in busy
    BY <1>1, <1>3 DEF busy, onStack
  <2> QED
    BY <2>1 DEF ApartFrom
<1> QED
  BY <1>1, <1>2, <1>3, PushGood

IInv == Typed /\ Good(stack) /\ Stored(stack)

\* A step that changes neither masks nor collections keeps the invariant if
\* it leaves the stack in order.
LEMMA StackStep ==
    ASSUME IInv, UNCHANGED << stateVars, systemVars >>,
           stack' \in Seq(Frame), Good(stack'),
           \A id \in Ids, c \in AllComps :
              BeingAdded(stack', id, c) <=> BeingAdded(stack, id, c)
    PROVE  IInv'
<1>1. /\ UNCHANGED << nextId, freedIds, comps, componentsPresent >>
      /\ UNCHANGED << callbacks, constructed, ids, live >>
  BY DEF stateVars, idVars, systemVars, live
<1>2. Typed'
  BY <1>1 DEF IInv, Typed
<1>3. Good(stack)'
  BY <1>1, SameGood
<1>4. Stored(stack)'
  BY <1>1 DEF IInv, Stored, BeingAdded
<1> QED
  BY <1>2, <1>3, <1>4 DEF IInv

\* remComp, called.
LEMMA RemCompKeeps ==
    ASSUME IInv, Disciplined, NEW arg \in arguments, NEW c \in Comps, remComp(arg, c)
    PROVE  IInv'
<1> DEFINE f == notifying(frame("rem", arg), "rem", c)
<1>1. arg.id \in Ids /\ arg.ref \in Refs
  BY ArgumentType DEF IInv
<1>2. f = [op |-> "rem", id |-> arg.id, ref |-> arg.ref, entity |-> arg.id, stale |-> FALSE,
           c |-> c, pos |-> 1, last |-> Len(callbacks[c])]
  BY DEF notifying, frame
<1>3. Len(callbacks[c]) \in Nat
  BY DEF IInv, Typed
<1>4. f \in Frame
  BY <1>1, <1>2, <1>3, NewLoop DEF loops
<1>5. /\ inControl /\ arg.id \in live
      /\ stack' = Append(stack, f)
      /\ UNCHANGED << stateVars, systemVars >>
      /\ arg.id \notin busy
      /\ \A l \in pinned(arg) :
            ~shouldFireRemovalDlgt(Likeness[l], componentsPresent[arg.id], c)
  BY DEF remComp, keepsRules, Disciplined, count
<1> HIDE DEF f
<1>6. Fresh(f)
  BY <1>2, <1>3, <1>5 DEF Fresh, loops, clearings
<1>7. ASSUME NEW l \in Listeners, l \in pinned(arg) PROVE Spares(f, l)
  BY <1>2, <1>5, <1>7 DEF Spares, clearings
<1>8. ASSUME NEW l \in Listeners, placedIn(f, l) PROVE l \in pinned(arg)
  BY <1>2, <1>8 DEF placedIn, pinned
<1>9. Good(Append(stack, f))
  <2>1. f.op = "rem" /\ f.entity = arg.id
    BY <1>2
  <2> QED
    BY <1>4, <1>5, <1>6, <1>7, <1>8, <2>1, PlacesArePinned, CallGood DEF IInv, calls, handlers
<1>10. stack' \in Seq(Frame)
  BY <1>4, <1>5, AppendAt DEF IInv, Typed
<1>11. \A id \in Ids, d \in AllComps : BeingAdded(stack', id, d) <=> BeingAdded(stack, id, d)
  BY <1>2, <1>4, <1>5, AddedAppend DEF IInv, Typed, Adds
<1> QED
  BY <1>5, <1>9, <1>10, <1>11, StackStep

\* addComp, called: the component is stored and announced, its flag is not set yet.
LEMMA AddCompKeeps ==
    ASSUME IInv, Disciplined, NEW arg \in arguments, NEW c \in Comps, addComp(arg, c)
    PROVE  IInv'
<1> DEFINE f == notifying(frame("add", arg), "add", c)
<1>1. arg.id \in Ids /\ arg.ref \in Refs
  BY ArgumentType DEF IInv
<1>2. f = [op |-> "add", id |-> arg.id, ref |-> arg.ref, entity |-> arg.id, stale |-> FALSE,
           c |-> c, pos |-> 1, last |-> Len(callbacks[c])]
  BY DEF notifying, frame
<1>3. Len(callbacks[c]) \in Nat
  BY DEF IInv, Typed
<1>4. f \in Frame
  BY <1>1, <1>2, <1>3, NewLoop DEF loops
<1>5. /\ inControl
      /\ stack' = Append(stack, f)
      /\ comps' = [comps EXCEPT ![c] = @ \union {arg.id}]
      /\ UNCHANGED << nextId, freedIds, componentsPresent, callbacks, constructed, ids >>
      /\ EXISTENCE \in componentsPresent[arg.id]
      /\ arg.id \notin busy
      /\ \A l \in pinned(arg) :
            ~shouldFireAdditionDlgt(Likeness[l], componentsPresent[arg.id], c)
  BY DEF addComp, keepsRules, Disciplined, count, try_emplace, idVars, systemVars,
         passesPrerequisitesForAddition, requiredComps
<1>e. c # EXISTENCE /\ EXISTENCE \in AllComps /\ c \in AllComps
  BY CompsAssumption DEF AllComps
<1>l. arg.id \in live /\ UNCHANGED live
  BY <1>1, <1>5, <1>e DEF IInv, Typed, Stored, live, BeingAdded, Adds, Frame, LoopFrame,
     ClearingFrame, HandlerFrame, ClearFrame
<1> HIDE DEF f
<1>6. Fresh(f)
  BY <1>2, <1>3, <1>l DEF Fresh, loops, clearings
<1>7. ASSUME NEW l \in Listeners, l \in pinned(arg) PROVE Spares(f, l)
  BY <1>2, <1>5, <1>7 DEF Spares, clearings
<1>8. ASSUME NEW l \in Listeners, placedIn(f, l) PROVE l \in pinned(arg)
  BY <1>2, <1>8 DEF placedIn, pinned
<1>9. Good(Append(stack, f))
  <2>1. f.op = "add" /\ f.entity = arg.id
    BY <1>2
  <2> QED
    BY <1>4, <1>5, <1>6, <1>7, <1>8, <2>1, PlacesArePinned, CallGood DEF IInv, calls, handlers
<1>10. stack' \in Seq(Frame) /\ Good(stack')
  BY <1>4, <1>5, <1>9, AppendAt DEF IInv, Typed
<1>11. Good(stack)'
  BY <1>5, <1>l, <1>10, SameGood
<1>12. Typed'
  BY <1>1, <1>5, <1>e, <1>10 DEF IInv, Typed
<1>13. Stored(stack)'
  <2>1. ASSUME NEW id \in Ids, NEW d \in AllComps
        PROVE  id \in comps'[d] <=> d \in componentsPresent'[id] \/ BeingAdded(stack', id, d)
    <3>1. BeingAdded(stack', id, d) <=> BeingAdded(stack, id, d) \/ (id = arg.id /\ d = c)
      BY <1>2, <1>4, <1>5, AddedAppend DEF IInv, Typed, Adds
    <3>2. id \in comps'[d] <=> id \in comps[d] \/ (id = arg.id /\ d = c)
      BY <1>5, <1>e DEF IInv, Typed
    <3> QED
      BY <1>5, <3>1, <3>2 DEF IInv, Stored
  <2> QED
    BY <2>1 DEF Stored, BeingAdded
<1> QED
  BY <1>11, <1>12, <1>13 DEF IInv

\* clearEntity and deleteEntity, called.
LEMMA ClearEntityKeeps ==
    ASSUME IInv, Disciplined, NEW arg \in arguments, NEW op \in clearings, clearEntity(arg, op)
    PROVE  IInv'
<1> DEFINE f == clearing(op, arg)
<1>1. arg.id \in Ids /\ arg.ref \in Refs
  BY ArgumentType DEF IInv
<1>2. f = [op |-> op, id |-> arg.id, ref |-> arg.ref, entity |-> arg.id, stale |-> FALSE,
           pos |-> 1, was |-> componentsPresent[arg.id]]
  BY DEF clearing
<1>3. componentsPresent[arg.id] \in compMask
  BY <1>1 DEF IInv, Typed
<1>4. f \in Frame
  BY <1>1, <1>2, <1>3, NewClearing
<1>5. /\ inControl /\ arg.id \in live
      /\ stack' = Append(stack, f)
      /\ UNCHANGED << stateVars, systemVars >>
      /\ arg.id \notin busy
      /\ \A l \in pinned(arg) : ~matches(l, arg.id)
  BY DEF clearEntity, keepsRules, Disciplined, count
<1> HIDE DEF f
<1>6. Fresh(f)
  <2>1. Len(CompOrder) \in Nat
    BY CompsAssumption
  <2> QED
    BY <1>2, <1>5, <2>1 DEF Fresh, loops, clearings
<1>7. ASSUME NEW l \in Listeners, l \in pinned(arg) PROVE Spares(f, l)
  BY <1>2, <1>5, <1>7 DEF Spares, clearings
<1>8. ASSUME NEW l \in Listeners, placedIn(f, l) PROVE l \in pinned(arg)
  BY <1>2, <1>8 DEF placedIn, pinned, clearings
<1>9. Good(Append(stack, f))
  <2>1. f.op = op /\ f.entity = arg.id
    BY <1>2
  <2> QED
    BY <1>4, <1>5, <1>6, <1>7, <1>8, <2>1, PlacesArePinned, CallGood
       DEF IInv, calls, handlers, clearings
<1>10. stack' \in Seq(Frame)
  BY <1>4, <1>5, AppendAt DEF IInv, Typed
<1>11. \A id \in Ids, d \in AllComps : BeingAdded(stack', id, d) <=> BeingAdded(stack, id, d)
  BY <1>2, <1>4, <1>5, AddedAppend DEF IInv, Typed, Adds, clearings
<1> QED
  BY <1>5, <1>9, <1>10, <1>11, StackStep

\* clear, called.
LEMMA ClearKeeps ==
    ASSUME IInv, Disciplined, clear
    PROVE  IInv'
<1> DEFINE f == [op |-> "clear", ref |-> << >>, stale |-> FALSE, doomed |-> idsToErase]
<1>1. idsToErase \in SUBSET Ids
  BY DEF IInv, Typed, idsToErase, live, AllComps
<1>2. f \in Frame
  BY <1>1, NewClear
<1>3. /\ inControl
      /\ stack' = Append(stack, f)
      /\ UNCHANGED << stateVars, systemVars >>
  BY DEF clear
<1>4. ASSUME NEW id \in idsToErase
      PROVE  id \notin busy /\ \A l \in pinned(byValue(id)) : ~matches(l, id)
  BY DEF clear, keepsRules, Disciplined, byValue
<1>5. f.op = "clear" /\ f.ref = << >> /\ ~f.stale /\ f.doomed = idsToErase
  OBVIOUS
<1> HIDE DEF f
<1>6. Fresh(f)
  BY <1>5 DEF Fresh, loops, clearings, calls
<1>7. ASSUME NEW i \in 1 .. Len(stack), NEW l \in Listeners, placedIn(stack[i], l)
      PROVE  Spares(f, l)
  BY <1>4, <1>5, <1>7, PlacesArePinned DEF IInv, Spares, clearings
<1>8. \A l \in Listeners : ~placedIn(f, l)
  BY <1>5 DEF placedIn
<1>9. Good(Append(stack, f))
  BY <1>2, <1>3, <1>4, <1>5, <1>6, <1>7, <1>8, CallGood DEF IInv, calls, handlers
<1>10. stack' \in Seq(Frame)
  BY <1>2, <1>3, AppendAt DEF IInv, Typed
<1>11. \A id \in Ids, d \in AllComps : BeingAdded(stack', id, d) <=> BeingAdded(stack, id, d)
  BY <1>2, <1>3, <1>5, AddedAppend DEF IInv, Typed, Adds
<1> QED
  BY <1>3, <1>9, <1>10, <1>11, StackStep

\* A new entity changes nothing for those that are there.
LEMMA CreateEntityKeeps ==
    ASSUME IInv, Disciplined, createEntity
    PROVE  IInv'
<1>1. /\ onStack({"clear"}) = {}
      /\ UNCHANGED << callbacks, constructed, ids, stack >>
      /\ nextId' = nextIdAfter(nextId, freedIds)
      /\ freedIds' = freedIdsAfter(freedIds)
  BY DEF createEntity, outsideClear, Disciplined, systemVars
<1>2. nextId' \in EntityId /\ freedIds' \in Seq(Ids)
  <2>1. nextId' \in EntityId
    BY <1>1, MaxIdAssumption DEF IInv, Typed, EntityId, nextIdAfter
  <2>2. freedIds' \in Seq(Ids)
    BY <1>1, HeadTailProperties DEF IInv, Typed, freedIdsAfter
  <2> QED
    BY <2>1, <2>2
<1>3. CASE outOfIds(nextId, freedIds)
  <2>1. UNCHANGED << comps, componentsPresent, live >>
    BY <1>3 DEF createEntity, live
  <2>2. Good(stack)'
    BY <1>1, <2>1, SameGood DEF IInv, Typed
  <2> QED
    BY <1>1, <1>2, <2>1, <2>2 DEF IInv, Typed, Stored, BeingAdded
<1>4. CASE ~outOfIds(nextId, freedIds)
  <2> DEFINE id == newIdFrom(nextId, freedIds)
  <2>1. id \in Ids
    BY <1>4, HeadTailProperties, MaxIdAssumption
       DEF IInv, Typed, EntityId, Ids, outOfIds, newIdFrom
  <2>2. /\ comps' = [comps EXCEPT ![EXISTENCE] = @ \union {id}]
        /\ componentsPresent' = [componentsPresent EXCEPT ![id] = @ \union {EXISTENCE}]
    BY <1>4 DEF createEntity, try_emplace, turnOnFlags
  <2> HIDE DEF id
  <2>3. EXISTENCE \in AllComps /\ live' = live \union {id}
    BY <2>2 DEF IInv, Typed, live, AllComps
  <2>4. Typed'
    BY <1>1, <1>2, <2>1, <2>2, <2>3 DEF IInv, Typed, compMask
  <2>5. Stored(stack)'
    BY <1>1, <2>1, <2>2, <2>3 DEF IInv, Typed, Stored, BeingAdded
  <2>6. ASSUME NEW e \in Ids, e \in live PROVE componentsPresent'[e] = componentsPresent[e]
    <3>1. EXISTENCE \in componentsPresent[e]
      <4>1. \A i \in 1 .. Len(stack) : stack[i].op = "add" => stack[i].c # EXISTENCE
        BY FrameFacts, CompsAssumption DEF IInv, Typed, LoopFrame, loops
      <4> QED
        BY <2>3, <2>6, <4>1 DEF IInv, Stored, BeingAdded, Adds, live
    <3> QED
      BY <2>1, <2>2, <2>6, <3>1 DEF IInv, Typed
  <2>7. Good(stack)'
    <3>1. \A i \in 1 .. Len(stack) : stack[i].op # "clear"
      BY <1>1 DEF IInv, Typed, onStack
    <3>2. \A i \in 1 .. Len(stack) :
             stack[i].op \in calls => stack[i].entity \in live /\ stack[i].entity \in Ids
      BY FrameFacts DEF IInv, Typed, Good, AllFresh, Fresh, LoopFrame, ClearingFrame, calls, loops,
                        clearings
    <3>3. ASSUME NEW j \in 1 .. Len(stack), NEW l \in Listeners, Spares(stack[j], l)
          PROVE  Spares(stack[j], l)'
      BY <1>1, <2>6, <3>1, <3>2, <3>3 DEF Spares, calls, clearings, matches
    <3>4. Good(stack')
      BY <1>1 DEF IInv
    <3> QED
      BY <1>1, <2>3, <3>1, <3>2, <3>3, ChangeGood DEF IInv, Typed
  <2> QED
    BY <2>4, <2>5, <2>7 DEF IInv
<1> QED
  BY <1>3, <1>4

\* The registries of a System that ask about a component type: all of them,
\* once each.
LEMMA InterestedListeners ==
    ASSUME NEW s \in Systems, NEW c
    PROVE  LET q == interested(s, c)
           IN  /\ q \in Seq(Listeners)
               /\ \A i \in DOMAIN q : c \in Likeness[q[i]]
               /\ \A i \in DOMAIN q : \E k \in DOMAIN Registries[s] : q[i] = Registries[s][k]
               /\ \A k \in DOMAIN Registries[s] :
                     c \in Likeness[Registries[s][k]] => \E i \in DOMAIN q : q[i] = Registries[s][k]
               /\ \A i, j \in DOMAIN q : q[i] = q[j] => i = j
<1> DEFINE R == Registries[s]
           n == Len(R)
           step == [k \in 1 .. n |-> [q \in Seq(Listeners) |->
                       IF c \in Likeness[R[k]] THEN Append(q, R[k]) ELSE q]]
           among[k \in 0 .. n] ==
               IF k = 0 THEN << >>
               ELSE IF c \in Likeness[R[k]] THEN Append(among[k - 1], R[k]) ELSE among[k - 1]
<1>1. /\ R \in Seq(Listeners) /\ n \in Nat /\ DOMAIN R = 1 .. n
      /\ \A i, j \in 1 .. n : R[i] = R[j] => i = j
  BY ReentrantAssumption
<1>2. interested(s, c) = among[n]
  BY DEF interested
<1>3. step \in [1 .. n -> [Seq(Listeners) -> Seq(Listeners)]]
  BY <1>1
<1> HIDE DEF R, n
<1>4. \A k \in 0 .. n :
         among[k] = IF k = 0 THEN << >>
                    ELSE IF c \in Likeness[R[k]] THEN Append(among[k - 1], R[k]) ELSE among[k - 1]
  <2>1. PICK f \in [0 .. n -> Seq(Listeners)] : Recursion(f, n, << >>, step)
    <3>1. << >> \in Seq(Listeners) /\ n \in Nat
      BY <1>1
    <3> HIDE DEF step
    <3> QED
      BY <1>3, <3>1, RecursionExists
  <2>2. f = [k \in 0 .. n |->
               IF k = 0 THEN << >>
               ELSE IF c \in Likeness[R[k]] THEN Append(f[k - 1], R[k]) ELSE f[k - 1]]
    <3>1. ASSUME NEW k \in 0 .. n
          PROVE  f[k] = IF k = 0 THEN << >>
                        ELSE IF c \in Likeness[R[k]] THEN Append(f[k - 1], R[k]) ELSE f[k - 1]
      <4>1. f[k] = IF k = 0 THEN << >> ELSE step[k][f[k - 1]]
        BY <2>1 DEF Recursion
      <4>2. CASE k = 0
        BY <4>1, <4>2
      <4>3. CASE k # 0
        <5>1. k \in 1 .. n /\ f[k - 1] \in Seq(Listeners)
          BY <1>1, <4>3, <2>1
        <5> QED
          BY <4>1, <4>3, <5>1
      <4> QED
        BY <4>2, <4>3
    <3> QED
      BY <3>1
  <2>3. among = [k \in 0 .. n |->
               IF k = 0 THEN << >>
               ELSE IF c \in Likeness[R[k]] THEN Append(among[k - 1], R[k]) ELSE among[k - 1]]
    BY <2>2 DEF among
  <2> HIDE DEF among
  <2> QED
    BY <2>3
<1> HIDE DEF among
<1> DEFINE Right(q, m) == /\ q \in Seq(Listeners)
                          /\ \A i \in 1 .. Len(q) : c \in Likeness[q[i]]
                          /\ \A i \in 1 .. Len(q) : \E k \in 1 .. m : q[i] = R[k]
                          /\ \A k \in 1 .. m : c \in Likeness[R[k]] => \E i \in 1 .. Len(q) : q[i] = R[k]
                          /\ \A i, j \in 1 .. Len(q) : q[i] = q[j] => i = j
           P == {m \in Nat : m <= n => Right(among[m], m)}
<1>5. 0 \in P
  <2>1. 0 \in 0 .. n
    BY <1>1
  <2>2. among[0] = << >>
    BY <1>4, <2>1
  <2>3. Right(<< >>, 0)
    OBVIOUS
  <2> HIDE DEF Right
  <2> QED
    BY <2>2, <2>3
<1>6. ASSUME NEW m \in Nat, m \in P PROVE m + 1 \in P
  <2> SUFFICES ASSUME m + 1 <= n PROVE Right(among[m + 1], m + 1)
    OBVIOUS
  <2>a. m <= n /\ m + 1 \in 1 .. n /\ R[m + 1] \in Listeners
    BY <1>1
  <2>b. Right(among[m], m)
    <3> HIDE DEF Right
    <3> QED
      BY <1>6, <2>a
  <2>1. Right(among[m], m) /\ m + 1 \in 1 .. n /\ R[m + 1] \in Listeners
    BY <2>a, <2>b
  <2>2. among[m + 1] = IF c \in Likeness[R[m + 1]] THEN Append(among[m], R[m + 1]) ELSE among[m]
    <3>1. m + 1 \in 0 .. n /\ m + 1 # 0 /\ m + 1 - 1 = m
      BY <1>1, <2>1
    <3> QED
      BY <1>4, <3>1
  <2>3. CASE c \in Likeness[R[m + 1]]
    <3> DEFINE q == among[m]
               r == Append(q, R[m + 1])
    <3>1. /\ r \in Seq(Listeners) /\ Len(r) = Len(q) + 1 /\ Len(q) \in Nat
          /\ \A i \in 1 .. Len(q) : r[i] = q[i]
          /\ r[Len(q) + 1] = R[m + 1]
      BY <2>1
    <3>2. \A i \in 1 .. Len(q) : q[i] # R[m + 1]
      <4>1. \A k \in 1 .. m : k \in 1 .. n /\ R[k] # R[m + 1]
        BY <1>1, <2>1
      <4> QED
        BY <2>1, <4>1
    <3>3. \A i \in 1 .. Len(q) + 1 : i \in 1 .. Len(q) \/ i = Len(q) + 1
      BY <3>1
    <3>4. r = among[m + 1]
      BY <2>2, <2>3
    <3> HIDE DEF r
    <3>5. \A i \in 1 .. Len(r) : c \in Likeness[r[i]]
      BY <2>1, <2>3, <3>1, <3>3
    <3>6. \A i \in 1 .. Len(r) : \E k \in 1 .. m + 1 : r[i] = R[k]
      <4>1. m + 1 \in 1 .. m + 1 /\ \A k \in 1 .. m : k \in 1 .. m + 1
        OBVIOUS
      <4> QED
        BY <2>1, <3>1, <3>3, <4>1
    <3>7. \A i, j \in 1 .. Len(r) : r[i] = r[j] => i = j
      BY <2>1, <3>1, <3>2, <3>3
    <3>8. \A k \in 1 .. m + 1 : c \in Likeness[R[k]] => \E i \in 1 .. Len(r) : r[i] = R[k]
      <4>1. \A k \in 1 .. m + 1 : k \in 1 .. m \/ k = m + 1
        OBVIOUS
      <4>2. Len(q) + 1 \in 1 .. Len(r) /\ \A i \in 1 .. Len(q) : i \in 1 .. Len(r)
        BY <3>1
      <4> QED
        BY <2>1, <3>1, <4>1, <4>2
    <3> QED
      BY <3>1, <3>4, <3>5, <3>6, <3>7, <3>8
  <2>4. CASE c \notin Likeness[R[m + 1]]
    <3>1. \A k \in 1 .. m : k \in 1 .. m + 1
      OBVIOUS
    <3>2. \A k \in 1 .. m + 1 : k \in 1 .. m \/ k = m + 1
      OBVIOUS
    <3> QED
      BY <2>1, <2>2, <2>4, <3>1, <3>2
  <2> QED
    BY <2>3, <2>4
<1> HIDE DEF P
<1>7. \A m \in Nat : m \in P => m + 1 \in P
  BY <1>6
<1>8. \A m \in Nat : m \in P
  BY <1>5, <1>7, SetInduction
<1> HIDE DEF Right
<1>9. Right(among[n], n)
  BY <1>1, <1>8 DEF P
<1> DEFINE t == among[n]
<1>10. Right(t, n)
  BY <1>9
<1> HIDE DEF t
<1>11. /\ t \in Seq(Listeners) /\ DOMAIN t = 1 .. Len(t)
       /\ \A i \in 1 .. Len(t) : c \in Likeness[t[i]]
       /\ \A i \in 1 .. Len(t) : \E k \in 1 .. n : t[i] = R[k]
       /\ \A k \in 1 .. n : c \in Likeness[R[k]] => \E i \in 1 .. Len(t) : t[i] = R[k]
       /\ \A i, j \in 1 .. Len(t) : t[i] = t[j] => i = j
  BY <1>10 DEF Right
<1>12. interested(s, c) = t
  BY <1>2 DEF t
<1> QED
  <2>1. interested(s, c) \in Seq(Listeners)
    BY <1>11, <1>12
  <2> QED
    BY <1>1, <1>11, <1>12, <2>1 DEF R

\* No System is constructed while a call or a handler is running.
LEMMA ListenKeeps ==
    ASSUME IInv, Disciplined, NEW s \in Systems, listenForLikeEntities(s)
    PROVE  IInv'
<1>1. /\ stack = << >> /\ constructed' = constructed \union {s}
      /\ callbacks' = [c \in Comps |-> callbacks[c] \o interested(s, c)]
      /\ UNCHANGED << stateVars, ids >>
  BY DEF listenForLikeEntities, onlyAtTop, Disciplined
<1>2. stack' = << >>
  <2>1. \A f : DOMAIN stack = {} => f = f
    OBVIOUS
  <2>2. DOMAIN stack' = {} /\ stack' = [i \in {} |-> stack'[i]]
    BY <1>1 DEF listenForLikeEntities, spoil
  <2> QED
    BY <2>2
<1>3. callbacks' \in [Comps -> Seq(Listeners)]
  <2>1. ASSUME NEW c \in Comps PROVE callbacks[c] \o interested(s, c) \in Seq(Listeners)
    BY InterestedListeners DEF IInv, Typed
  <2> QED
    BY <1>1, <2>1
<1>4. Typed'
  BY <1>1, <1>2, <1>3 DEF IInv, Typed, stateVars, idVars
<1>5. Good(stack)'
  BY <1>2 DEF Good, AllFresh, Shape, Apart, PinsSpared
<1>6. Stored(stack)'
  BY <1>1, <1>2 DEF IInv, Stored, BeingAdded, stateVars
<1> QED
  BY <1>4, <1>5, <1>6 DEF IInv

--------------------------------------------------------------------------
(* What the innermost frame does next *)

\* The top of the stack and the rest.
LEMMA TopFacts ==
    ASSUME IInv, stack # << >>
    PROVE  /\ stack \in Seq(Frame)
           /\ Len(stack) \in Nat \ {0}
           /\ top = stack[Len(stack)] /\ top \in Frame /\ Last(stack) = top
           /\ returned = Front(stack)
           /\ Fresh(top)
<1>1. stack \in Seq(Frame)
  BY DEF IInv, Typed
<1>2. Len(stack) \in Nat \ {0} /\ top = stack[Len(stack)] /\ top \in Frame
  BY <1>1, LastAndFront DEF top
<1>3. Len(stack) \in 1 .. Len(stack)
  BY <1>2
<1> QED
  BY <1>1, <1>2, <1>3 DEF IInv, Good, AllFresh, returned, top

\* A step that puts a frame on the stack and moves the one below it on.
LEMMA DescendGood ==
    ASSUME IInv, stack # << >>,
           NEW g \in Frame, Advanced(g, top), Fresh(g),
           NEW f \in Frame, Fresh(f), Below(g, f),
           f.op # "add", f.op # "clear",
           f.op \in calls =>
              \A i \in 1 .. Len(stack) : stack[i].op \in calls /\ stack[i].entity = f.entity
                    => i = Len(stack) /\ stack[i].op \in clearings /\ f.op = "rem",
           \A i \in 1 .. Len(stack) : \A l \in Listeners :
              placedIn(stack[i], l) => Spares(f, l) /\ (f.op \in handlers => f.l # l),
           \A l \in Listeners : placedIn(f, l) => Spares(f, l),
           stack' = Append([stack EXCEPT ![Len(stack)] = g], f),
           UNCHANGED << stateVars, systemVars >>
    PROVE  IInv'
<1> DEFINE n == Len(stack)
           s == [stack EXCEPT ![n] = g]
<1>1. stack \in Seq(Frame) /\ n \in Nat \ {0} /\ top = stack[n] /\ Last(stack) = top
  BY TopFacts
<1>n. n \in 1 .. Len(stack)
  BY <1>1
<1>2. /\ s \in Seq(Frame) /\ Len(s) = n
      /\ \A i \in 1 .. n : s[i] = IF i = n THEN g ELSE stack[i]
  BY <1>1, <1>n, PlacedAt
<1>3. Good(s)
  BY <1>1, AdvancedGood DEF IInv
<1>4. \A id \in Ids, c \in AllComps : BeingAdded(s, id, c) <=> BeingAdded(stack, id, c)
  BY <1>1, AddedAdvanced
<1> HIDE DEF s, n
<1>5. s # << >> /\ Last(s) = g
  BY <1>1, <1>2 DEF Last
<1>6. /\ g.op = top.op /\ g.ref = top.ref
      /\ top.op \in calls => g.entity = top.entity
      /\ top.op = "forget" => g.l = top.l
  BY DEF Advanced, calls, handlers
<1>7. ASSUME NEW i \in 1 .. n
      PROVE  /\ s[i].op = stack[i].op
             /\ stack[i].op \in calls => s[i].entity = stack[i].entity
             /\ \A l \in Listeners : placedIn(s[i], l) => placedIn(stack[i], l)
  BY <1>1, <1>2, <1>6, <1>7 DEF placedIn
<1>8. Good(Append(s, f))
  <2>1. ASSUME NEW i \in 1 .. Len(s)
        PROVE  /\ ApartFrom(s[i], f)
               /\ s[i].op \in calls /\ f.op \in calls /\ s[i].entity = f.entity => i = Len(s)
    BY <1>2, <1>7, <2>1 DEF ApartFrom, n
  <2>2. \A i \in 1 .. Len(s) : \A l \in Listeners :
              placedIn(s[i], l) => Spares(f, l) /\ (f.op \in handlers => f.l # l)
    BY <1>2, <1>7 DEF n
  <2> QED
    BY <1>2, <1>3, <1>5, <2>1, <2>2, PushGood
<1>9. stack' = Append(s, f)
  BY DEF s, n
<1>10. stack' \in Seq(Frame)
  <2>1. f \in Frame
    OBVIOUS
  <2>2. Append(s, f) \in Seq(Frame)
    BY <1>2, <2>1, AppendAt
  <2> QED
    BY <1>9, <2>2
<1>11. \A id \in Ids, c \in AllComps : BeingAdded(stack', id, c) <=> BeingAdded(stack, id, c)
  BY <1>2, <1>4, <1>9, AddedAppend DEF Adds
<1> QED
  BY <1>8, <1>9, <1>10, <1>11, StackStep

\* A frame that is only moved on has the type it had.
LEMMA MovedFrame ==
    ASSUME NEW f \in Frame, f.op \in loops \union clearings, NEW p \in Nat
    PROVE  LET g == [f EXCEPT !.pos = p]
           IN  /\ g \in Frame /\ Advanced(g, f)
               /\ g.pos = p /\ g.stale = f.stale /\ g.id = f.id
               /\ f.op \in loops => g.last = f.last
<1>1. CASE f.op \in loops
  <2>1. f \in LoopFrame
    BY <1>1, FrameFacts
  <2> QED
    BY <1>1, <2>1 DEF Frame, LoopFrame, Advanced, loops, handlers
<1>2. CASE f.op \in clearings
  <2>1. f \in ClearingFrame
    BY <1>2, FrameFacts
  <2> QED
    BY <1>2, <2>1 DEF Frame, ClearingFrame, Advanced, loops, clearings, handlers
<1> QED
  BY <1>1, <1>2

\* The next delegate a loop has to fire.
LEMMA NextToFire ==
    ASSUME IInv, stack # << >>, top.op \in loops, toFire(top) # {}
    PROVE  LET k == Min(toFire(top))
               l == callbacks[top.c][k]
           IN  /\ k \in top.pos .. top.last
               /\ k \in Nat \ {0} /\ k + 1 \in 1 .. top.last + 1
               /\ k \in DOMAIN callbacks[top.c]
               /\ l \in Listeners
               /\ top.op = "add" =>
                    shouldFireAdditionDlgt(Likeness[l], componentsPresent[top.entity], top.c)
               /\ top.op = "rem" =>
                    /\ shouldFireRemovalDlgt(Likeness[l], componentsPresent[top.entity], top.c)
                    /\ Contains(ids[l], top.id)
<1> DEFINE k == Min(toFire(top))
<1>1. top \in Frame /\ Fresh(top) /\ top \in LoopFrame
  BY TopFacts, FrameFacts
<1>2. /\ top.c \in Comps /\ top.last = Len(callbacks[top.c]) /\ top.pos \in 1 .. top.last + 1
      /\ callbacks[top.c] \in Seq(Listeners) /\ top.last \in Nat
  BY <1>1 DEF Fresh, LoopFrame, IInv, Typed
<1>3. toFire(top) \in SUBSET Nat
  BY <1>2 DEF toFire
<1>4. k \in toFire(top)
  BY <1>3, MinLeast
<1> HIDE DEF k
<1>5. k \in top.pos .. top.last
  BY <1>4 DEF toFire
<1>6. k \in Nat \ {0} /\ k + 1 \in 1 .. top.last + 1 /\ k \in 1 .. Len(callbacks[top.c])
  BY <1>2, <1>5
<1>7. callbacks[top.c][k] \in Listeners /\ k \in DOMAIN callbacks[top.c]
  BY <1>2, <1>6
<1>8. /\ top.op = "add" =>
           shouldFireAdditionDlgt(Likeness[callbacks[top.c][k]], componentsPresent[top.entity], top.c)
      /\ top.op = "rem" =>
           /\ shouldFireRemovalDlgt(Likeness[callbacks[top.c][k]], componentsPresent[top.entity], top.c)
           /\ Contains(ids[callbacks[top.c][k]], top.id)
  BY <1>4 DEF toFire
<1> QED
  BY <1>5, <1>6, <1>7, <1>8 DEF k

\* The loop over callbacks calls a handler.
LEMMA FireKeeps ==
    ASSUME IInv, Disciplined, fire
    PROVE  IInv'
<1> DEFINE k == Min(toFire(top))
           l == callbacks[top.c][k]
           g == [top EXCEPT !.pos = k + 1]
           f == handler(top, l)
<1>1. stack # << >> /\ top.op \in loops /\ toFire(top) # {}
  BY DEF fire, resumes, loops
<1>2. /\ stack \in Seq(Frame) /\ Len(stack) \in Nat \ {0} /\ top = stack[Len(stack)]
      /\ top \in Frame /\ Fresh(top) /\ top \in LoopFrame
  BY <1>1, TopFacts, FrameFacts
<1>3. /\ k \in Nat \ {0} /\ k + 1 \in 1 .. top.last + 1 /\ l \in Listeners
      /\ top.op = "add" =>
           shouldFireAdditionDlgt(Likeness[l], componentsPresent[top.entity], top.c)
      /\ top.op = "rem" =>
           /\ shouldFireRemovalDlgt(Likeness[l], componentsPresent[top.entity], top.c)
           /\ Contains(ids[l], top.id)
  BY <1>1, NextToFire
<1>4. /\ stack' = Append([stack EXCEPT ![Len(stack)] = g], f)
      /\ UNCHANGED << stateVars, systemVars >>
  BY <1>1, <1>2 DEF fire, moved
<1> HIDE DEF k, l
<1>5. /\ g \in Frame /\ Advanced(g, top)
      /\ g.pos = k + 1 /\ g.stale = top.stale /\ g.id = top.id /\ g.last = top.last
  BY <1>1, <1>2, <1>3, MovedFrame
<1>6. Fresh(g)
  BY <1>1, <1>2, <1>3, <1>5 DEF Fresh, Advanced, loops, clearings, calls
<1>7. /\ top.id \in Ids /\ top.entity = top.id /\ top.ref \in Refs /\ ids[l] \in Seq(Ids)
  BY <1>1, <1>2, <1>3 DEF Fresh, LoopFrame, IInv, Typed, loops
<1>8. position(l, top.id) \in Nat
  BY <1>7, PositionFound
<1>9. f = [op |-> IF top.op = "add" THEN "discover" ELSE "forget",
           id |-> top.id, ref |-> top.ref, entity |-> top.id, stale |-> FALSE,
           l |-> l, at |-> position(l, top.id)]
  BY <1>7 DEF handler
<1> HIDE DEF g, f
<1>10. f \in Frame
  BY <1>3, <1>7, <1>8, <1>9, NewHandler DEF handlers
<1>11. f.op \in handlers /\ f.l = l /\ f.ref = top.ref /\ f.entity = top.entity
  BY <1>7, <1>9 DEF handlers
<1>12. Fresh(f)
  <2>1. f.op = "forget" => position(l, top.id) \in DOMAIN ids[l] /\ ids[l][position(l, top.id)] = top.id
    BY <1>1, <1>3, <1>7, <1>9, PositionFound DEF loops
  <2> QED
    BY <1>9, <1>11, <2>1 DEF Fresh, handlers, loops, clearings, calls
<1>13. Below(g, f)
  BY <1>1, <1>3, <1>5, <1>9, <1>11 DEF Below, Advanced, loops, clearings, handlers, l
<1>14. f.op # "add" /\ f.op # "clear" /\ f.op \notin calls /\ \A m \in Listeners : Spares(f, m)
  BY <1>11 DEF handlers, calls, Spares, clearings
<1>15. ASSUME NEW i \in 1 .. Len(stack), NEW m \in Listeners, placedIn(stack[i], m)
       PROVE  f.l # m
  <2>1. Len(stack) \in 1 .. Len(stack) /\ i \in 1 .. Len(stack)
    BY <1>2
  <2>2. Spares(top, m)
    BY <1>2, <1>15, <2>1 DEF IInv, Good, PinsSpared
  <2> QED
    BY <1>1, <1>3, <1>11, <2>2 DEF Spares, loops
<1> QED
  BY <1>1, <1>4, <1>5, <1>6, <1>10, <1>12, <1>13, <1>14, <1>15, DescendGood

\* While a call is waiting for the frame above it, only the removal that a
\* clearing call waits for is about the same entity.
LEMMA AboutTop ==
    ASSUME IInv, stack # << >>, NEW i \in 1 .. Len(stack) - 1,
           stack[i].op \in calls, top.op \in calls, stack[i].entity = top.entity
    PROVE  i = Len(stack) - 1 /\ stack[i].op \in clearings /\ top.op = "rem"
<1>1. Len(stack) \in Nat \ {0} /\ top = stack[Len(stack)]
  BY TopFacts
<1>2. Len(stack) \in 1 .. Len(stack) /\ i \in 1 .. Len(stack) - 1
  BY <1>1
<1>3. /\ ApartFrom(stack[i], stack[Len(stack)])
      /\ stack[i].op \in calls /\ stack[Len(stack)].op \in calls
            /\ stack[i].entity = stack[Len(stack)].entity => Len(stack) = i + 1
  BY <1>2 DEF IInv, Good, Apart
<1> QED
  BY <1>1, <1>2, <1>3 DEF ApartFrom

\* The top frame spares every registry in which a frame below has a place.
LEMMA TopSpares ==
    ASSUME IInv, stack # << >>, NEW i \in 1 .. Len(stack), NEW l \in Listeners,
           placedIn(stack[i], l)
    PROVE  Spares(top, l) /\ (i < Len(stack) /\ top.op \in handlers => top.l # l)
<1>1. Len(stack) \in Nat \ {0} /\ top = stack[Len(stack)]
  BY TopFacts
<1>2. Len(stack) \in 1 .. Len(stack) /\ i \in 1 .. Len(stack)
  BY <1>1
<1> QED
  BY <1>1, <1>2 DEF IInv, Good, PinsSpared

\* A clearing loop removes the next component.
LEMMA ClearLoopBodyKeeps ==
    ASSUME IInv, Disciplined, clearLoopBody
    PROVE  IInv'
<1> DEFINE c == CompOrder[top.pos]
           g == [top EXCEPT !.pos = top.pos + 1]
           f == notifying(top, "rem", c)
<1>1. stack # << >> /\ top.op \in clearings /\ top.pos <= Len(CompOrder)
  BY DEF clearLoopBody, resumes, clearings
<1>2. /\ stack \in Seq(Frame) /\ Len(stack) \in Nat \ {0} /\ top = stack[Len(stack)]
      /\ top \in Frame /\ Fresh(top) /\ top \in ClearingFrame
  BY <1>1, TopFacts, FrameFacts
<1>3. /\ stack' = Append([stack EXCEPT ![Len(stack)] = g], f)
      /\ UNCHANGED << stateVars, systemVars >>
  BY <1>1, <1>2 DEF clearLoopBody, moved
<1>4. /\ Len(CompOrder) \in Nat
      /\ top.pos \in 1 .. Len(CompOrder) /\ top.pos + 1 \in 1 .. Len(CompOrder) + 1
      /\ c \in Comps /\ callbacks[c] \in Seq(Listeners) /\ Len(callbacks[c]) \in Nat
  <2>1. Len(CompOrder) \in Nat /\ CompOrder \in Seq(Comps)
    BY CompsAssumption
  <2>2. top.pos \in 1 .. Len(CompOrder)
    BY <1>1, <1>2, <2>1 DEF Fresh, ClearingFrame
  <2>3. c \in Comps
    BY <2>1, <2>2
  <2> QED
    BY <2>1, <2>2, <2>3 DEF IInv, Typed
<1> HIDE DEF c
<1>5. /\ g \in Frame /\ Advanced(g, top)
      /\ g.pos = top.pos + 1 /\ g.stale = top.stale /\ g.id = top.id
  BY <1>1, <1>2, <1>4, MovedFrame
<1>6. Fresh(g)
  BY <1>1, <1>2, <1>4, <1>5 DEF Fresh, Advanced, loops, clearings, calls
<1>7. top.id \in Ids /\ top.entity = top.id /\ top.ref \in Refs /\ top.entity \in live
  BY <1>1, <1>2 DEF Fresh, ClearingFrame, clearings, calls
<1>8. f = [op |-> "rem", id |-> top.id, ref |-> top.ref, entity |-> top.id, stale |-> FALSE,
           c |-> c, pos |-> 1, last |-> Len(callbacks[c])]
  BY <1>7 DEF notifying
<1> HIDE DEF g, f
<1>9. f \in Frame
  BY <1>4, <1>7, <1>8, NewLoop DEF loops
<1>10. f.op = "rem" /\ f.ref = top.ref /\ f.entity = top.entity /\ f.c = c
  BY <1>7, <1>8
<1>11. Fresh(f)
  BY <1>4, <1>7, <1>8 DEF Fresh, loops, clearings, calls
<1>12. Below(g, f)
  <2>1. g.pos >= 2 /\ CompOrder[g.pos - 1] = c
    BY <1>4, <1>5 DEF c
  <2> QED
    BY <1>1, <1>5, <1>10, <2>1 DEF Below, Advanced, loops, clearings, handlers
<1>13. ASSUME NEW l \in Listeners, Spares(top, l) PROVE Spares(f, l)
  BY <1>1, <1>10, <1>13 DEF Spares, clearings, matches, shouldFireRemovalDlgt
<1>14. ASSUME NEW i \in 1 .. Len(stack), stack[i].op \in calls, stack[i].entity = f.entity
       PROVE  i = Len(stack) /\ stack[i].op \in clearings
  <2>1. CASE i = Len(stack)
    BY <1>1, <1>2, <2>1
  <2>2. CASE i # Len(stack)
    <3>1. i \in 1 .. Len(stack) - 1 /\ top.op # "rem" /\ top.op \in calls
      BY <1>1, <1>2, <2>2 DEF clearings, calls
    <3> QED
      BY <1>1, <1>10, <1>14, <3>1, AboutTop
  <2> QED
    BY <2>1, <2>2
<1>15. ASSUME NEW i \in 1 .. Len(stack), NEW l \in Listeners, placedIn(stack[i], l)
       PROVE  Spares(f, l)
  BY <1>1, <1>13, <1>15, TopSpares
<1>16. ASSUME NEW l \in Listeners, placedIn(f, l) PROVE Spares(f, l)
  <2>1. Len(stack) \in 1 .. Len(stack) /\ placedIn(stack[Len(stack)], l)
    BY <1>2, <1>10, <1>16 DEF placedIn
  <2> QED
    BY <1>15, <2>1
<1>17. f.op # "add" /\ f.op # "clear" /\ f.op \notin handlers
  BY <1>10 DEF handlers
<1> QED
  BY <1>1, <1>3, <1>5, <1>6, <1>9, <1>10, <1>11, <1>12, <1>14, <1>15, <1>16, <1>17, DescendGood

\* clear deletes the next entity it has collected.
LEMMA ClearNextKeeps ==
    ASSUME IInv, Disciplined, clearNext
    PROVE  IInv'
<1>1. stack # << >> /\ top.op = "clear"
  BY DEF clearNext, resumes
<1>2. /\ stack \in Seq(Frame) /\ Len(stack) \in Nat \ {0} /\ top = stack[Len(stack)]
      /\ top \in Frame /\ Fresh(top) /\ top \in ClearFrame /\ Last(stack) = top
  BY <1>1, TopFacts, FrameFacts
<1>3. PICK id \in top.doomed :
        stack' = LET rest == [stack EXCEPT ![Len(stack)].doomed = @ \ {id}]
                 IN  IF count(live, id)
                     THEN Append(rest, clearing("deleteEntity", byValue(id))) ELSE rest
  BY <1>1 DEF clearNext
<1> DEFINE g == [top EXCEPT !.doomed = top.doomed \ {id}]
           f == clearing("deleteEntity", byValue(id))
<1>4. UNCHANGED << stateVars, systemVars >>
  BY DEF clearNext
<1>5. [stack EXCEPT ![Len(stack)].doomed = @ \ {id}] = [stack EXCEPT ![Len(stack)] = g]
  BY <1>2
<1>6. id \in Ids /\ g \in Frame /\ Advanced(g, top) /\ ~g.stale /\ g.op = "clear" /\ g.ref = << >>
  <2>1. id \in Ids /\ g \in ClearFrame
    BY <1>2 DEF ClearFrame
  <2>2. g.op = "clear" /\ g.ref = << >> /\ g.stale = top.stale /\ g.doomed \subseteq top.doomed
    BY <1>2 DEF ClearFrame
  <2> QED
    BY <1>1, <1>2, <2>1, <2>2 DEF Frame, ClearFrame, Advanced, Fresh, loops, handlers
<1>7. Fresh(g)
  BY <1>6 DEF Fresh, loops, clearings, calls
<1>8. CASE ~count(live, id)
  <2>1. stack' = [stack EXCEPT ![Len(stack)] = g]
    BY <1>3, <1>5, <1>8
  <2>2. Good(stack')
    BY <1>1, <1>2, <1>6, <1>7, <2>1, AdvancedGood DEF IInv
  <2>3. stack' \in Seq(Frame)
    <3>1. Len(stack) \in 1 .. Len(stack)
      BY <1>2
    <3> QED
      BY <1>2, <1>6, <2>1, <3>1, PlacedAt
  <2>4. \A e \in Ids, c \in AllComps : BeingAdded(stack', e, c) <=> BeingAdded(stack, e, c)
    <3> HIDE DEF g
    <3> QED
      BY <1>1, <1>2, <1>6, <2>1, AddedAdvanced
  <2> QED
    BY <1>4, <2>2, <2>3, <2>4, StackStep
<1>9. CASE count(live, id)
  <2>1. stack' = Append([stack EXCEPT ![Len(stack)] = g], f)
    BY <1>3, <1>5, <1>9
  <2>2. f = [op |-> "deleteEntity", id |-> id, ref |-> << >>, entity |-> id, stale |-> FALSE,
             pos |-> 1, was |-> componentsPresent[id]]
    BY DEF clearing, byValue
  <2> HIDE DEF g, f
  <2>3. f \in Frame
    BY <1>6, <2>2, NewClearing DEF IInv, Typed, Refs, clearings
  <2>4. f.op = "deleteEntity" /\ f.ref = << >> /\ f.entity = id
    BY <2>2
  <2>5. Fresh(f)
    <3>1. Len(CompOrder) \in Nat
      BY CompsAssumption
    <3> QED
      BY <1>9, <2>2, <3>1 DEF Fresh, loops, clearings, calls, count
  <2>6. Below(g, f)
    BY <1>6, <2>4 DEF Below, loops, clearings, handlers
  <2>7. ASSUME NEW i \in 1 .. Len(stack), stack[i].op \in calls, stack[i].entity = f.entity
        PROVE  FALSE
    <3>1. CASE i = Len(stack)
      BY <1>1, <1>2, <2>7, <3>1 DEF calls
    <3>2. CASE i # Len(stack)
      <4>1. Len(stack) \in 1 .. Len(stack) /\ i \in 1 .. Len(stack) - 1
        BY <1>2, <3>2
      <4>2. ApartFrom(stack[i], top)
        BY <1>2, <4>1 DEF IInv, Good, Apart
      <4> QED
        BY <1>1, <1>3, <1>9, <2>4, <2>7, <4>2 DEF ApartFrom, count
    <3> QED
      BY <3>1, <3>2
  <2>8. ASSUME NEW i \in 1 .. Len(stack), NEW l \in Listeners, placedIn(stack[i], l)
        PROVE  Spares(f, l)
    <3>1. Spares(top, l)
      BY <1>1, <2>8, TopSpares
    <3>2. ~matches(l, id)
      BY <1>1, <1>3, <1>9, <3>1 DEF Spares, count
    <3> QED
      BY <2>4, <3>2 DEF Spares
  <2>9. \A l \in Listeners : ~placedIn(f, l)
    BY <2>4 DEF placedIn
  <2>10. f.op # "add" /\ f.op # "clear" /\ f.op \notin handlers
    BY <2>4 DEF handlers
  <2> QED
    BY <1>1, <1>4, <1>6, <1>7, <2>1, <2>3, <2>5, <2>6, <2>7, <2>8, <2>9, <2>10, DescendGood
<1> QED
  BY <1>8, <1>9

\* What returning leaves on the stack.
LEMMA ReturnedFacts ==
    ASSUME IInv, stack # << >>
    PROVE  /\ returned \in Seq(Frame) /\ Good(returned)
           /\ Len(returned) = Len(stack) - 1
           /\ \A i \in 1 .. Len(returned) : returned[i] = stack[i] /\ i \in 1 .. Len(stack) - 1
           /\ \A id, c : BeingAdded(stack, id, c) <=> BeingAdded(returned, id, c) \/ Adds(top, id, c)
<1>1. stack \in Seq(Frame) /\ returned = Front(stack) /\ Last(stack) = top
  BY TopFacts
<1>2. /\ returned \in Seq(Frame)
      /\ Len(returned) = Len(stack) - 1
      /\ \A i \in 1 .. Len(stack) - 1 : returned[i] = stack[i]
  BY <1>1, LastAndFront
<1>3. Good(returned)
  BY <1>1, FrontGood DEF IInv
<1>4. \A id, c : BeingAdded(stack, id, c) <=> BeingAdded(returned, id, c) \/ Adds(top, id, c)
  BY <1>1, AddedFront
<1> QED
  BY <1>2, <1>3, <1>4

\* clearEntity and clear have nothing left to do when they return.
LEMMA QuietReturnKeeps ==
    ASSUME IInv, clearEntityReturns \/ clearReturns
    PROVE  IInv'
<1>1. /\ stack # << >> /\ top.op # "add" /\ stack' = returned
      /\ UNCHANGED << stateVars, systemVars >>
  BY DEF clearEntityReturns, clearReturns, resumes
<1> QED
  BY <1>1, ReturnedFacts, StackStep DEF Adds

\* A registry changes only where no frame below has a place, so nothing that
\* is kept on the stack is read anew or lost.
LEMMA RegistryStep ==
    ASSUME IInv, stack # << >>, top.op \in handlers,
           NEW q \in Seq(Ids), ids' = [ids EXCEPT ![top.l] = q],
           UNCHANGED << stateVars, callbacks, constructed >>,
           stack' = returned
    PROVE  IInv'
<1>1. top \in HandlerFrame /\ top.l \in Listeners /\ Len(stack) \in Nat \ {0}
  BY TopFacts, FrameFacts DEF HandlerFrame
<1>2. /\ UNCHANGED << nextId, freedIds, comps, componentsPresent, live >>
      /\ UNCHANGED << callbacks, constructed >>
  BY DEF stateVars, idVars, live
<1>3. Typed'
  BY <1>1, <1>2, ReturnedFacts DEF IInv, Typed
<1>4. Good(stack)'
  <2>1. ASSUME NEW i \in 1 .. Len(stack'), stack'[i].op = "forget"
        PROVE  ids'[stack'[i].l] = ids[stack'[i].l]
    <3>1. stack'[i] = stack[i] /\ i \in 1 .. Len(stack) - 1 /\ stack'[i] \in Frame
      BY <2>1, ReturnedFacts
    <3>2. stack'[i].l \in Listeners
      BY <2>1, <3>1, FrameFacts DEF HandlerFrame, handlers
    <3>3. placedIn(stack[i], stack'[i].l)
      BY <2>1, <3>1 DEF placedIn
    <3>4. i \in 1 .. Len(stack) /\ i < Len(stack)
      BY <1>1, <3>1
    <3>5. stack'[i].l # top.l
      BY <3>2, <3>3, <3>4, TopSpares
    <3> QED
      BY <3>2, <3>5 DEF IInv, Typed
  <2>2. stack' \in Seq(Frame) /\ Good(stack')
    BY ReturnedFacts
  <2>3. \A i \in 1 .. Len(stack') : stack'[i].op \in calls => stack'[i].entity \in live'
    BY <1>2, <2>2 DEF Good, AllFresh, Fresh
  <2>4. \A f : \A l : Spares(f, l) => Spares(f, l)'
    BY <1>2 DEF Spares, matches
  <2> QED
    BY <1>2, <2>1, <2>2, <2>3, <2>4, ChangeGood
<1>5. Stored(stack)'
  <2>1. \A id, c : BeingAdded(stack, id, c) <=> BeingAdded(stack', id, c)
    BY ReturnedFacts DEF Adds, handlers
  <2> QED
    BY <1>2, <2>1 DEF IInv, Stored, BeingAdded
<1> QED
  BY <1>3, <1>4, <1>5 DEF IInv

\* No frame below has a place in the registry that changes.
LEMMA NotPlaced ==
    ASSUME IInv, stack # << >>, top.op \in handlers, NEW i \in 1 .. Len(returned)
    PROVE  ~placedIn(returned[i], top.l)
<1>1. top.l \in Listeners /\ Len(stack) \in Nat \ {0}
  BY TopFacts, FrameFacts DEF HandlerFrame
<1>2. returned[i] = stack[i] /\ i \in 1 .. Len(stack) - 1
  BY ReturnedFacts
<1>3. i \in 1 .. Len(stack) /\ i < Len(stack)
  BY <1>1, <1>2
<1> QED
  BY <1>1, <1>2, <1>3, TopSpares

\* No reference on the stack reads the registry that changes.
LEMMA NothingReread ==
    ASSUME IInv, stack # << >>, top.op \in handlers, NEW q
    PROVE  reread(returned, top.l, q) = returned
<1>1. returned \in Seq(Frame)
  BY ReturnedFacts
<1>2. ASSUME NEW i \in DOMAIN returned
      PROVE  ~(returned[i].ref # << >> /\ returned[i].ref[1] = top.l /\ returned[i].ref[2] \in DOMAIN q)
  BY <1>1, <1>2, NotPlaced DEF placedIn
<1>3. reread(returned, top.l, q) = [i \in DOMAIN returned |-> returned[i]]
  BY <1>2 DEF reread
<1> QED
  BY <1>1, <1>3

\* Marking frames that are not stale and not to be marked changes nothing.
LEMMA NotMarked ==
    ASSUME NEW f \in Frame, ~f.stale, NEW b, ~b
    PROVE  [f EXCEPT !.stale = f.stale \/ b] = f
<1>1. f.stale = FALSE
  BY FrameFacts DEF LoopFrame, ClearingFrame, HandlerFrame, ClearFrame
<1>2. (f.stale \/ b) = FALSE
  BY <1>1
<1>3. [f EXCEPT !.stale = FALSE] = f
  BY <1>1 DEF Frame, LoopFrame, ClearingFrame, HandlerFrame, ClearFrame
<1> QED
  BY <1>2, <1>3, Zenon

\* A vector that moves when it grows takes nothing with it.
LEMMA DiscoverSpoilsNothing ==
    ASSUME IInv, Disciplined, discoverReturns
    PROVE  stack' = returned
<1>1. stack # << >> /\ top.op \in handlers
  BY DEF discoverReturns, resumes, handlers
<1>2. PICK moves \in BOOLEAN :
        stack' = spoil(reread(returned, top.l, ids'[top.l]),
                       LAMBDA f : moves /\ placedIn(f, top.l))
  BY DEF discoverReturns
<1>3. stack' = spoil(returned, LAMBDA f : moves /\ placedIn(f, top.l))
  BY <1>1, <1>2, NothingReread
<1>4. returned \in Seq(Frame) /\ Good(returned)
  BY <1>1, ReturnedFacts
<1>5. ASSUME NEW i \in DOMAIN returned
      PROVE  [returned[i] EXCEPT !.stale = returned[i].stale \/ (moves /\ placedIn(returned[i], top.l))]
                 = returned[i]
  <2>1. i \in 1 .. Len(returned) /\ returned[i] \in Frame
    BY <1>4, <1>5
  <2>2. ~returned[i].stale /\ ~(moves /\ placedIn(returned[i], top.l))
    BY <1>1, <1>4, <2>1, NotPlaced DEF Good, AllFresh, Fresh
  <2> QED
    BY <2>1, <2>2, NotMarked
<1>6. stack' = [i \in DOMAIN returned |-> returned[i]]
  BY <1>3, <1>5, Zenon DEF spoil
<1> QED
  BY <1>4, <1>6

\* discover appends the id.
LEMMA DiscoverReturnsKeeps ==
    ASSUME IInv, Disciplined, discoverReturns
    PROVE  IInv'
<1>1. /\ stack # << >> /\ top.op = "discover"
      /\ ids' = [ids EXCEPT ![top.l] = Append(ids[top.l], top.id)]
      /\ UNCHANGED << stateVars, callbacks, constructed >>
  BY DEF discoverReturns, resumes
<1>2. top.op \in handlers /\ top \in HandlerFrame
  BY <1>1, TopFacts, FrameFacts DEF handlers
<1>3. Append(ids[top.l], top.id) \in Seq(Ids)
  BY <1>2 DEF IInv, Typed, HandlerFrame
<1> QED
  BY <1>1, <1>2, <1>3, DiscoverSpoilsNothing, RegistryStep

\* forget erases the id where it found it.
LEMMA ForgetReturnsKeeps ==
    ASSUME IInv, Disciplined, forgetReturns
    PROVE  IInv'
<1>1. /\ stack # << >> /\ top.op = "forget"
      /\ top.at \in DOMAIN ids[top.l]
      /\ ids' = [ids EXCEPT ![top.l] = RemoveAt(ids[top.l], top.at)]
      /\ stack' = reread(returned, top.l, ids'[top.l])
      /\ UNCHANGED << stateVars, callbacks, constructed >>
  BY DEF forgetReturns, resumes
<1>2. top.op \in handlers /\ top \in HandlerFrame
  BY <1>1, TopFacts, FrameFacts DEF handlers
<1>3. RemoveAt(ids[top.l], top.at) \in Seq(Ids)
  <2>1. ids[top.l] \in Seq(Ids)
    BY <1>2 DEF IInv, Typed, HandlerFrame
  <2> QED
    BY <1>1, <2>1, RemovedAt
<1>4. stack' = returned
  BY <1>1, <1>2, NothingReread
<1> QED
  BY <1>1, <1>2, <1>3, <1>4, RegistryStep

\* What a return leaves on the stack is good if what the frames there have
\* still to do spares the registries it spared.
LEMMA ReturnedStep ==
    ASSUME stack' \in Seq(Frame), Good(stack'), UNCHANGED << callbacks, ids >>,
           live' \subseteq live,
           \A i \in 1 .. Len(stack') : stack'[i].op \in calls => stack'[i].entity \in live',
           \A j \in 1 .. Len(stack') : \A i \in 1 .. j : \A l \in Listeners : \A f \in Frame :
              placedIn(stack'[i], l) /\ f = stack'[j] /\ Spares(f, l) => Spares(f, l)'
    PROVE  Good(stack)'
<1>1. \A s : s = stack' /\ Good(s) => Good(s)'
  <2> SUFFICES ASSUME NEW s, s = stack', Good(s) PROVE Good(s)'
    OBVIOUS
  <2>1. s \in Seq(Frame)
    OBVIOUS
  <2>2. /\ \A i \in 1 .. Len(s) : s[i].op \in calls => s[i].entity \in live'
        /\ \A j \in 1 .. Len(s) : \A i \in 1 .. j : \A l \in Listeners :
              placedIn(s[i], l) /\ Spares(s[j], l) => Spares(s[j], l)'
    OBVIOUS
  <2> QED
    BY <2>1, <2>2, ChangeGood
<1> QED
  BY <1>1

\* What a frame below has still to do spares the same registries after the
\* call at the top has changed the mask of its entity.
LEMMA ReturnedGood ==
    ASSUME IInv, stack # << >>, top.op \in calls, stack' = returned,
           UNCHANGED << callbacks, ids >>, live' \subseteq live,
           \A id \in live : id # top.entity => id \in live',
           top.op = "rem" => live' = live,
           \A id \in Ids : id # top.entity => componentsPresent'[id] = componentsPresent[id],
           \A l \in Listeners :
              Spares(top, l) /\ ~matches(l, top.entity) /\ top.entity \in live'
                  => ~(Likeness[l] \subseteq componentsPresent'[top.entity])
    PROVE  Good(stack)'
<1>1. stack' \in Seq(Frame) /\ Good(stack') /\ Len(stack) \in Nat \ {0}
  BY ReturnedFacts, TopFacts
<1>2. ASSUME NEW i \in 1 .. Len(stack')
      PROVE  /\ stack'[i] = stack[i] /\ i \in 1 .. Len(stack) - 1 /\ i \in 1 .. Len(stack)
             /\ stack'[i] \in Frame
             /\ stack'[i].op \in calls /\ stack'[i].entity = top.entity
                  => stack'[i].op \in clearings /\ top.op = "rem"
             /\ stack'[i].op \in calls => stack'[i].entity \in live /\ stack'[i].entity \in Ids
  <2>1. stack'[i] = stack[i] /\ i \in 1 .. Len(stack) - 1 /\ stack'[i] \in Frame
    BY <1>2, ReturnedFacts
  <2>2. i \in 1 .. Len(stack)
    BY <1>1, <2>1
  <2>3. stack'[i].op \in calls => stack'[i].entity \in live /\ stack'[i].entity \in Ids
    BY <1>1, <1>2, <2>1, FrameFacts
       DEF Good, AllFresh, Fresh, LoopFrame, ClearingFrame, calls, loops, clearings
  <2> QED
    BY <2>1, <2>2, <2>3, AboutTop
<1>3. ASSUME NEW j \in 1 .. Len(stack'), NEW i \in 1 .. j, NEW l \in Listeners,
             placedIn(stack'[i], l), NEW f \in Frame, f = stack'[j], Spares(f, l)
      PROVE  Spares(f, l)'
  <2>1. i \in 1 .. Len(stack')
    BY <1>1
  <2>2. Spares(top, l)
    BY <1>2, <1>3, <2>1, TopSpares
  <2>3. live \subseteq Ids
    BY DEF IInv, Typed, live, AllComps
  <2>4. ASSUME NEW id \in Ids, id \in live', ~matches(l, id)
        PROVE  ~(Likeness[l] \subseteq componentsPresent'[id])
    BY <2>2, <2>4 DEF matches
  <2>5. f.op \in loops => componentsPresent'[f.entity] = componentsPresent[f.entity]
    BY <1>2, <1>3 DEF loops, clearings, calls
  <2>6. f.op \in clearings => f.entity \in live' /\ f.entity \in Ids
    BY <1>2, <1>3 DEF clearings, calls
  <2>7. CASE f.op \in loops
    BY <1>3, <2>5, <2>7 DEF Spares, loops, clearings
  <2>8. CASE f.op \in clearings
    BY <1>3, <2>4, <2>6, <2>8 DEF Spares, loops, clearings, matches
  <2>9. CASE f.op = "clear"
    <3>1. ASSUME NEW id \in f.doomed \intersect live' PROVE ~(Likeness[l] \subseteq componentsPresent'[id])
      <4>1. id \in f.doomed \intersect live /\ id \in Ids
        BY <2>3, <3>1
      <4>2. ~matches(l, id)
        BY <1>3, <2>9, <4>1 DEF Spares
      <4> QED
        BY <2>4, <3>1, <4>1, <4>2
    <3> QED
      BY <2>9, <3>1 DEF Spares, clearings, matches
  <2>10. CASE f.op \notin loops \union clearings \union {"clear"}
    BY <2>10 DEF Spares, loops, clearings
  <2> QED
    BY <2>7, <2>8, <2>9, <2>10
<1>4. \A i \in 1 .. Len(stack') : stack'[i].op \in calls => stack'[i].entity \in live'
  BY <1>2
<1>5. \A j \in 1 .. Len(stack') : \A i \in 1 .. j : \A l \in Listeners : \A f \in Frame :
         placedIn(stack'[i], l) /\ f = stack'[j] /\ Spares(f, l) => Spares(f, l)'
  BY <1>3
<1>6. \A j \in 1 .. Len(stack') : stack'[j] \in Frame
  BY <1>1
<1> QED
  BY <1>1, <1>4, <1>5, <1>6, ReturnedStep

\* addComp returns: the flag is set.
LEMMA AddCompReturnsKeeps ==
    ASSUME IInv, Disciplined, addCompReturns
    PROVE  IInv'
<1>1. /\ stack # << >> /\ top.op = "add" /\ top.op \in calls
      /\ componentsPresent' = [componentsPresent EXCEPT ![top.entity] = @ \union {top.c}]
      /\ stack' = returned
      /\ UNCHANGED << nextId, freedIds, comps, callbacks, constructed, ids, live >>
  BY DEF addCompReturns, resumes, turnOnFlags, idVars, systemVars, live, calls
<1>2. top \in LoopFrame /\ top.entity \in Ids /\ top.c \in Comps
  BY <1>1, TopFacts, FrameFacts DEF loops, LoopFrame
<1>3. Typed'
  <2>1. componentsPresent[top.entity] \union {top.c} \in compMask
    BY <1>2 DEF IInv, Typed, compMask, AllComps
  <2> QED
    BY <1>1, <1>2, <2>1, ReturnedFacts DEF IInv, Typed
<1>4. /\ componentsPresent'[top.entity] = componentsPresent[top.entity] \union {top.c}
      /\ \A id \in Ids : id # top.entity => componentsPresent'[id] = componentsPresent[id]
  BY <1>1, <1>2 DEF IInv, Typed
<1>5. Good(stack)'
  <2>1. ASSUME NEW l \in Listeners, Spares(top, l), ~matches(l, top.entity)
        PROVE  ~(Likeness[l] \subseteq componentsPresent'[top.entity])
    BY <1>1, <1>4, <2>1 DEF Spares, matches, shouldFireAdditionDlgt
  <2> QED
    BY <1>1, <1>4, <2>1, ReturnedGood
<1>6. Stored(stack)'
  <2>1. ASSUME NEW c \in AllComps, NEW id \in Ids
        PROVE  id \in comps'[c] <=> c \in componentsPresent'[id] \/ BeingAdded(stack', id, c)
    <3>1. BeingAdded(stack, id, c)
             <=> BeingAdded(stack', id, c) \/ (id = top.entity /\ c = top.c)
      BY <1>1, ReturnedFacts DEF Adds
    <3>2. c \in componentsPresent'[id]
             <=> c \in componentsPresent[id] \/ (id = top.entity /\ c = top.c)
      BY <1>4
    <3> QED
      BY <1>1, <3>1, <3>2 DEF IInv, Stored
  <2> QED
    BY <2>1 DEF Stored, BeingAdded
<1> QED
  BY <1>3, <1>5, <1>6 DEF IInv

\* Nothing is being added to an entity that a component is removed from.
LEMMA NotBeingAdded ==
    ASSUME IInv, stack # << >>, top.op \in calls, NEW c
    PROVE  ~BeingAdded(returned, top.entity, c)
<1>1. ASSUME NEW i \in 1 .. Len(returned), Adds(returned[i], top.entity, c) PROVE FALSE
  <2>1. returned[i] = stack[i] /\ i \in 1 .. Len(stack) - 1
    BY ReturnedFacts
  <2> QED
    BY <1>1, <2>1, AboutTop DEF Adds, calls, clearings
<1> QED
  BY <1>1 DEF BeingAdded

\* remCompNoChecks returns: collection and flag lose the component.
LEMMA RemCompReturnsKeeps ==
    ASSUME IInv, Disciplined, remCompReturns
    PROVE  IInv'
<1>1. /\ stack # << >> /\ top.op = "rem" /\ top.op \in calls
      /\ comps' = [comps EXCEPT ![top.c] = @ \ {top.id}]
      /\ componentsPresent' = [componentsPresent EXCEPT ![top.entity] = @ \ {top.c}]
      /\ stack' = returned
      /\ UNCHANGED << nextId, freedIds, callbacks, constructed, ids >>
  BY DEF remCompReturns, resumes, turnOffFlags, erase, idVars, systemVars, calls
<1>2. /\ top \in LoopFrame /\ top.entity \in Ids /\ top.c \in Comps /\ top.id = top.entity
      /\ top.c \in AllComps /\ top.c # EXISTENCE
  BY <1>1, TopFacts, FrameFacts, CompsAssumption DEF loops, LoopFrame, Fresh, AllComps
<1>3. Typed'
  <2>1. componentsPresent[top.entity] \ {top.c} \in compMask
    BY <1>2 DEF IInv, Typed, compMask
  <2> QED
    BY <1>1, <1>2, <2>1, ReturnedFacts DEF IInv, Typed
<1>4. /\ componentsPresent'[top.entity] = componentsPresent[top.entity] \ {top.c}
      /\ \A id \in Ids : id # top.entity => componentsPresent'[id] = componentsPresent[id]
      /\ live' = live
  BY <1>1, <1>2 DEF IInv, Typed, live, AllComps
<1>5. Good(stack)'
  <2>1. ASSUME NEW l \in Listeners, ~matches(l, top.entity)
        PROVE  ~(Likeness[l] \subseteq componentsPresent'[top.entity])
    BY <1>4, <2>1 DEF matches
  <2> QED
    BY <1>1, <1>4, <2>1, ReturnedGood
<1>6. Stored(stack)'
  <2>1. ASSUME NEW c \in AllComps, NEW id \in Ids
        PROVE  id \in comps'[c] <=> c \in componentsPresent'[id] \/ BeingAdded(stack', id, c)
    <3>1. BeingAdded(stack, id, c) <=> BeingAdded(stack', id, c)
      BY <1>1, ReturnedFacts DEF Adds
    <3>2. id = top.entity => ~BeingAdded(stack', id, c)
      BY <1>1, NotBeingAdded
    <3>3. c \in componentsPresent'[id]
             <=> c \in componentsPresent[id] /\ ~(id = top.entity /\ c = top.c)
      BY <1>4
    <3>4. id \in comps'[c] <=> id \in comps[c] /\ ~(id = top.entity /\ c = top.c)
      BY <1>1, <1>2 DEF IInv, Typed
    <3> QED
      BY <3>1, <3>2, <3>3, <3>4 DEF IInv, Stored
  <2> QED
    BY <2>1 DEF Stored, BeingAdded
<1> QED
  BY <1>3, <1>5, <1>6 DEF IInv

\* No other call is about the entity that is deleted.
LEMMA DeleteSpoilsNothing ==
    ASSUME IInv, deleteEntityReturns, componentsPresent[top.entity] = {EXISTENCE}
    PROVE  stack' = returned
<1>1. stack # << >> /\ top.op = "deleteEntity" /\ top.op \in calls /\ top.op # "rem"
  BY DEF deleteEntityReturns, resumes, calls
<1>2. top.id = top.entity
  BY <1>1, TopFacts DEF Fresh
<1>3. stack' = spoil(returned, LAMBDA f : f.op \in calls /\ f.entity = top.id)
  BY DEF deleteEntityReturns
<1>4. returned \in Seq(Frame) /\ Good(returned)
  BY <1>1, ReturnedFacts
<1>5. ASSUME NEW i \in DOMAIN returned
      PROVE  [returned[i] EXCEPT !.stale =
                 returned[i].stale \/ (returned[i].op \in calls /\ returned[i].entity = top.id)]
                 = returned[i]
  <2>1. i \in 1 .. Len(returned) /\ returned[i] \in Frame
    BY <1>4, <1>5
  <2>2. ~(returned[i].op \in calls /\ returned[i].entity = top.id)
    BY <1>1, <1>2, <2>1, ReturnedFacts, AboutTop
  <2>3. ~returned[i].stale
    BY <1>4, <2>1 DEF Good, AllFresh, Fresh
  <2> QED
    BY <2>1, <2>2, <2>3, NotMarked
<1>6. stack' = [i \in DOMAIN returned |-> returned[i]]
  BY <1>3, <1>5, Zenon DEF spoil
<1> QED
  BY <1>4, <1>6

\* deleteEntity returns, with the entity or, had it components left, without.
LEMMA DeleteEntityReturnsKeeps ==
    ASSUME IInv, Disciplined, deleteEntityReturns
    PROVE  IInv'
<1>1. /\ stack # << >> /\ top.op = "deleteEntity" /\ top.op \in calls /\ top.op # "rem"
      /\ UNCHANGED << nextId, callbacks, constructed, ids >>
  BY DEF deleteEntityReturns, resumes, systemVars, calls
<1>2. /\ top \in ClearingFrame /\ top.entity \in Ids /\ top.id = top.entity
      /\ EXISTENCE \in AllComps
  BY <1>1, TopFacts, FrameFacts DEF clearings, ClearingFrame, Fresh, AllComps
<1>3. CASE componentsPresent[top.entity] # {EXISTENCE}
  <2>1. stack' = returned /\ UNCHANGED << stateVars, systemVars >>
    BY <1>3 DEF deleteEntityReturns, stateVars, idVars
  <2> QED
    BY <1>1, <2>1, ReturnedFacts, StackStep DEF Adds
<1>4. CASE componentsPresent[top.entity] = {EXISTENCE}
  <2>1. /\ comps' = [comps EXCEPT ![EXISTENCE] = @ \ {top.id}]
        /\ componentsPresent' = [componentsPresent EXCEPT ![top.id] = {}]
        /\ freedIds' = pushFreed(freedIds, top.id)
    BY <1>4 DEF deleteEntityReturns, erase
  <2>2. stack' = returned
    BY <1>4, DeleteSpoilsNothing
  <2>3. freedIds' \in Seq(Ids)
    BY <1>2, <2>1 DEF IInv, Typed, pushFreed
  <2>4. Typed'
    BY <1>1, <1>2, <2>1, <2>2, <2>3, ReturnedFacts DEF IInv, Typed, compMask
  <2>5. /\ componentsPresent'[top.entity] = {}
        /\ \A id \in Ids : id # top.entity => componentsPresent'[id] = componentsPresent[id]
        /\ live' = live \ {top.entity}
    BY <1>2, <2>1 DEF IInv, Typed, live
  <2>6. Good(stack)'
    BY <1>1, <2>2, <2>5, ReturnedGood
  <2>7. Stored(stack)'
    <3>1. ASSUME NEW c \in AllComps, NEW id \in Ids
          PROVE  id \in comps'[c] <=> c \in componentsPresent'[id] \/ BeingAdded(stack', id, c)
      <4>1. BeingAdded(stack, id, c) <=> BeingAdded(stack', id, c)
        BY <1>1, <2>2, ReturnedFacts DEF Adds
      <4>2. id = top.entity => ~BeingAdded(stack', id, c)
        BY <1>1, <2>2, NotBeingAdded
      <4>3. id \in comps'[c] <=> id \in comps[c] /\ ~(id = top.entity /\ c = EXISTENCE)
        BY <1>2, <2>1 DEF IInv, Typed
      <4>4. id \in comps[c] <=> c \in componentsPresent[id] \/ BeingAdded(stack, id, c)
        BY DEF IInv, Stored
      <4> QED
        BY <1>4, <2>5, <4>1, <4>2, <4>3, <4>4
    <3> QED
      BY <3>1 DEF Stored, BeingAdded
  <2> QED
    BY <2>4, <2>6, <2>7 DEF IInv
<1> QED
  BY <1>3, <1>4

--------------------------------------------------------------------------
(* The theorems *)

\* The invariant holds of a State that has just been made
LEMMA InvariantInitially == Init => IInv
<1> SUFFICES ASSUME Init PROVE IInv
  OBVIOUS
<1>1. Typed
  BY MaxIdAssumption DEF Init, Typed, EntityId, compMask
<1>2. Good(stack)
  BY DEF Init, Good, AllFresh, Shape, Apart, PinsSpared
<1>3. Stored(stack)
  BY DEF Init, Stored, BeingAdded
<1> QED
  BY <1>1, <1>2, <1>3 DEF IInv

\* ... and every call and every handler keeps it.
LEMMA InvariantKept == Disciplined /\ IInv /\ [Next]_vars => IInv'
<1> SUFFICES ASSUME Disciplined, IInv, [Next]_vars PROVE IInv'
  OBVIOUS
<1>1. CASE createEntity
  BY <1>1, CreateEntityKeeps
<1>2. ASSUME NEW arg \in arguments, NEW c \in Comps, addComp(arg, c) \/ remComp(arg, c)
      PROVE  IInv'
  BY <1>2, AddCompKeeps, RemCompKeeps
<1>3. ASSUME NEW arg \in arguments, NEW op \in {"clearEntity", "deleteEntity"}, clearEntity(arg, op)
      PROVE  IInv'
  BY <1>3, ClearEntityKeeps DEF clearings
<1>4. CASE clear
  BY <1>4, ClearKeeps
<1>5. ASSUME NEW s \in Systems, listenForLikeEntities(s) PROVE IInv'
  BY <1>5, ListenKeeps
<1>6. CASE fire
  BY <1>6, FireKeeps
<1>7. CASE discoverReturns
  BY <1>7, DiscoverReturnsKeeps
<1>8. CASE forgetReturns
  BY <1>8, ForgetReturnsKeeps
<1>9. CASE addCompReturns
  BY <1>9, AddCompReturnsKeeps
<1>10. CASE remCompReturns
  BY <1>10, RemCompReturnsKeeps
<1>11. CASE clearLoopBody
  BY <1>11, ClearLoopBodyKeeps
<1>12. CASE clearEntityReturns \/ clearReturns
  BY <1>12, QuietReturnKeeps
<1>13. CASE deleteEntityReturns
  BY <1>13, DeleteEntityReturnsKeeps
<1>14. CASE clearNext
  BY <1>14, ClearNextKeeps
<1>15. CASE UNCHANGED vars
  <2>1. UNCHANGED << stateVars, systemVars, stack >> /\ stack' \in Seq(Frame) /\ Good(stack')
    BY <1>15 DEF vars, IInv, Typed
  <2> QED
    BY <2>1, StackStep
<1> QED
  BY <1>1, <1>2, <1>3, <1>4, <1>5, <1>6, <1>7, <1>8, <1>9, <1>10, <1>11, <1>12, <1>13, <1>14, <1>15
     DEF Next

\* So it always holds.
LEMMA Invariance == Disciplined => (Spec => []IInv)
<1>1. Disciplined /\ IInv /\ [Next]_vars => IInv'
  BY InvariantKept
<1> SUFFICES ASSUME Disciplined PROVE Spec => []IInv
  OBVIOUS
<1>2. IInv /\ [Next]_vars => IInv'
  BY <1>1
<1> QED
  BY <1>2, InvariantInitially, PTL DEF Spec

\* Every variable keeps its type however deep the calls go.
THEOREM TypeCorrect == Disciplined => (Spec => []TypeOK)
<1>1. IInv => TypeOK
  <2> SUFFICES ASSUME IInv PROVE TypeOK
    OBVIOUS
  <2>1. \A i \in DOMAIN stack : stack[i].op \in calls \union handlers \union {"clear"}
    BY FrameFacts DEF IInv, Typed, calls, loops, clearings
  <2> QED
    BY <2>1 DEF IInv, Typed, TypeOK
<1> QED
  BY <1>1, Invariance, PTL

\* Under the four rules a call or a handler that goes on after others have
\* run finds its id, the entity's Existence component, the list of callbacks
\* and the place in the registry where it left them.
THEOREM NothingGoesStale == Disciplined => (Spec => []HoldsWhatItTook)
<1>1. IInv => HoldsWhatItTook
  <2> SUFFICES ASSUME IInv, stack # << >>
               PROVE  /\ ~top.stale
                      /\ top.op \in calls => top.id = top.entity
                      /\ top.op = "forget" => top.at \in DOMAIN ids[top.l] /\ ids[top.l][top.at] = top.id
    BY DEF HoldsWhatItTook
  <2> QED
    BY TopFacts DEF Fresh, calls
<1> QED
  BY <1>1, Invariance, PTL

\* At every point at which a handler can look, the masks and the collections
\* agree, except for the component that is just being added.
THEOREM MasksFollowCollections == Disciplined => (Spec => []StoreMatchesMask)
<1>1. IInv => StoreMatchesMask
  <2> SUFFICES ASSUME IInv, NEW c \in AllComps, NEW id \in Ids
               PROVE  id \in comps[c] <=>
                        \/ c \in componentsPresent[id]
                        \/ \E f \in onStack({"add"}) : f.entity = id /\ f.c = c
    BY DEF StoreMatchesMask
  <2>1. BeingAdded(stack, id, c) <=> \E f \in onStack({"add"}) : f.entity = id /\ f.c = c
    BY DEF IInv, Typed, BeingAdded, Adds, onStack
  <2> QED
    BY <2>1 DEF IInv, Stored
<1> QED
  BY <1>1, Invariance, PTL

--------------------------------------------------------------------------
(* What a step does to the stack, for the invariants that follow *)

\* The places of its list that a loop has passed, the one whose handler is
\* running excepted; and the components a clearing call has removed.
past(j) == IF j = Len(stack) THEN stack[j].pos - 1 ELSE stack[j].pos - 2

joins(l, f) == shouldFireAdditionDlgt(Likeness[l], componentsPresent[f.entity], f.c)
leaves(l, f) == shouldFireRemovalDlgt(Likeness[l], componentsPresent[f.entity], f.c)

\* A frame when it comes onto the stack.
NewFrame(f) ==
    /\ f.op \notin handlers
    /\ f.op \in loops \union clearings => f.pos = 1
    /\ f.op = "add" =>
        /\ requiredComps(f.c) \subseteq componentsPresent[f.entity]
        /\ f.c \notin componentsPresent[f.entity]
        /\ f.c \in Persistent => onStack({"clear"}) = {}
    /\ f.op = "rem" =>
        \/ stack # << >> /\ top.op \in clearings
        \/ /\ f.c \in componentsPresent[f.entity]
           /\ passesDependenciesForRemoval(componentsPresent[f.entity], dependentComps(f.c))
    /\ f.op \in clearings =>
        /\ f.was = componentsPresent[f.entity]
        /\ stack # << >> /\ top.op = "clear" => f.entity \in top.doomed \intersect live
    /\ f.op = "clear" => f.doomed = idsToErase

\* All steps that call a method of State.
Grown ==
    /\ UNCHANGED << nextId, freedIds, live, componentsPresent, callbacks, constructed, ids >>
    /\ Len(stack) \in Nat
    /\ Len(stack') \in {Len(stack), Len(stack) + 1}
    /\ \A j \in 1 .. Len(stack) :
        /\ Advanced(stack'[j], stack[j])
        /\ stack[j].op \in loops => j # Len(stack)
        /\ stack[j].op \in loops \union clearings => past(j)' = past(j)
    /\ \A j \in 1 .. Len(stack') : j \notin 1 .. Len(stack) => j = Len(stack) + 1 /\ NewFrame(stack'[j])

\* A frame is what it is.
LEMMA AdvancedSame ==
    ASSUME NEW f PROVE Advanced(f, f)
  BY DEF Advanced

\* A call from the main loop or from a handler.
LEMMA CallGrows ==
    ASSUME IInv, inControl, NEW f, stack' = Append(stack, f), f \in Frame, NewFrame(f),
           UNCHANGED << nextId, freedIds, live, componentsPresent, systemVars >>
    PROVE  Grown
<1>1. stack \in Seq(Frame) /\ Len(stack) \in Nat
  BY DEF IInv, Typed
<1>2. /\ Len(stack') = Len(stack) + 1
      /\ \A j \in 1 .. Len(stack) : stack'[j] = stack[j]
      /\ stack'[Len(stack) + 1] = f
  BY <1>1, AppendAt
<1>3. ASSUME NEW j \in 1 .. Len(stack), j = Len(stack) PROVE stack[j].op \in handlers
  <2>1. stack # << >>
    BY <1>1, <1>3
  <2>2. top = stack[Len(stack)]
    BY <2>1, TopFacts
  <2> QED
    BY <1>3, <2>1, <2>2 DEF inControl, resumes
<1>4. ASSUME NEW j \in 1 .. Len(stack)
      PROVE  /\ Advanced(stack'[j], stack[j])
             /\ stack[j].op \in loops => j # Len(stack)
             /\ stack[j].op \in loops \union clearings => past(j)' = past(j)
  BY <1>1, <1>2, <1>3, AdvancedSame DEF past, handlers, loops, clearings
<1>5. ASSUME NEW j \in 1 .. Len(stack'), j \notin 1 .. Len(stack)
      PROVE  j = Len(stack) + 1 /\ NewFrame(stack'[j])
  BY <1>1, <1>2, <1>5
<1> QED
  BY <1>1, <1>2, <1>4, <1>5 DEF Grown, systemVars

\* A clearing loop or clear, which moves on and calls in turn.
LEMMA DescendGrows ==
    ASSUME IInv, stack # << >>, top.op \notin loops,
           NEW g \in Frame, Advanced(g, top), top.op \in clearings => g.pos = top.pos + 1,
           NEW f \in Frame, NewFrame(f),
           stack' = Append([stack EXCEPT ![Len(stack)] = g], f),
           UNCHANGED << stateVars, systemVars >>
    PROVE  Grown
<1>1. stack \in Seq(Frame) /\ Len(stack) \in Nat \ {0} /\ top = stack[Len(stack)] /\ top \in Frame
  BY TopFacts
<1> DEFINE s == [stack EXCEPT ![Len(stack)] = g]
<1>2. Len(stack) \in 1 .. Len(stack)
  BY <1>1
<1>3. /\ s \in Seq(Frame) /\ Len(s) = Len(stack)
      /\ \A j \in 1 .. Len(stack) : s[j] = IF j = Len(stack) THEN g ELSE stack[j]
  BY <1>1, <1>2, PlacedAt
<1> HIDE DEF s
<1>4. stack' = Append(s, f)
  BY DEF s
<1>5. /\ Len(stack') = Len(stack) + 1
      /\ \A j \in 1 .. Len(stack) : stack'[j] = IF j = Len(stack) THEN g ELSE stack[j]
      /\ stack'[Len(stack) + 1] = f
  BY <1>3, <1>4, AppendAt
<1>6. ASSUME NEW j \in 1 .. Len(stack)
      PROVE  /\ Advanced(stack'[j], stack[j])
             /\ stack[j].op \in loops => j # Len(stack)
             /\ stack[j].op \in loops \union clearings => past(j)' = past(j)
  <2>1. Advanced(stack'[j], stack[j]) /\ (stack[j].op \in loops => j # Len(stack))
    BY <1>1, <1>5, AdvancedSame
  <2>2. ASSUME stack[j].op \in loops \union clearings PROVE past(j)' = past(j)
    <3>1. CASE j = Len(stack)
      <4>1. top.op \in clearings /\ top.pos \in Nat
        BY <1>1, <2>2, <3>1, FrameFacts DEF ClearingFrame
      <4> QED
        BY <1>1, <1>5, <3>1, <4>1 DEF past
    <3>2. CASE j # Len(stack)
      BY <1>1, <1>5, <3>2 DEF past
    <3> QED
      BY <3>1, <3>2
  <2> QED
    BY <2>1, <2>2
<1>7. ASSUME NEW j \in 1 .. Len(stack'), j \notin 1 .. Len(stack)
      PROVE  j = Len(stack) + 1 /\ NewFrame(stack'[j])
  BY <1>1, <1>5, <1>7
<1>8. UNCHANGED << nextId, freedIds, live, componentsPresent, callbacks, constructed, ids >>
  BY DEF stateVars, idVars, systemVars, live
<1> QED
  BY <1>1, <1>5, <1>6, <1>7, <1>8 DEF Grown

\* Every method that is called, and every step of a clearing loop or of clear,
\* is such a step.
LEMMA AddCompGrows ==
    ASSUME IInv, Disciplined, NEW arg \in arguments, NEW c \in Comps, addComp(arg, c)
    PROVE  Grown
<1> DEFINE f == notifying(frame("add", arg), "add", c)
<1>1. arg.id \in Ids /\ arg.ref \in Refs /\ Len(callbacks[c]) \in Nat
  BY ArgumentType DEF IInv, Typed
<1>2. f = [op |-> "add", id |-> arg.id, ref |-> arg.ref, entity |-> arg.id, stale |-> FALSE,
           c |-> c, pos |-> 1, last |-> Len(callbacks[c])]
  BY DEF notifying, frame
<1>3. f \in Frame
  BY <1>1, <1>2, NewLoop DEF loops
<1>4. /\ inControl /\ stack' = Append(stack, f)
      /\ UNCHANGED << nextId, freedIds, componentsPresent, systemVars >>
      /\ comps' = [comps EXCEPT ![c] = @ \union {arg.id}]
      /\ c \in Persistent => onStack({"clear"}) = {}
      /\ requiredComps(c) \subseteq componentsPresent[arg.id]
      /\ arg.id \notin comps[c]
  BY DEF addComp, idVars, outsideClear, Disciplined, passesPrerequisitesForAddition, count, try_emplace
<1>5. c \notin componentsPresent[arg.id]
  BY <1>1, <1>4 DEF IInv, Stored, AllComps
<1>6. UNCHANGED live
  BY <1>4, CompsAssumption DEF live, IInv, Typed, AllComps
<1> HIDE DEF f
<1>7. f.op = "add" /\ f.c = c /\ f.entity = arg.id /\ f.pos = 1
  BY <1>2
<1>8. NewFrame(f)
  BY <1>4, <1>5, <1>7 DEF NewFrame, handlers, clearings
<1> QED
  BY <1>3, <1>4, <1>6, <1>8, CallGrows

\* So does remComp, whose loop begins to tell the delegates of the type.
LEMMA RemCompGrows ==
    ASSUME IInv, Disciplined, NEW arg \in arguments, NEW c \in Comps, remComp(arg, c)
    PROVE  Grown
<1> DEFINE f == notifying(frame("rem", arg), "rem", c)
<1>1. arg.id \in Ids /\ arg.ref \in Refs /\ Len(callbacks[c]) \in Nat
  BY ArgumentType DEF IInv, Typed
<1>2. f = [op |-> "rem", id |-> arg.id, ref |-> arg.ref, entity |-> arg.id, stale |-> FALSE,
           c |-> c, pos |-> 1, last |-> Len(callbacks[c])]
  BY DEF notifying, frame
<1>3. f \in Frame
  BY <1>1, <1>2, NewLoop DEF loops
<1>4. /\ inControl /\ stack' = Append(stack, f)
      /\ UNCHANGED << nextId, freedIds, comps, componentsPresent, systemVars >>
      /\ arg.id \in comps[c] /\ arg.id \notin busy
      /\ passesDependenciesForRemoval(componentsPresent[arg.id], dependentComps(c))
  BY DEF remComp, stateVars, idVars, keepsRules, Disciplined, count
<1>5. c \in componentsPresent[arg.id]
  <2>1. ~BeingAdded(stack, arg.id, c)
    BY <1>4 DEF BeingAdded, Adds, busy, onStack, calls, IInv, Typed
  <2> QED
    BY <1>1, <1>4, <2>1 DEF IInv, Stored, AllComps
<1>6. UNCHANGED live
  BY <1>4 DEF live
<1> HIDE DEF f
<1>7. f.op = "rem" /\ f.c = c /\ f.entity = arg.id /\ f.pos = 1
  BY <1>2
<1>8. NewFrame(f)
  BY <1>4, <1>5, <1>7 DEF NewFrame, handlers, clearings
<1> QED
  BY <1>3, <1>4, <1>6, <1>8, CallGrows

\* So do clearEntity and deleteEntity, which begin their loop over the types,
LEMMA ClearEntityGrows ==
    ASSUME IInv, Disciplined, NEW arg \in arguments, NEW op \in clearings, clearEntity(arg, op)
    PROVE  Grown
<1> DEFINE f == clearing(op, arg)
<1>1. arg.id \in Ids /\ arg.ref \in Refs /\ componentsPresent[arg.id] \in compMask
  BY ArgumentType DEF IInv, Typed
<1>2. f = [op |-> op, id |-> arg.id, ref |-> arg.ref, entity |-> arg.id, stale |-> FALSE,
           pos |-> 1, was |-> componentsPresent[arg.id]]
  BY DEF clearing
<1>3. f \in Frame
  BY <1>1, <1>2, NewClearing
<1>4. /\ inControl /\ stack' = Append(stack, f)
      /\ UNCHANGED << nextId, freedIds, comps, componentsPresent, systemVars >>
  BY DEF clearEntity, stateVars, idVars
<1>5. stack # << >> => top.op # "clear"
  BY <1>4 DEF inControl, resumes, handlers
<1>6. UNCHANGED live
  BY <1>4 DEF live
<1> HIDE DEF f
<1>7. f.op = op /\ f.was = componentsPresent[f.entity] /\ f.pos = 1
  BY <1>2
<1>8. NewFrame(f)
  BY <1>5, <1>7 DEF NewFrame, handlers, clearings
<1> QED
  BY <1>3, <1>4, <1>6, <1>8, CallGrows

\* and clear, which takes a copy of the entities it will delete.
LEMMA ClearGrows ==
    ASSUME IInv, Disciplined, clear
    PROVE  Grown
<1> DEFINE f == [op |-> "clear", ref |-> << >>, stale |-> FALSE, doomed |-> idsToErase]
<1>1. f \in Frame
  BY NewClear DEF IInv, Typed, idsToErase, live, AllComps
<1>2. /\ inControl /\ stack' = Append(stack, f)
      /\ UNCHANGED << nextId, freedIds, comps, componentsPresent, systemVars >>
  BY DEF clear, stateVars, idVars
<1>3. UNCHANGED live
  BY <1>2 DEF live
<1>4. NewFrame(f)
  BY DEF NewFrame, handlers, loops, clearings
<1> HIDE DEF f
<1> QED
  BY <1>1, <1>2, <1>3, <1>4, CallGrows

\* A turn of the loop over the types calls remComp for the type it is at.
LEMMA ClearLoopBodyGrows ==
    ASSUME IInv, Disciplined, clearLoopBody
    PROVE  Grown
<1> DEFINE c == CompOrder[top.pos]
           g == [top EXCEPT !.pos = top.pos + 1]
           f == notifying(top, "rem", c)
<1>1. stack # << >> /\ top.op \in clearings /\ top.pos <= Len(CompOrder)
  BY DEF clearLoopBody, resumes, clearings
<1>2. /\ stack \in Seq(Frame) /\ Len(stack) \in Nat \ {0} /\ top = stack[Len(stack)]
      /\ top \in Frame /\ Fresh(top) /\ top \in ClearingFrame
  BY <1>1, TopFacts, FrameFacts
<1>3. /\ stack' = Append([stack EXCEPT ![Len(stack)] = g], f)
      /\ UNCHANGED << stateVars, systemVars >>
  BY <1>1, <1>2 DEF clearLoopBody, moved
<1>4. /\ Len(CompOrder) \in Nat /\ top.pos \in Nat /\ top.pos + 1 \in Nat
      /\ c \in Comps /\ callbacks[c] \in Seq(Listeners) /\ Len(callbacks[c]) \in Nat
  <2>1. Len(CompOrder) \in Nat /\ CompOrder \in Seq(Comps)
    BY CompsAssumption
  <2>2. top.pos \in 1 .. Len(CompOrder)
    BY <1>1, <1>2, <2>1 DEF Fresh, ClearingFrame
  <2>3. c \in Comps
    BY <2>1, <2>2
  <2> QED
    BY <2>1, <2>2, <2>3 DEF IInv, Typed
<1> HIDE DEF c
<1>5. g \in Frame /\ Advanced(g, top) /\ g.pos = top.pos + 1
  BY <1>1, <1>2, <1>4, MovedFrame
<1>7. top.id \in Ids /\ top.entity = top.id /\ top.ref \in Refs
  BY <1>1, <1>2 DEF Fresh, ClearingFrame, clearings
<1>8. f = [op |-> "rem", id |-> top.id, ref |-> top.ref, entity |-> top.id, stale |-> FALSE,
           c |-> c, pos |-> 1, last |-> Len(callbacks[c])]
  BY <1>7 DEF notifying
<1> HIDE DEF g, f
<1>9. f \in Frame
  BY <1>4, <1>7, <1>8, NewLoop DEF loops
<1>10. NewFrame(f)
  BY <1>1, <1>8 DEF NewFrame, handlers, clearings
<1> QED
  BY <1>1, <1>3, <1>5, <1>9, <1>10, DescendGrows DEF loops, clearings

\* A turn of clear calls deleteEntity for an entity of its copy.
LEMMA ClearNextGrows ==
    ASSUME IInv, Disciplined, clearNext
    PROVE  Grown
<1>1. stack # << >> /\ top.op = "clear" /\ UNCHANGED << stateVars, systemVars >>
  BY DEF clearNext, resumes
<1>2. /\ stack \in Seq(Frame) /\ Len(stack) \in Nat \ {0} /\ top = stack[Len(stack)]
      /\ top \in Frame /\ top \in ClearFrame /\ Len(stack) \in 1 .. Len(stack)
  BY <1>1, TopFacts, FrameFacts
<1>3. PICK id \in top.doomed :
        stack' = LET rest == [stack EXCEPT ![Len(stack)].doomed = @ \ {id}]
                 IN  IF count(live, id)
                     THEN Append(rest, clearing("deleteEntity", byValue(id))) ELSE rest
  BY <1>1 DEF clearNext
<1> DEFINE g == [top EXCEPT !.doomed = top.doomed \ {id}]
           f == clearing("deleteEntity", byValue(id))
<1>4. [stack EXCEPT ![Len(stack)].doomed = @ \ {id}] = [stack EXCEPT ![Len(stack)] = g]
  BY <1>2
<1>5. id \in Ids /\ g \in Frame /\ Advanced(g, top)
  <2>1. id \in Ids /\ g \in ClearFrame
    BY <1>2 DEF ClearFrame
  <2>2. g.op = "clear" /\ g.ref = top.ref /\ g.doomed \subseteq top.doomed
    BY <1>2 DEF ClearFrame
  <2> QED
    BY <1>1, <2>1, <2>2 DEF Frame, Advanced, loops, clearings, handlers
<1> HIDE DEF g
<1>6. CASE ~count(live, id)
  <2>1. stack' = [stack EXCEPT ![Len(stack)] = g]
    BY <1>3, <1>4, <1>6
  <2>2. /\ Len(stack') = Len(stack)
        /\ \A j \in 1 .. Len(stack) : stack'[j] = IF j = Len(stack) THEN g ELSE stack[j]
    BY <1>2, <1>5, <2>1, PlacedAt
  <2>3. ASSUME NEW j \in 1 .. Len(stack)
        PROVE  /\ Advanced(stack'[j], stack[j])
               /\ stack[j].op \in loops => j # Len(stack)
               /\ stack[j].op \in loops \union clearings => past(j)' = past(j)
    BY <1>1, <1>2, <1>5, <2>2, AdvancedSame DEF past, loops, clearings
  <2> QED
    BY <1>1, <1>2, <2>2, <2>3 DEF Grown, stateVars, idVars, systemVars, live
<1>7. CASE count(live, id)
  <2>1. stack' = Append([stack EXCEPT ![Len(stack)] = g], f)
    BY <1>3, <1>4, <1>7
  <2>2. f = [op |-> "deleteEntity", id |-> id, ref |-> << >>, entity |-> id, stale |-> FALSE,
             pos |-> 1, was |-> componentsPresent[id]]
    BY DEF clearing, byValue
  <2> HIDE DEF f
  <2>3. f \in Frame
    BY <1>5, <2>2, NewClearing DEF IInv, Typed, Refs, clearings
  <2>4. NewFrame(f)
    BY <1>3, <1>7, <2>2 DEF NewFrame, handlers, clearings, count
  <2> QED
    BY <1>1, <1>5, <2>1, <2>3, <2>4, DescendGrows DEF loops, clearings
<1> QED
  BY <1>6, <1>7

\* The other steps return from the top frame, fire one of its callbacks, or
\* come from the main loop with nothing on the stack.
Shrunk ==
    /\ stack # << >> /\ Len(stack) \in Nat \ {0}
    /\ Len(stack') = Len(stack) - 1
    /\ \A j \in 1 .. Len(stack) - 1 : stack'[j] = stack[j]
    /\ UNCHANGED << callbacks, constructed >>

\* A step that returns to the frame below only takes the top off.
LEMMA ReturnShrinks ==
    ASSUME IInv, stack # << >>, stack' = returned, UNCHANGED << callbacks, constructed >>
    PROVE  Shrunk
<1>1. Len(stack) \in Nat \ {0}
  BY TopFacts
<1>2. Len(stack') = Len(stack) - 1 /\ \A i \in 1 .. Len(returned) : returned[i] = stack[i]
  BY ReturnedFacts
<1> QED
  BY <1>1, <1>2 DEF Shrunk

\* A handler that returns leaves what was below it, and its registry with the
\* id or without.
LEMMA DiscoverShrinks ==
    ASSUME IInv, Disciplined, discoverReturns
    PROVE  /\ Shrunk /\ top.op = "discover"
           /\ ids' = [ids EXCEPT ![top.l] = Append(ids[top.l], top.id)]
           /\ UNCHANGED stateVars
<1>1. /\ stack # << >> /\ top.op = "discover"
      /\ ids' = [ids EXCEPT ![top.l] = Append(ids[top.l], top.id)]
      /\ UNCHANGED << stateVars, callbacks, constructed >>
  BY DEF discoverReturns, resumes
<1>2. stack' = returned
  BY <1>1, DiscoverSpoilsNothing
<1> QED
  BY <1>1, <1>2, ReturnShrinks

\* The handler that forgets an id returns, and takes it out of its registry.
LEMMA ForgetShrinks ==
    ASSUME IInv, Disciplined, forgetReturns
    PROVE  /\ Shrunk /\ top.op = "forget" /\ top.at \in DOMAIN ids[top.l]
           /\ ids' = [ids EXCEPT ![top.l] = RemoveAt(ids[top.l], top.at)]
           /\ UNCHANGED stateVars
<1>1. /\ stack # << >> /\ top.op = "forget" /\ top.at \in DOMAIN ids[top.l]
      /\ ids' = [ids EXCEPT ![top.l] = RemoveAt(ids[top.l], top.at)]
      /\ stack' = reread(returned, top.l, ids'[top.l])
      /\ UNCHANGED << stateVars, callbacks, constructed >>
  BY DEF forgetReturns, resumes
<1>2. stack' = returned
  BY <1>1, NothingReread DEF handlers
<1> QED
  BY <1>1, <1>2, ReturnShrinks

\* The end of addComp and of remCompNoChecks.
LEMMA AddCompShrinks ==
    ASSUME IInv, addCompReturns
    PROVE  /\ Shrunk /\ top.op = "add" /\ toFire(top) = {}
           /\ componentsPresent' = [componentsPresent EXCEPT ![top.entity] = @ \union {top.c}]
           /\ UNCHANGED << nextId, freedIds, live, ids >>
<1>1. /\ stack # << >> /\ top.op = "add" /\ toFire(top) = {}
      /\ componentsPresent' = [componentsPresent EXCEPT ![top.entity] = @ \union {top.c}]
      /\ stack' = returned
      /\ UNCHANGED << nextId, freedIds, live, callbacks, constructed, ids >>
  BY DEF addCompReturns, resumes, turnOnFlags, idVars, systemVars, live
<1> QED
  BY <1>1, ReturnShrinks

\* remComp returns when every delegate is told, and takes the component off the mask.
LEMMA RemCompShrinks ==
    ASSUME IInv, remCompReturns
    PROVE  /\ Shrunk /\ top.op = "rem" /\ toFire(top) = {}
           /\ componentsPresent' = [componentsPresent EXCEPT ![top.entity] = @ \ {top.c}]
           /\ UNCHANGED << nextId, freedIds, live, ids >>
<1>1. /\ stack # << >> /\ top.op = "rem" /\ toFire(top) = {}
      /\ comps' = [comps EXCEPT ![top.c] = @ \ {top.id}]
      /\ componentsPresent' = [componentsPresent EXCEPT ![top.entity] = @ \ {top.c}]
      /\ stack' = returned
      /\ UNCHANGED << nextId, freedIds, callbacks, constructed, ids >>
  BY DEF remCompReturns, resumes, turnOffFlags, erase, idVars, systemVars
<1>2. top.c \in Comps
  BY <1>1, TopFacts, FrameFacts DEF loops, LoopFrame
<1>3. live' = live
  BY <1>1, <1>2, CompsAssumption DEF IInv, Typed, live, AllComps
<1> QED
  BY <1>1, <1>3, ReturnShrinks

\* The end of deleteEntity, when the entity is empty,
LEMMA DeleteShrinks ==
    ASSUME IInv, deleteEntityReturns, componentsPresent[top.entity] = {EXISTENCE}
    PROVE  /\ Shrunk /\ top.op = "deleteEntity" /\ clearLoopDone
           /\ componentsPresent' = [componentsPresent EXCEPT ![top.entity] = {}]
           /\ freedIds' = pushFreed(freedIds, top.entity)
           /\ live' = live \ {top.entity}
           /\ UNCHANGED << nextId, ids >>
<1>1. /\ stack # << >> /\ top.op = "deleteEntity" /\ clearLoopDone
      /\ comps' = [comps EXCEPT ![EXISTENCE] = @ \ {top.id}]
      /\ componentsPresent' = [componentsPresent EXCEPT ![top.id] = {}]
      /\ freedIds' = pushFreed(freedIds, top.id)
      /\ UNCHANGED << nextId, callbacks, constructed, ids >>
  BY DEF deleteEntityReturns, resumes, erase, systemVars
<1>2. top.id = top.entity
  BY <1>1, TopFacts DEF Fresh
<1>3. stack' = returned
  BY DeleteSpoilsNothing
<1>4. live' = live \ {top.id}
  BY <1>1 DEF IInv, Typed, live, AllComps
<1> QED
  BY <1>1, <1>2, <1>3, <1>4, ReturnShrinks

\* and of the calls that then have nothing to do.
LEMMA QuietShrinks ==
    ASSUME IInv,
           \/ clearEntityReturns \/ clearReturns
           \/ deleteEntityReturns /\ componentsPresent[top.entity] # {EXISTENCE}
    PROVE  /\ Shrunk /\ top.op \in clearings \union {"clear"}
           /\ top.op \in clearings => clearLoopDone
           /\ UNCHANGED << nextId, freedIds, componentsPresent, live, ids >>
<1>1. /\ stack # << >> /\ top.op \in clearings \union {"clear"}
      /\ top.op \in clearings => clearLoopDone
      /\ stack' = returned /\ UNCHANGED << stateVars, systemVars >>
  BY DEF clearEntityReturns, clearReturns, deleteEntityReturns, resumes, clearings, stateVars, idVars
<1>2. UNCHANGED << nextId, freedIds, componentsPresent, live, callbacks, constructed, ids >>
  BY <1>1 DEF stateVars, idVars, systemVars, live
<1> QED
  BY <1>1, <1>2, ReturnShrinks

\* The loop over callbacks calls the handler of the next delegate that is to
\* be fired, at place k.
Fired(k) ==
    /\ stack # << >> /\ Len(stack) \in Nat \ {0}
    /\ top = stack[Len(stack)] /\ top.op \in loops
    /\ k \in toFire(top) /\ \A m \in toFire(top) : k <= m
    /\ Len(stack') = Len(stack) + 1
    /\ \A j \in 1 .. Len(stack) - 1 : stack'[j] = stack[j]
    /\ Advanced(stack'[Len(stack)], top) /\ stack'[Len(stack)].pos = k + 1
    /\ stack'[Len(stack) + 1].op \in handlers
    /\ stack'[Len(stack) + 1].l = callbacks[top.c][k]
    /\ UNCHANGED << nextId, freedIds, live, componentsPresent, callbacks, constructed, ids >>

\* A loop over the delegates enters the handler of the first one not told yet.
LEMMA FireFires ==
    ASSUME IInv, fire
    PROVE  \E k \in Nat : Fired(k)
<1> DEFINE k == Min(toFire(top))
           l == callbacks[top.c][k]
           g == [top EXCEPT !.pos = k + 1]
           f == handler(top, l)
<1>1. stack # << >> /\ top.op \in loops /\ toFire(top) # {}
  BY DEF fire, resumes, loops
<1>2. /\ stack \in Seq(Frame) /\ Len(stack) \in Nat \ {0} /\ top = stack[Len(stack)]
      /\ top \in Frame /\ Fresh(top) /\ top \in LoopFrame /\ Len(stack) \in 1 .. Len(stack)
  BY <1>1, TopFacts, FrameFacts
<1>3. /\ k \in Nat /\ k + 1 \in Nat /\ l \in Listeners
  BY <1>1, NextToFire
<1>4. /\ stack' = Append([stack EXCEPT ![Len(stack)] = g], f)
      /\ UNCHANGED << stateVars, systemVars >>
  BY <1>1, <1>2 DEF fire, moved
<1>m. k \in toFire(top) /\ \A m \in toFire(top) : k <= m
  <2>1. toFire(top) \in SUBSET Nat
    BY <1>1, <1>2 DEF toFire, Fresh, LoopFrame
  <2> QED
    BY <1>1, <2>1, MinLeast
<1> HIDE DEF k
<1>5. g \in Frame /\ Advanced(g, top) /\ g.pos = k + 1
  BY <1>1, <1>2, <1>3, MovedFrame
<1>6. top.id \in Ids /\ ids[l] \in Seq(Ids) /\ top.entity = top.id /\ top.ref \in Refs
  BY <1>1, <1>2, <1>3 DEF Fresh, LoopFrame, IInv, Typed, loops
<1>7. f = [op |-> IF top.op = "add" THEN "discover" ELSE "forget",
           id |-> top.id, ref |-> top.ref, entity |-> top.id, stale |-> FALSE,
           l |-> l, at |-> position(l, top.id)]
  BY <1>6 DEF handler
<1> HIDE DEF g, f, l
<1>8. f.op \in handlers /\ f.l = l /\ f \in Frame
  BY <1>3, <1>6, <1>7, PositionFound, NewHandler DEF handlers
<1> DEFINE s == [stack EXCEPT ![Len(stack)] = g]
<1>9. /\ s \in Seq(Frame) /\ Len(s) = Len(stack)
      /\ \A j \in 1 .. Len(stack) : s[j] = IF j = Len(stack) THEN g ELSE stack[j]
  BY <1>2, <1>5, PlacedAt
<1> HIDE DEF s
<1>s. stack' = Append(s, f)
  BY <1>4 DEF s
<1>10. /\ Len(stack') = Len(stack) + 1
       /\ \A j \in 1 .. Len(stack) : stack'[j] = IF j = Len(stack) THEN g ELSE stack[j]
       /\ stack'[Len(stack) + 1] = f
  BY <1>8, <1>9, <1>s, AppendAt
<1>11. UNCHANGED << nextId, freedIds, live, componentsPresent, callbacks, constructed, ids >>
  BY <1>4 DEF stateVars, idVars, systemVars, live
<1>12. \A j \in 1 .. Len(stack) - 1 : j \in 1 .. Len(stack) /\ j # Len(stack)
  BY <1>2
<1>13. Fired(k)
  BY <1>1, <1>2, <1>m, <1>5, <1>8, <1>10, <1>11, <1>12 DEF Fired, l
<1> QED
  BY <1>3, <1>13

--------------------------------------------------------------------------
(* What the registries know *)

Registered(l) == \E s \in constructed : \E i \in DOMAIN Registries[s] : Registries[s][i] = l
ListedFor(l, c) == \E k \in 1 .. Len(callbacks[c]) : callbacks[c][k] = l

\* The lists hold the registries of the Systems that exist: each in every list
\* of a component it asks about, once.
Lists ==
    /\ \A c \in Comps : \A k \in 1 .. Len(callbacks[c]) :
          c \in Likeness[callbacks[c][k]] /\ Registered(callbacks[c][k])
    /\ \A c \in Comps : \A k, m \in 1 .. Len(callbacks[c]) :
          callbacks[c][k] = callbacks[c][m] => k = m
    /\ \A l \in Listeners : Registered(l) => \A c \in Likeness[l] \intersect Comps : ListedFor(l, c)

Distinct == \A l \in Listeners : \A i, j \in 1 .. Len(ids[l]) : ids[l][i] = ids[l][j] => i = j

\* A registry that is in no list has heard of nothing.
Heard == \A l \in Listeners : ids[l] # << >> => \E c \in Comps : ListedFor(l, c)

\* The registries a loop has passed and that it concerns know of it.
Told ==
    \A j \in 1 .. Len(stack) : \A k \in 1 .. past(j) :
        LET l == callbacks[stack[j].c][k]
        IN  /\ stack[j].op = "add" /\ joins(l, stack[j]) => Contains(ids[l], stack[j].entity)
            /\ stack[j].op = "rem" /\ leaves(l, stack[j]) => ~Contains(ids[l], stack[j].entity)

\* The registry whose discover is running is one that the addition concerns.
Telling ==
    \A j \in 1 .. Len(stack) - 1 : stack[j].op = "add" => joins(stack[j + 1].l, stack[j])

HasTold(l, e) ==
    \E j \in 1 .. Len(stack) :
        /\ stack[j].op = "add" /\ stack[j].entity = e /\ joins(l, stack[j])
        /\ \E k \in 1 .. past(j) : callbacks[stack[j].c][k] = l

\* What a registry holds has the likeness, or is about to get it.
Justified ==
    \A l \in Listeners : \A i \in 1 .. Len(ids[l]) :
        matches(l, ids[l][i]) \/ HasTold(l, ids[l][i])

Known == Lists /\ Distinct /\ Heard /\ Told /\ Telling /\ Justified

\* What a loop is and where it stands.
LEMMA LoopFacts ==
    ASSUME IInv, NEW j \in 1 .. Len(stack), stack[j].op \in loops
    PROVE  /\ stack[j] \in LoopFrame
           /\ stack[j].c \in Comps /\ stack[j].entity \in Ids /\ stack[j].entity \in live
           /\ stack[j].id = stack[j].entity
           /\ stack[j].last = Len(callbacks[stack[j].c])
           /\ stack[j].pos \in 1 .. stack[j].last + 1
           /\ callbacks[stack[j].c] \in Seq(Listeners)
           /\ Len(callbacks[stack[j].c]) \in Nat
<1>1. stack[j] \in Frame /\ stack[j] \in LoopFrame /\ Fresh(stack[j])
  BY FrameFacts DEF IInv, Typed, Good, AllFresh
<1>2. stack[j].c \in Comps /\ stack[j].entity \in Ids /\ callbacks[stack[j].c] \in Seq(Listeners)
  BY <1>1 DEF LoopFrame, IInv, Typed
<1>3. stack[j].entity \in live /\ stack[j].id = stack[j].entity
      /\ stack[j].last = Len(callbacks[stack[j].c])
      /\ stack[j].pos \in 1 .. stack[j].last + 1
  BY <1>1 DEF Fresh, loops, calls
<1> QED
  BY <1>1, <1>2, <1>3

\* The places it has passed are places of its list.
LEMMA PastPlaces ==
    ASSUME IInv, NEW j \in 1 .. Len(stack), stack[j].op \in loops, NEW k \in 1 .. past(j)
    PROVE  k \in 1 .. Len(callbacks[stack[j].c]) /\ callbacks[stack[j].c][k] \in Listeners
<1>1. k \in 1 .. Len(callbacks[stack[j].c])
  BY LoopFacts DEF past
<1> QED
  BY <1>1, LoopFacts

\* At most one loop is about an entity.
LEMMA OneLoop ==
    ASSUME IInv, NEW i \in 1 .. Len(stack), NEW j \in 1 .. Len(stack),
           stack[i].op \in loops, stack[j].op \in calls, stack[i].entity = stack[j].entity,
           stack[j].op \notin clearings
    PROVE  i = j
<1>1. CASE i < j
  <2>1. i \in 1 .. j - 1
    BY <1>1
  <2>2. ApartFrom(stack[i], stack[j])
    BY <2>1 DEF IInv, Good, Apart
  <2> QED
    BY <2>2 DEF ApartFrom, calls, loops, clearings
<1>2. CASE j < i
  <2>1. j \in 1 .. i - 1
    BY <1>2
  <2>2. ApartFrom(stack[j], stack[i])
    BY <2>1 DEF IInv, Good, Apart
  <2> QED
    BY <2>2 DEF ApartFrom, calls, loops, clearings
<1> QED
  BY <1>1, <1>2

\* Below a handler stands the loop that called it.
LEMMA UnderHandler ==
    ASSUME IInv, stack # << >>, top.op \in handlers
    PROVE  LET p == stack[Len(stack) - 1]
           IN  /\ Len(stack) - 1 \in 1 .. Len(stack) /\ Len(stack) \in Nat \ {0}
               /\ p.op = IF top.op = "discover" THEN "add" ELSE "rem"
               /\ top \in HandlerFrame /\ top.l \in Listeners /\ top.id \in Ids
               /\ top.id = p.entity
               /\ p.pos >= 2
               /\ p.pos - 1 \in 1 .. Len(callbacks[p.c])
               /\ top.l = callbacks[p.c][p.pos - 1]
               /\ past(Len(stack) - 1) = p.pos - 2
<1> DEFINE n == Len(stack)
           p == stack[n - 1]
<1>1. n \in Nat \ {0} /\ top = stack[n] /\ top \in HandlerFrame /\ Fresh(top)
  BY TopFacts, FrameFacts
<1>2. stack[1].op \notin handlers
  BY DEF IInv, Good, Shape
<1>3. n - 1 \in 1 .. n - 1 /\ n - 1 \in 1 .. n /\ n - 1 + 1 = n /\ n - 1 # n
  BY <1>1, <1>2
<1> HIDE DEF n
<1>4. Below(p, top) /\ p \in Frame
  <2>1. Below(stack[n - 1], stack[n - 1 + 1])
    BY <1>3 DEF IInv, Good, Shape, n
  <2>2. \A j \in 1 .. Len(stack) : stack[j] \in Frame
    BY DEF IInv, Typed
  <2> QED
    BY <1>1, <1>3, <2>1, <2>2 DEF n
<1>5. p.op \in loops
  BY <1>4, FrameFacts DEF Below, handlers, clearings, loops
<1>6. /\ p.pos >= 2 /\ top.op = (IF p.op = "add" THEN "discover" ELSE "forget")
      /\ top.entity = p.entity /\ top.l = callbacks[p.c][p.pos - 1]
  BY <1>4, <1>5 DEF Below
<1>7. /\ p.last = Len(callbacks[p.c]) /\ p.pos \in 1 .. p.last + 1
      /\ Len(callbacks[p.c]) \in Nat
  BY <1>3, <1>5, LoopFacts DEF n
<1>8. p.pos - 1 \in 1 .. Len(callbacks[p.c])
  BY <1>6, <1>7
<1>9. top.id = top.entity /\ top.l \in Listeners /\ top.id \in Ids
  BY <1>1 DEF Fresh, HandlerFrame, handlers
<1>10. past(n - 1) = p.pos - 2
  BY <1>1, <1>3 DEF past, n
<1> QED
  BY <1>1, <1>3, <1>5, <1>6, <1>8, <1>9, <1>10 DEF loops, n

\* Nothing stands on a loop but a handler.
LEMMA OverLoop ==
    ASSUME IInv, NEW j \in 1 .. Len(stack) - 1, stack[j].op \in loops
    PROVE  stack[j + 1].op \in handlers
<1>1. Below(stack[j], stack[j + 1])
  BY DEF IInv, Good, Shape
<1> QED
  BY <1>1 DEF Below, handlers

\* A call of a method changes nothing the registries know.
LEMMA GrownKnown ==
    ASSUME IInv, Known, Grown
    PROVE  Distinct' /\ Heard' /\ Told' /\ Telling' /\ Justified'
<1>1. /\ UNCHANGED << live, componentsPresent, callbacks, ids >>
      /\ Len(stack) \in Nat
      /\ Len(stack') \in {Len(stack), Len(stack) + 1}
      /\ \A j \in 1 .. Len(stack) :
          /\ Advanced(stack'[j], stack[j])
          /\ stack[j].op \in loops => j # Len(stack)
          /\ stack[j].op \in loops => past(j)' = past(j)
  BY DEF Grown
<1>2. \A j \in 1 .. Len(stack') : j \notin 1 .. Len(stack) => NewFrame(stack'[j])
  BY DEF Grown
<1>3. Distinct' /\ Heard'
  BY <1>1 DEF Known, Distinct, Heard, ListedFor
<1>4. ASSUME NEW j \in 1 .. Len(stack'), stack'[j].op \in loops, NEW k \in 1 .. past(j)'
      PROVE  /\ j \in 1 .. Len(stack) /\ k \in 1 .. past(j)
             /\ stack[j].op = stack'[j].op /\ stack[j].c = stack'[j].c
             /\ stack[j].entity = stack'[j].entity
  <2>1. CASE j \notin 1 .. Len(stack)
    <3>1. stack'[j].pos = 1
      BY <1>2, <1>4, <2>1 DEF NewFrame
    <3>2. past(j)' \in {0, -1}
      BY <3>1 DEF past
    <3> QED
      BY <1>4, <3>2
  <2>2. CASE j \in 1 .. Len(stack)
    BY <1>1, <1>4, <2>2 DEF Advanced, loops
  <2> QED
    BY <2>1, <2>2
<1>5. Told'
  <2>1. ASSUME NEW j \in 1 .. Len(stack'), NEW k \in 1 .. past(j)', stack'[j].op \in loops,
               NEW l, l = callbacks'[stack'[j].c][k]
        PROVE  /\ stack'[j].op = "add" /\ joins(l, stack[j])' => Contains(ids'[l], stack'[j].entity)
               /\ stack'[j].op = "rem" /\ leaves(l, stack[j])' => ~Contains(ids'[l], stack'[j].entity)
    BY <1>1, <1>4, <2>1 DEF Known, Told, joins, leaves
  <2> QED
    BY <2>1 DEF Told, loops
<1>6. Telling'
  <2>1. ASSUME NEW j \in 1 .. Len(stack') - 1, stack'[j].op = "add"
        PROVE  joins(stack[j + 1].l, stack[j])'
    <3>1. j \in 1 .. Len(stack) /\ Advanced(stack'[j], stack[j])
      BY <1>1, <2>1
    <3>2. stack[j].op = "add" /\ j # Len(stack)
      BY <1>1, <2>1, <3>1 DEF Advanced, loops
    <3>3. j \in 1 .. Len(stack) - 1 /\ j + 1 \in 1 .. Len(stack)
      BY <1>1, <3>1, <3>2
    <3>4. joins(stack[j + 1].l, stack[j]) /\ stack[j + 1].op \in handlers
      BY <3>2, <3>3, OverLoop DEF Known, Telling, loops
    <3>5. Advanced(stack'[j + 1], stack[j + 1])
      BY <1>1, <3>3
    <3>6. stack'[j + 1].l = stack[j + 1].l /\ stack'[j].c = stack[j].c /\ stack'[j].entity = stack[j].entity
      BY <3>1, <3>2, <3>4, <3>5 DEF Advanced, loops
    <3> QED
      BY <1>1, <3>4, <3>6 DEF joins
  <2> QED
    BY <2>1 DEF Telling
<1>7. Justified'
  <2>1. ASSUME NEW l \in Listeners, NEW e, HasTold(l, e) PROVE HasTold(l, e)'
    <3>1. PICK j \in 1 .. Len(stack) :
            /\ stack[j].op = "add" /\ stack[j].entity = e /\ joins(l, stack[j])
            /\ \E k \in 1 .. past(j) : callbacks[stack[j].c][k] = l
      BY <2>1 DEF HasTold
    <3>2. j \in 1 .. Len(stack')
      BY <1>1
    <3>3. Advanced(stack'[j], stack[j]) /\ past(j)' = past(j)
      BY <1>1, <3>1 DEF loops
    <3>4. /\ stack'[j].op = "add" /\ stack'[j].entity = e /\ joins(l, stack[j])'
          /\ stack'[j].c = stack[j].c
      BY <1>1, <3>1, <3>3 DEF Advanced, joins, loops
    <3> QED
      BY <1>1, <3>1, <3>2, <3>3, <3>4 DEF HasTold
  <2> QED
    BY <1>1, <2>1 DEF Known, Justified, matches
<1> QED
  BY <1>3, <1>5, <1>6, <1>7

\* A loop passes the callbacks it need not fire, and comes to the next.
LEMMA FiredKnown ==
    ASSUME IInv, Known, NEW k \in Nat, Fired(k)
    PROVE  Distinct' /\ Heard' /\ Told' /\ Telling' /\ Justified'
<1>n. PICK n \in Nat : n = Len(stack)
  BY DEF Fired
<1>1. /\ n \in Nat \ {0} /\ n \in 1 .. Len(stack) /\ top = stack[n] /\ top.op \in loops
      /\ k \in toFire(top) /\ \A m \in toFire(top) : k <= m
      /\ Len(stack') = n + 1
      /\ \A j \in 1 .. n - 1 : stack'[j] = stack[j]
      /\ Advanced(stack'[n], stack[n]) /\ stack'[n].pos = k + 1
      /\ stack'[n + 1].op \in handlers /\ stack'[n + 1].l = callbacks[top.c][k]
      /\ UNCHANGED << live, componentsPresent, callbacks, ids >>
  <2>1. n \in Nat \ {0} /\ top = stack[n]
    BY <1>n DEF Fired
  <2>2. n \in 1 .. Len(stack)
    BY <1>n, <2>1
  <2> QED
    BY <1>n, <2>1, <2>2, Zenon DEF Fired
<1>2. /\ top.pos \in 1 .. top.last + 1 /\ top.last = Len(callbacks[top.c])
      /\ Len(callbacks[top.c]) \in Nat /\ top.id = top.entity
  BY <1>1, LoopFacts
<1>3. k \in top.pos .. top.last /\ (top.op = "add" => joins(callbacks[top.c][k], top))
  BY <1>1 DEF toFire, joins
<1>4. /\ \A j \in 1 .. n - 1 : past(j)' = past(j)
      /\ past(n) = top.pos - 1 /\ past(n)' = k - 1
      /\ \A j \in 1 .. n - 1 : j \in 1 .. Len(stack)
  <2>1. \A j \in 1 .. n - 1 : j \in 1 .. n /\ j # n /\ j # n + 1
    BY <1>1
  <2>2. n # n + 1 /\ k + 1 - 2 = k - 1
    BY <1>1
  <2> QED
    BY <1>n, <1>1, <2>1, <2>2 DEF past
<1>5. stack'[n].op = top.op /\ stack'[n].c = top.c /\ stack'[n].entity = top.entity
  BY <1>1 DEF Advanced, loops
<1>6. Distinct' /\ Heard'
  BY <1>1 DEF Known, Distinct, Heard, ListedFor
<1>7. Told'
  <2>1. ASSUME NEW j \in 1 .. Len(stack'), NEW m \in 1 .. past(j)', stack'[j].op \in loops,
               NEW l, l = callbacks'[stack'[j].c][m]
        PROVE  /\ stack'[j].op = "add" /\ joins(l, stack[j])' => Contains(ids'[l], stack'[j].entity)
               /\ stack'[j].op = "rem" /\ leaves(l, stack[j])' => ~Contains(ids'[l], stack'[j].entity)
    <3>1. CASE j \in 1 .. n - 1
      BY <1>1, <1>4, <2>1, <3>1 DEF Known, Told, joins, leaves
    <3>2. CASE j = n
      <4>1. CASE m < top.pos
        <5>1. m \in 1 .. past(n)
          BY <1>2, <1>3, <1>4, <2>1, <3>2, <4>1
        <5> QED
          BY <1>1, <1>5, <2>1, <3>2, <5>1 DEF Known, Told, joins, leaves
      <4>2. CASE ~(m < top.pos)
        <5>1. m \in top.pos .. top.last /\ m < k
          BY <1>2, <1>3, <1>4, <2>1, <3>2, <4>2
        <5>2. m \notin toFire(top)
          BY <1>1, <1>2, <1>3, <5>1
        <5>3. ~(IF top.op = "add" THEN joins(l, top) ELSE leaves(l, top) /\ Contains(ids[l], top.id))
          BY <1>1, <1>5, <2>1, <3>2, <5>1, <5>2 DEF toFire, joins, leaves
        <5> QED
          BY <1>1, <1>2, <1>5, <3>2, <5>3 DEF joins, leaves
      <4> QED
        BY <4>1, <4>2
    <3>3. CASE j = n + 1
      BY <1>1, <2>1, <3>3 DEF handlers, loops
    <3> QED
      BY <1>1, <2>1, <3>1, <3>2, <3>3
  <2> QED
    BY <2>1 DEF Told, loops
<1>8. Telling'
  <2>1. ASSUME NEW j \in 1 .. Len(stack') - 1, stack'[j].op = "add"
        PROVE  joins(stack[j + 1].l, stack[j])'
    <3>1. CASE j = n
      BY <1>1, <1>3, <1>5, <2>1, <3>1 DEF joins
    <3>2. CASE j # n
      <4>1. j \in 1 .. n - 1 /\ j \in 1 .. Len(stack) - 1 /\ j + 1 \in 1 .. n
        BY <1>n, <1>1, <2>1, <3>2
      <4>2. stack'[j] = stack[j] /\ stack[j].op \in loops
        BY <1>1, <2>1, <4>1 DEF loops
      <4>3. stack[j + 1].op \in handlers
        BY <4>1, <4>2, OverLoop
      <4>4. j + 1 # n
        BY <1>1, <4>3 DEF loops, handlers
      <4>5. j + 1 \in 1 .. n - 1
        BY <1>1, <4>1, <4>4
      <4> QED
        BY <1>1, <2>1, <4>1, <4>2, <4>5 DEF Known, Telling, joins
    <3> QED
      BY <3>1, <3>2
  <2> QED
    BY <2>1 DEF Telling
<1>9. Justified'
  <2>1. ASSUME NEW l \in Listeners, NEW e, HasTold(l, e) PROVE HasTold(l, e)'
    <3>1. PICK j \in 1 .. Len(stack) :
            /\ stack[j].op = "add" /\ stack[j].entity = e /\ joins(l, stack[j])
            /\ \E m \in 1 .. past(j) : callbacks[stack[j].c][m] = l
      BY <2>1 DEF HasTold
    <3>2. j \in 1 .. Len(stack')
      BY <1>n, <1>1
    <3>3. /\ stack'[j].op = "add" /\ stack'[j].entity = e /\ joins(l, stack[j])'
          /\ stack'[j].c = stack[j].c
      <4>1. j = n \/ j \in 1 .. n - 1
        BY <1>n, <1>1
      <4> QED
        BY <1>1, <1>5, <3>1, <4>1 DEF joins
    <3>4. \A m \in 1 .. past(j) : m \in 1 .. past(j)'
      <4>1. j = n \/ j \in 1 .. n - 1
        BY <1>n, <1>1
      <4> QED
        BY <1>2, <1>3, <1>4, <3>1, <4>1 DEF loops
    <3> QED
      BY <1>1, <3>1, <3>2, <3>3, <3>4 DEF HasTold
  <2> QED
    BY <1>1, <2>1 DEF Known, Justified, matches
<1> QED
  BY <1>6, <1>7, <1>8, <1>9

\* When a call returns that is about an entity, no loop below is; and no loop
\* has been passed by another callback.
LEMMA BelowCall ==
    ASSUME IInv, Shrunk, top.op \in calls \union {"clear"}
    PROVE  /\ \A j \in 1 .. Len(stack) - 1 : stack[j].op \in loops =>
                 past(j)' = past(j) /\ j # Len(stack) - 1
           /\ \A j \in 1 .. Len(stack) - 1 : stack[j].op \in loops /\ top.op \in calls =>
                 stack[j].entity # top.entity
<1>1. Len(stack) \in Nat \ {0} /\ top = stack[Len(stack)]
  BY TopFacts DEF Shrunk
<1>2. ASSUME NEW j \in 1 .. Len(stack) - 1, stack[j].op \in loops
      PROVE  past(j)' = past(j) /\ j # Len(stack) - 1
  <2>1. j # Len(stack) - 1
    <3>1. stack[j + 1].op \in handlers
      BY <1>2, OverLoop
    <3> QED
      BY <1>1, <3>1 DEF handlers, calls
  <2> QED
    BY <1>1, <2>1 DEF Shrunk, past
<1>3. ASSUME NEW j \in 1 .. Len(stack) - 1, stack[j].op \in loops, top.op \in calls
      PROVE  stack[j].entity # top.entity
  BY <1>3, AboutTop DEF Shrunk, loops, calls, clearings
<1> QED
  BY <1>2, <1>3

\* What has been told stays told when a call returns that changes no mask but
\* that of its entity.
LEMMA ReturnedTold ==
    ASSUME IInv, Known, Shrunk, top.op \in calls \union {"clear"}, UNCHANGED ids,
           \A id \in Ids : top.op = "clear" \/ id # top.entity =>
              componentsPresent'[id] = componentsPresent[id]
    PROVE  /\ Distinct' /\ Heard' /\ Told' /\ Telling'
           /\ \A l \in Listeners : \A e \in Ids :
                 HasTold(l, e) =>
                    \/ HasTold(l, e)'
                    \/ top.op = "add" /\ e = top.entity /\ joins(l, top)
<1>n. PICK n \in Nat \ {0} : n = Len(stack)
  BY DEF Shrunk
<1>1. /\ top = stack[n]
      /\ Len(stack') = n - 1
      /\ \A j \in 1 .. n - 1 : stack'[j] = stack[j] /\ j \in 1 .. Len(stack)
      /\ UNCHANGED << callbacks, ids >>
  BY <1>n, TopFacts DEF Shrunk
<1>2. ASSUME NEW j \in 1 .. n - 1, stack[j].op \in loops
      PROVE  /\ past(j)' = past(j) /\ j # n - 1
             /\ componentsPresent'[stack[j].entity] = componentsPresent[stack[j].entity]
  <2>1. past(j)' = past(j) /\ j # n - 1 /\ (top.op \in calls => stack[j].entity # top.entity)
    BY <1>n, <1>2, BelowCall
  <2>2. stack[j].entity \in Ids
    BY <1>1, <1>2, LoopFacts
  <2> QED
    BY <2>1, <2>2
<1>3. Distinct' /\ Heard'
  BY <1>1 DEF Known, Distinct, Heard, ListedFor
<1>4. Told'
  <2>1. ASSUME NEW j \in 1 .. Len(stack'), NEW m \in 1 .. past(j)', stack'[j].op \in loops,
               NEW l, l = callbacks'[stack'[j].c][m]
        PROVE  /\ stack'[j].op = "add" /\ joins(l, stack[j])' => Contains(ids'[l], stack'[j].entity)
               /\ stack'[j].op = "rem" /\ leaves(l, stack[j])' => ~Contains(ids'[l], stack'[j].entity)
    <3>1. j \in 1 .. n - 1 /\ stack'[j] = stack[j] /\ m \in 1 .. past(j) /\ j \in 1 .. Len(stack)
      BY <1>1, <1>2, <2>1
    <3> QED
      BY <1>1, <1>2, <2>1, <3>1 DEF Known, Told, joins, leaves
  <2> QED
    BY <2>1 DEF Told, loops
<1>5. Telling'
  <2>1. ASSUME NEW j \in 1 .. Len(stack') - 1, stack'[j].op = "add"
        PROVE  joins(stack[j + 1].l, stack[j])'
    <3>1. j \in 1 .. n - 1 /\ j + 1 \in 1 .. n - 1 /\ j \in 1 .. Len(stack) - 1
      BY <1>n, <1>1, <2>1
    <3> QED
      BY <1>1, <1>2, <2>1, <3>1 DEF Known, Telling, joins, loops
  <2> QED
    BY <2>1 DEF Telling
<1>6. ASSUME NEW l \in Listeners, NEW e \in Ids, HasTold(l, e)
      PROVE  HasTold(l, e)' \/ (top.op = "add" /\ e = top.entity /\ joins(l, top))
  <2>1. PICK j \in 1 .. Len(stack) :
          /\ stack[j].op = "add" /\ stack[j].entity = e /\ joins(l, stack[j])
          /\ \E m \in 1 .. past(j) : callbacks[stack[j].c][m] = l
    BY <1>6 DEF HasTold
  <2>2. CASE j = n
    BY <1>1, <2>1, <2>2
  <2>3. CASE j # n
    <3>1. j \in 1 .. n - 1 /\ j \in 1 .. Len(stack')
      BY <1>n, <1>1, <2>3
    <3>2. past(j)' = past(j) /\ stack'[j] = stack[j] /\ joins(l, stack[j])'
      BY <1>1, <1>2, <2>1, <3>1 DEF joins, loops
    <3>3. HasTold(l, e)'
      BY <1>1, <2>1, <3>1, <3>2 DEF HasTold
    <3> QED
      BY <3>3
  <2> QED
    BY <2>2, <2>3
<1> QED
  BY <1>3, <1>4, <1>5, <1>6

\* The registry that is in a list somewhere is in every list it asks for.
LEMMA ListedEverywhere ==
    ASSUME IInv, Known, NEW l \in Listeners, ids[l] # << >>
    PROVE  /\ \E c \in Comps : c \in Likeness[l]
           /\ \A c \in Comps : c \in Likeness[l] => ListedFor(l, c)
<1>1. PICK c \in Comps : ListedFor(l, c)
  BY DEF Known, Heard
<1>2. c \in Likeness[l] /\ Registered(l)
  BY <1>1 DEF Known, Lists, ListedFor
<1> QED
  BY <1>2 DEF Known, Lists

\* A registry that holds an id is not empty.
LEMMA HoldsSome ==
    ASSUME IInv, NEW l \in Listeners, NEW i \in 1 .. Len(ids[l])
    PROVE  ids[l] # << >> /\ ids[l][i] \in Ids /\ Contains(ids[l], ids[l][i])
<1>1. ids[l] \in Seq(Ids)
  BY DEF IInv, Typed
<1> QED
  BY <1>1 DEF Contains

\* When addComp returns, whoever was told of the entity is right,
LEMMA AddCompReturnsKnown ==
    ASSUME IInv, Known, addCompReturns
    PROVE  Distinct' /\ Heard' /\ Told' /\ Telling' /\ Justified'
<1>1. /\ Shrunk /\ top.op = "add"
      /\ componentsPresent' = [componentsPresent EXCEPT ![top.entity] = @ \union {top.c}]
      /\ UNCHANGED ids
  BY AddCompShrinks
<1>2. top.op \in calls
  BY <1>1 DEF calls
<1>3. top.entity \in Ids
  BY <1>1, TopFacts, FrameFacts DEF Shrunk, loops, LoopFrame
<1>4. /\ componentsPresent'[top.entity] = componentsPresent[top.entity] \union {top.c}
      /\ \A id \in Ids : id # top.entity => componentsPresent'[id] = componentsPresent[id]
  BY <1>1, <1>3 DEF IInv, Typed
<1>5. /\ Distinct' /\ Heard' /\ Told' /\ Telling'
      /\ \A l \in Listeners : \A e \in Ids :
            HasTold(l, e) => HasTold(l, e)' \/ (e = top.entity /\ joins(l, top))
  BY <1>1, <1>2, <1>4, ReturnedTold
<1>6. Justified'
  <2>1. ASSUME NEW l \in Listeners, NEW e \in Ids, e = top.entity, joins(l, top)
        PROVE  matches(l, e)'
    BY <1>4, <2>1 DEF joins, shouldFireAdditionDlgt, matches
  <2>2. ASSUME NEW l \in Listeners, NEW e \in Ids, matches(l, e) PROVE matches(l, e)'
    BY <1>4, <2>2 DEF matches
  <2> QED
    BY <1>1, <1>5, <2>1, <2>2, HoldsSome DEF Known, Justified
<1> QED
  BY <1>5, <1>6

\* when remCompNoChecks returns no registry holds the entity that should not,
LEMMA RemCompReturnsKnown ==
    ASSUME IInv, Known, remCompReturns
    PROVE  Distinct' /\ Heard' /\ Told' /\ Telling' /\ Justified'
<1>1. /\ Shrunk /\ top.op = "rem" /\ toFire(top) = {}
      /\ componentsPresent' = [componentsPresent EXCEPT ![top.entity] = @ \ {top.c}]
      /\ UNCHANGED ids
  BY RemCompShrinks
<1>2. top.op \in calls /\ top.op \in loops
  BY <1>1 DEF calls, loops
<1>n. Len(stack) \in 1 .. Len(stack) /\ top = stack[Len(stack)]
  BY <1>1, TopFacts DEF Shrunk
<1>3. /\ top.entity \in Ids /\ top.id = top.entity /\ top.c \in Comps
      /\ top.last = Len(callbacks[top.c]) /\ top.pos \in 1 .. top.last + 1 /\ top.last \in Nat
  BY <1>2, <1>n, LoopFacts
<1>4. /\ componentsPresent'[top.entity] = componentsPresent[top.entity] \ {top.c}
      /\ \A id \in Ids : id # top.entity => componentsPresent'[id] = componentsPresent[id]
  BY <1>1, <1>3 DEF IInv, Typed
<1>5. /\ Distinct' /\ Heard' /\ Told' /\ Telling'
      /\ \A l \in Listeners : \A e \in Ids : HasTold(l, e) => HasTold(l, e)'
  BY <1>1, <1>2, <1>4, ReturnedTold
<1>6. ASSUME NEW l \in Listeners, NEW e, e = top.entity,
             Contains(ids[l], e), ids[l] # << >>, matches(l, e)
      PROVE  matches(l, e)'
  <2>1. CASE top.c \notin Likeness[l]
    BY <1>4, <1>6, <2>1 DEF matches
  <2>2. CASE top.c \in Likeness[l]
    <3>1. leaves(l, top)
      BY <1>6, <2>2 DEF leaves, shouldFireRemovalDlgt, matches
    <3>2. PICK k \in 1 .. Len(callbacks[top.c]) : callbacks[top.c][k] = l
      BY <1>3, <1>6, <2>2, ListedEverywhere DEF ListedFor
    <3>3. CASE k < top.pos
      <4>1. k \in 1 .. past(Len(stack))
        BY <1>3, <1>n, <3>2, <3>3 DEF past
      <4> QED
        BY <1>1, <1>6, <1>n, <3>1, <3>2, <4>1 DEF Known, Told
    <3>4. CASE ~(k < top.pos)
      <4>1. k \in top.pos .. top.last
        BY <1>3, <3>2, <3>4
      <4>2. k \in toFire(top)
        BY <1>1, <1>3, <1>6, <3>1, <3>2, <4>1 DEF toFire, leaves
      <4> QED
        BY <1>1, <4>2
    <3> QED
      BY <3>3, <3>4
  <2> QED
    BY <2>1, <2>2
<1>7. Justified'
  <2>1. ASSUME NEW l \in Listeners, NEW e \in Ids, e # top.entity, matches(l, e) PROVE matches(l, e)'
    BY <1>4, <2>1 DEF matches
  <2> QED
    BY <1>1, <1>5, <1>6, <2>1, HoldsSome DEF Known, Justified
<1> QED
  BY <1>5, <1>7

\* and when deleteEntity returns no registry holds the entity.
LEMMA DeleteReturnsKnown ==
    ASSUME IInv, Known, deleteEntityReturns, componentsPresent[top.entity] = {EXISTENCE}
    PROVE  Distinct' /\ Heard' /\ Told' /\ Telling' /\ Justified'
<1>1. /\ Shrunk /\ top.op = "deleteEntity"
      /\ componentsPresent' = [componentsPresent EXCEPT ![top.entity] = {}]
      /\ UNCHANGED ids
  BY DeleteShrinks
<1>2. top.op \in calls /\ top.op # "add"
  BY <1>1 DEF calls
<1>3. top.entity \in Ids
  BY <1>1, TopFacts, FrameFacts DEF Shrunk, clearings, ClearingFrame
<1>4. \A id \in Ids : id # top.entity => componentsPresent'[id] = componentsPresent[id]
  BY <1>1, <1>3 DEF IInv, Typed
<1>5. /\ Distinct' /\ Heard' /\ Told' /\ Telling'
      /\ \A l \in Listeners : \A e \in Ids : HasTold(l, e) => HasTold(l, e)'
  BY <1>1, <1>2, <1>4, ReturnedTold
<1>6. Justified'
  <2>1. ASSUME NEW l \in Listeners, ids[l] # << >> PROVE ~matches(l, top.entity)
    <3>1. PICK c \in Comps : c \in Likeness[l]
      BY <2>1, ListedEverywhere
    <3> QED
      BY <3>1, CompsAssumption DEF matches
  <2>2. ASSUME NEW l \in Listeners, NEW e \in Ids, e # top.entity, matches(l, e) PROVE matches(l, e)'
    BY <1>4, <2>2 DEF matches
  <2> QED
    BY <1>1, <1>5, <2>1, <2>2, HoldsSome DEF Known, Justified
<1> QED
  BY <1>5, <1>6

\* The other returns change nothing that a registry could know.
LEMMA QuietReturnKnown ==
    ASSUME IInv, Known,
           \/ clearEntityReturns \/ clearReturns
           \/ deleteEntityReturns /\ componentsPresent[top.entity] # {EXISTENCE}
    PROVE  Distinct' /\ Heard' /\ Told' /\ Telling' /\ Justified'
<1>1. /\ Shrunk /\ top.op \in clearings \union {"clear"}
      /\ UNCHANGED << componentsPresent, ids >>
  BY QuietShrinks
<1>2. top.op \in calls \union {"clear"} /\ top.op # "add"
  BY <1>1 DEF calls, clearings
<1>3. /\ Distinct' /\ Heard' /\ Told' /\ Telling'
      /\ \A l \in Listeners : \A e \in Ids : HasTold(l, e) => HasTold(l, e)'
  BY <1>1, <1>2, ReturnedTold
<1>4. Justified'
  BY <1>1, <1>3, HoldsSome DEF Known, Justified, matches
<1> QED
  BY <1>3, <1>4

\* When a handler returns, only the loop that called it is further than it was.
LEMMA HandlerReturned ==
    ASSUME IInv, Shrunk, top.op \in handlers, NEW n, n = Len(stack)
    PROVE  /\ n \in Nat /\ n - 1 \in 1 .. n - 1
           /\ \A j \in 1 .. n - 1 : j \in 1 .. Len(stack) /\ stack'[j] = stack[j]
           /\ Len(stack') = n - 1
           /\ past(n - 1)' = stack[n - 1].pos - 1
           /\ past(n - 1) = stack[n - 1].pos - 2
           /\ stack[n - 1].pos >= 2 /\ stack[n - 1].pos \in Nat
           /\ \A j \in 1 .. n - 1 : j # n - 1 => past(j)' = past(j)
<1>1. /\ n \in Nat \ {0}
      /\ Len(stack') = n - 1
      /\ \A j \in 1 .. n - 1 : stack'[j] = stack[j]
  BY DEF Shrunk
<1>2. /\ n - 1 \in 1 .. Len(stack) /\ stack[n - 1].op \in loops /\ stack[n - 1].pos >= 2
      /\ past(n - 1) = stack[n - 1].pos - 2
  BY <1>1, UnderHandler DEF Shrunk, loops
<1>3. stack[n - 1].pos \in Nat
  BY <1>2, LoopFacts DEF LoopFrame
<1>4. n - 1 \in 1 .. n - 1 /\ \A j \in 1 .. n - 1 : j \in 1 .. Len(stack) /\ j # n
  BY <1>1, <1>2
<1>5. past(n - 1)' = stack[n - 1].pos - 1
  BY <1>1, <1>4 DEF past
<1>6. \A j \in 1 .. n - 1 : j # n - 1 => past(j)' = past(j)
  BY <1>1, <1>4 DEF past
<1> QED
  BY <1>1, <1>2, <1>3, <1>4, <1>5, <1>6

\* Then what loops have told stays told.
LEMMA HandlerReturnedTold ==
    ASSUME IInv, Known, Shrunk, top.op \in handlers, UNCHANGED componentsPresent
    PROVE  /\ Telling'
           /\ \A m \in Listeners : \A x : HasTold(m, x) => HasTold(m, x)'
<1>1. stack # << >> /\ UNCHANGED << componentsPresent, callbacks >>
  BY DEF Shrunk
<1>n. PICK n \in Nat \ {0} : n = Len(stack)
  BY DEF Shrunk
<1>p. PICK p : p = stack[n - 1]
  OBVIOUS
<1>3. /\ n - 1 \in 1 .. n - 1
      /\ \A j \in 1 .. n - 1 : j \in 1 .. Len(stack) /\ stack'[j] = stack[j]
      /\ Len(stack') = n - 1
      /\ past(n - 1)' = p.pos - 1 /\ past(n - 1) = p.pos - 2 /\ p.pos \in Nat
      /\ \A j \in 1 .. n - 1 : j # n - 1 => past(j)' = past(j)
  BY <1>n, <1>p, HandlerReturned
<1>13. Telling'
  <2>1. ASSUME NEW j \in 1 .. Len(stack') - 1, stack'[j].op = "add"
        PROVE  joins(stack[j + 1].l, stack[j])'
    <3>1. j \in 1 .. n - 1 /\ j + 1 \in 1 .. n - 1 /\ j \in 1 .. Len(stack) - 1
      BY <1>n, <1>3, <2>1
    <3> QED
      BY <1>1, <1>3, <2>1, <3>1 DEF Known, Telling, joins
  <2> QED
    BY <2>1 DEF Telling
<1>14. ASSUME NEW m \in Listeners, NEW x, HasTold(m, x) PROVE HasTold(m, x)'
  <2>1. PICK j \in 1 .. Len(stack) :
          /\ stack[j].op = "add" /\ stack[j].entity = x /\ joins(m, stack[j])
          /\ \E k \in 1 .. past(j) : callbacks[stack[j].c][k] = m
    BY <1>14 DEF HasTold
  <2>2. j \in 1 .. n - 1
    <3>1. top = stack[n]
      BY <1>1, <1>n, TopFacts
    <3> QED
      BY <1>1, <1>n, <2>1, <3>1 DEF handlers
  <2>3. j \in 1 .. Len(stack') /\ stack'[j] = stack[j] /\ joins(m, stack[j])'
    BY <1>1, <1>3, <2>1, <2>2 DEF joins
  <2>4. \A k \in 1 .. past(j) : k \in 1 .. past(j)'
    <3>1. CASE j = n - 1
      BY <1>3, <3>1
    <3>2. CASE j # n - 1
      BY <1>3, <2>2, <3>2
    <3> QED
      BY <3>1, <3>2
  <2> QED
    BY <1>1, <2>1, <2>3, <2>4 DEF HasTold
<1> QED
  BY <1>13, <1>14

\* A registry that is told holds the id once, because it had not been told.
LEMMA DiscoverReturnsKnown ==
    ASSUME IInv, Disciplined, Known, discoverReturns
    PROVE  Distinct' /\ Heard' /\ Told' /\ Telling' /\ Justified'
<1>1. /\ Shrunk /\ top.op = "discover" /\ stack # << >>
      /\ ids' = [ids EXCEPT ![top.l] = Append(ids[top.l], top.id)]
      /\ UNCHANGED << componentsPresent, callbacks >>
  BY DiscoverShrinks DEF Shrunk, stateVars
<1>h. top.op \in handlers
  BY <1>1 DEF handlers
<1>n. PICK n \in Nat \ {0} : n = Len(stack)
  BY <1>1 DEF Shrunk
<1>l. PICK l \in Listeners : l = top.l
  BY <1>1, <1>h, UnderHandler
<1>e. PICK e \in Ids : e = top.id
  BY <1>1, <1>h, UnderHandler
<1>p. PICK p : p = stack[n - 1]
  OBVIOUS
<1>2. /\ n - 1 \in 1 .. Len(stack) /\ p.op = "add" /\ p.entity = e
      /\ p.pos - 1 \in 1 .. Len(callbacks[p.c])
      /\ l = callbacks[p.c][p.pos - 1] /\ p.c \in Comps /\ p.pos \in Nat
  <2>1. /\ n - 1 \in 1 .. Len(stack) /\ p.op = "add" /\ p.entity = e
        /\ p.pos - 1 \in 1 .. Len(callbacks[p.c]) /\ l = callbacks[p.c][p.pos - 1]
    BY <1>1, <1>h, <1>n, <1>l, <1>e, <1>p, UnderHandler
  <2>2. p.c \in Comps /\ p \in LoopFrame
    BY <1>p, <2>1, LoopFacts DEF loops
  <2> QED
    BY <2>1, <2>2 DEF LoopFrame
<1>3. /\ n - 1 \in 1 .. n - 1
      /\ \A j \in 1 .. n - 1 : j \in 1 .. Len(stack) /\ stack'[j] = stack[j]
      /\ Len(stack') = n - 1
      /\ past(n - 1)' = p.pos - 1 /\ past(n - 1) = p.pos - 2
      /\ \A j \in 1 .. n - 1 : j # n - 1 => past(j)' = past(j)
  BY <1>1, <1>h, <1>n, <1>p, HandlerReturned
<1>4. joins(l, p)
  <2>1. n - 1 \in 1 .. Len(stack) - 1 /\ n - 1 + 1 = n /\ top = stack[n]
    BY <1>1, <1>n, <1>3, TopFacts
  <2> QED
    BY <1>l, <1>p, <1>2, <2>1 DEF Known, Telling
<1>5. ~matches(l, e)
  BY <1>2, <1>4 DEF joins, matches, shouldFireAdditionDlgt
<1>6. ASSUME NEW i \in 1 .. Len(ids[l]), ids[l][i] = e PROVE FALSE
  <2>1. HasTold(l, e)
    BY <1>5, <1>6 DEF Known, Justified
  <2>2. PICK j \in 1 .. Len(stack) :
          /\ stack[j].op = "add" /\ stack[j].entity = e
          /\ \E k \in 1 .. past(j) : callbacks[stack[j].c][k] = l
    BY <2>1 DEF HasTold
  <2>3. j = n - 1
    BY <1>2, <1>p, <2>2, OneLoop DEF loops, calls, clearings
  <2>4. PICK k \in 1 .. past(n - 1) : callbacks[p.c][k] = l
    BY <1>p, <2>2, <2>3
  <2>5. k \in 1 .. Len(callbacks[p.c]) /\ k # p.pos - 1
    BY <1>2, <1>3, <2>4
  <2> QED
    BY <1>2, <2>4, <2>5 DEF Known, Lists
<1>7. /\ ids[l] \in Seq(Ids) /\ Len(ids[l]) \in Nat
      /\ ids'[l] = Append(ids[l], e)
      /\ \A m \in Listeners : m # l => ids'[m] = ids[m]
  BY <1>1, <1>l, <1>e DEF IInv, Typed
<1>8. /\ Len(ids'[l]) = Len(ids[l]) + 1
      /\ \A i \in 1 .. Len(ids[l]) : ids'[l][i] = ids[l][i]
      /\ ids'[l][Len(ids[l]) + 1] = e
  BY <1>7, AppendAt
<1>9. ASSUME NEW m \in Listeners, NEW x
      PROVE  Contains(ids'[m], x) <=> Contains(ids[m], x) \/ (m = l /\ x = e)
  <2>1. CASE m = l
    <3>1. \A i \in 1 .. Len(ids[l]) + 1 : i \in 1 .. Len(ids[l]) \/ i = Len(ids[l]) + 1
      BY <1>7
    <3>2. Len(ids[l]) + 1 \in 1 .. Len(ids[l]) + 1 /\ \A i \in 1 .. Len(ids[l]) : i \in 1 .. Len(ids[l]) + 1
      BY <1>7
    <3> QED
      BY <1>8, <2>1, <3>1, <3>2 DEF Contains
  <2> QED
    BY <1>7, <2>1
<1>10. Distinct'
  <2>1. ASSUME NEW i \in 1 .. Len(ids'[l]), NEW j \in 1 .. Len(ids'[l]), ids'[l][i] = ids'[l][j]
        PROVE  i = j
    <3>1. /\ i \in 1 .. Len(ids[l]) \/ i = Len(ids[l]) + 1
          /\ j \in 1 .. Len(ids[l]) \/ j = Len(ids[l]) + 1
      BY <1>7, <1>8
    <3> QED
      BY <1>6, <1>8, <2>1, <3>1 DEF Known, Distinct
  <2> QED
    BY <1>7, <2>1 DEF Known, Distinct
<1>11. Heard'
  <2>1. ListedFor(l, p.c)
    BY <1>2 DEF ListedFor
  <2> QED
    <3>1. callbacks' = callbacks
      BY <1>1
    <3>2. ASSUME NEW m \in Listeners, ids'[m] # << >>
          PROVE  \E c \in Comps : ListedFor(m, c)
      BY <1>2, <1>7, <2>1, <3>2 DEF Known, Heard
    <3>3. \A m \in Listeners, c \in Comps : ListedFor(m, c) => ListedFor(m, c)'
      BY <3>1 DEF ListedFor
    <3> QED
      BY <3>2, <3>3 DEF Heard
<1>12. Told'
  <2>1. ASSUME NEW j \in 1 .. Len(stack'), NEW k \in 1 .. past(j)', stack'[j].op \in loops,
               NEW m, m = callbacks'[stack'[j].c][k]
        PROVE  /\ stack'[j].op = "add" /\ joins(m, stack[j])' => Contains(ids'[m], stack'[j].entity)
               /\ stack'[j].op = "rem" /\ leaves(m, stack[j])' => ~Contains(ids'[m], stack'[j].entity)
    <3>1. j \in 1 .. n - 1 /\ stack'[j] = stack[j] /\ j \in 1 .. Len(stack)
      BY <1>3, <2>1
    <3>2. CASE k \in 1 .. past(j)
      <4>1. m \in Listeners
        BY <1>1, <2>1, <3>1, <3>2, PastPlaces
      <4>2. /\ stack[j].op = "add" /\ joins(m, stack[j]) => Contains(ids[m], stack[j].entity)
            /\ stack[j].op = "rem" /\ leaves(m, stack[j]) => ~Contains(ids[m], stack[j].entity)
        BY <1>1, <2>1, <3>1, <3>2 DEF Known, Told
      <4>3. stack[j].op = "rem" => stack[j].entity # e
        BY <1>2, <1>p, <3>1, OneLoop DEF loops, calls, clearings
      <4> QED
        BY <1>1, <1>9, <3>1, <4>1, <4>2, <4>3 DEF joins, leaves
    <3>3. CASE k \notin 1 .. past(j)
      <4>1. j = n - 1 /\ k = p.pos - 1
        BY <1>2, <1>3, <2>1, <3>1, <3>3
      <4> QED
        BY <1>1, <1>2, <1>9, <1>p, <2>1, <3>1, <4>1
    <3> QED
      BY <3>2, <3>3
  <2> QED
    BY <2>1 DEF Told, loops
<1>13. /\ Telling'
       /\ \A m \in Listeners : \A x : HasTold(m, x) => HasTold(m, x)'
  BY <1>1, <1>h, HandlerReturnedTold
<1>14. Justified'
  <2>2. HasTold(l, e)'
    <3>1. stack'[n - 1] = p /\ n - 1 \in 1 .. Len(stack') /\ joins(l, p)'
      BY <1>1, <1>3, <1>4, <1>p DEF joins
    <3>2. p.pos - 1 \in 1 .. past(n - 1)'
      BY <1>2, <1>3
    <3> QED
      BY <1>1, <1>2, <3>1, <3>2 DEF HasTold
  <2>3. ASSUME NEW m \in Listeners, NEW i \in 1 .. Len(ids'[m])
        PROVE  matches(m, ids[m][i])' \/ HasTold(m, ids[m][i])'
    <3>1. CASE m = l /\ i = Len(ids[l]) + 1
      BY <1>8, <2>2, <3>1
    <3>2. CASE ~(m = l /\ i = Len(ids[l]) + 1)
      <4>1. i \in 1 .. Len(ids[m]) /\ ids'[m][i] = ids[m][i]
        BY <1>7, <1>8, <2>3, <3>2
      <4> QED
        BY <1>1, <1>13, <4>1 DEF Known, Justified, matches
    <3> QED
      BY <3>1, <3>2
  <2> QED
    BY <2>3 DEF Justified
<1> QED
  BY <1>10, <1>11, <1>12, <1>13, <1>14

\* A registry that forgets held the id once.
LEMMA ForgetReturnsKnown ==
    ASSUME IInv, Disciplined, Known, forgetReturns
    PROVE  Distinct' /\ Heard' /\ Told' /\ Telling' /\ Justified'
<1>1. /\ Shrunk /\ top.op = "forget" /\ stack # << >>
      /\ ids' = [ids EXCEPT ![top.l] = RemoveAt(ids[top.l], top.at)]
      /\ UNCHANGED << componentsPresent, callbacks >>
  BY ForgetShrinks DEF Shrunk, stateVars
<1>h. top.op \in handlers
  BY <1>1 DEF handlers
<1>n. PICK n \in Nat \ {0} : n = Len(stack)
  BY <1>1 DEF Shrunk
<1>l. PICK l \in Listeners : l = top.l
  BY <1>1, <1>h, UnderHandler
<1>e. PICK e \in Ids : e = top.id
  BY <1>1, <1>h, UnderHandler
<1>p. PICK p : p = stack[n - 1]
  OBVIOUS
<1>2. /\ n - 1 \in 1 .. Len(stack) /\ p.op = "rem" /\ p.entity = e
      /\ p.pos - 1 \in 1 .. Len(callbacks[p.c])
      /\ l = callbacks[p.c][p.pos - 1] /\ p.c \in Comps /\ p.pos \in Nat
  <2>1. /\ n - 1 \in 1 .. Len(stack) /\ p.op = "rem" /\ p.entity = e
        /\ p.pos - 1 \in 1 .. Len(callbacks[p.c]) /\ l = callbacks[p.c][p.pos - 1]
    BY <1>1, <1>h, <1>n, <1>l, <1>e, <1>p, UnderHandler
  <2>2. p.c \in Comps /\ p \in LoopFrame
    BY <1>p, <2>1, LoopFacts DEF loops
  <2> QED
    BY <2>1, <2>2 DEF LoopFrame
<1>3. /\ n - 1 \in 1 .. n - 1
      /\ \A j \in 1 .. n - 1 : j \in 1 .. Len(stack) /\ stack'[j] = stack[j]
      /\ Len(stack') = n - 1
      /\ past(n - 1)' = p.pos - 1 /\ past(n - 1) = p.pos - 2
      /\ \A j \in 1 .. n - 1 : j # n - 1 => past(j)' = past(j)
  BY <1>1, <1>h, <1>n, <1>p, HandlerReturned
<1>at. PICK at \in 1 .. Len(ids[l]) : at = top.at /\ ids[l][at] = e
  <2>1. top.at \in DOMAIN ids[l] /\ ids[l][top.at] = e
    BY <1>1, <1>l, <1>e, TopFacts DEF Fresh
  <2>2. ids[l] \in Seq(Ids)
    BY DEF IInv, Typed
  <2> QED
    BY <2>1, <2>2
<1>4. /\ ids[l] \in Seq(Ids) /\ Len(ids[l]) \in Nat
      /\ ids'[l] = RemoveAt(ids[l], at)
      /\ \A m \in Listeners : m # l => ids'[m] = ids[m]
  BY <1>1, <1>l, <1>at DEF IInv, Typed
<1> DEFINE from(i) == IF i < at THEN i ELSE i + 1
<1>5. /\ Len(ids'[l]) = Len(ids[l]) - 1
      /\ \A i \in 1 .. Len(ids[l]) - 1 : ids'[l][i] = ids[l][from(i)]
  <2>1. at \in DOMAIN ids[l]
    BY <1>4
  <2>2. /\ Len(RemoveAt(ids[l], at)) = Len(ids[l]) - 1
        /\ \A i \in 1 .. Len(ids[l]) - 1 :
              RemoveAt(ids[l], at)[i] = IF i < at THEN ids[l][i] ELSE ids[l][i + 1]
    BY <1>4, <2>1, RemovedAt
  <2>3. \A i \in 1 .. Len(ids[l]) - 1 :
           (IF i < at THEN ids[l][i] ELSE ids[l][i + 1]) = ids[l][from(i)]
    OBVIOUS
  <2> QED
    BY <1>4, <2>2, <2>3
<1>6. \A i \in 1 .. Len(ids[l]) - 1 : from(i) \in 1 .. Len(ids[l]) /\ from(i) # at
  BY <1>4, <1>at
<1>7. \A i \in 1 .. Len(ids[l]) - 1 : \A j \in 1 .. Len(ids[l]) - 1 : from(i) = from(j) => i = j
  BY <1>4, <1>at
<1>8. ASSUME NEW i \in 1 .. Len(ids[l]), i # at
      PROVE  \E j \in 1 .. Len(ids[l]) - 1 : from(j) = i
  <2>1. CASE i < at
    <3>1. i \in 1 .. Len(ids[l]) - 1 /\ from(i) = i
      BY <1>4, <1>at, <2>1
    <3> QED
      BY <3>1
  <2>2. CASE ~(i < at)
    <3>1. i - 1 \in 1 .. Len(ids[l]) - 1 /\ from(i - 1) = i
      BY <1>4, <1>at, <1>8, <2>2
    <3> QED
      BY <3>1
  <2> QED
    BY <2>1, <2>2
<1> HIDE DEF from
<1>9. ASSUME NEW m \in Listeners, NEW x
      PROVE  Contains(ids'[m], x) <=> Contains(ids[m], x) /\ ~(m = l /\ x = e)
  <2>1. CASE m = l
    <3>1. ASSUME NEW i \in 1 .. Len(ids'[l]), ids'[l][i] = x
          PROVE  x # e /\ \E j \in 1 .. Len(ids[l]) : ids[l][j] = x
      <4>1. from(i) \in 1 .. Len(ids[l]) /\ from(i) # at /\ ids[l][from(i)] = x
        BY <1>5, <1>6, <3>1
      <4> QED
        BY <1>at, <4>1 DEF Known, Distinct
    <3>2. ASSUME NEW i \in 1 .. Len(ids[l]), ids[l][i] = x, x # e
          PROVE  \E j \in 1 .. Len(ids'[l]) : ids'[l][j] = x
      BY <1>5, <1>8, <1>at, <3>2
    <3> QED
      BY <1>at, <2>1, <3>1, <3>2 DEF Contains
  <2> QED
    BY <1>4, <2>1
<1>10. Distinct'
  <2>1. ASSUME NEW i \in 1 .. Len(ids'[l]), NEW j \in 1 .. Len(ids'[l]), ids'[l][i] = ids'[l][j]
        PROVE  i = j
    <3>1. i \in 1 .. Len(ids[l]) - 1 /\ j \in 1 .. Len(ids[l]) - 1
      BY <1>5
    <3>2. ids[l][from(i)] = ids[l][from(j)]
      BY <1>5, <2>1, <3>1
    <3>3. from(i) \in 1 .. Len(ids[l]) /\ from(j) \in 1 .. Len(ids[l])
      BY <1>6, <3>1
    <3>4. from(i) = from(j)
      BY <3>2, <3>3 DEF Known, Distinct
    <3> QED
      BY <1>7, <3>1, <3>4
  <2> QED
    BY <1>4, <2>1 DEF Known, Distinct
<1>11. Heard'
  <2>1. ids[l] # << >>
    BY <1>at
  <2> QED
    BY <1>1, <1>4, <2>1 DEF Known, Heard, ListedFor
<1>12. Told'
  <2>1. ASSUME NEW j \in 1 .. Len(stack'), NEW k \in 1 .. past(j)', stack'[j].op \in loops,
               NEW m, m = callbacks'[stack'[j].c][k]
        PROVE  /\ stack'[j].op = "add" /\ joins(m, stack[j])' => Contains(ids'[m], stack'[j].entity)
               /\ stack'[j].op = "rem" /\ leaves(m, stack[j])' => ~Contains(ids'[m], stack'[j].entity)
    <3>1. j \in 1 .. n - 1 /\ stack'[j] = stack[j] /\ j \in 1 .. Len(stack)
      BY <1>3, <2>1
    <3>2. CASE k \in 1 .. past(j)
      <4>1. m \in Listeners
        BY <1>1, <2>1, <3>1, <3>2, PastPlaces
      <4>2. /\ stack[j].op = "add" /\ joins(m, stack[j]) => Contains(ids[m], stack[j].entity)
            /\ stack[j].op = "rem" /\ leaves(m, stack[j]) => ~Contains(ids[m], stack[j].entity)
        BY <1>1, <2>1, <3>1, <3>2 DEF Known, Told
      <4>3. stack[j].op = "add" => stack[j].entity # e
        BY <1>2, <1>p, <3>1, OneLoop DEF loops, calls, clearings
      <4> QED
        BY <1>1, <1>9, <3>1, <4>1, <4>2, <4>3 DEF joins, leaves
    <3>3. CASE k \notin 1 .. past(j)
      <4>1. j = n - 1 /\ k = p.pos - 1
        BY <1>2, <1>3, <2>1, <3>1, <3>3
      <4> QED
        BY <1>1, <1>2, <1>9, <1>p, <2>1, <3>1, <4>1
    <3> QED
      BY <3>2, <3>3
  <2> QED
    BY <2>1 DEF Told, loops
<1>13. /\ Telling'
       /\ \A m \in Listeners : \A x : HasTold(m, x) => HasTold(m, x)'
  BY <1>1, <1>h, HandlerReturnedTold
<1>14. Justified'
  <2>1. ASSUME NEW m \in Listeners, NEW i \in 1 .. Len(ids'[m])
        PROVE  \E j \in 1 .. Len(ids[m]) : ids'[m][i] = ids[m][j]
    BY <1>4, <1>5, <1>6, <2>1
  <2>2. ASSUME NEW m \in Listeners, NEW i \in 1 .. Len(ids'[m])
        PROVE  matches(m, ids[m][i])' \/ HasTold(m, ids[m][i])'
    <3>1. PICK j \in 1 .. Len(ids[m]) : ids'[m][i] = ids[m][j]
      BY <2>1, <2>2
    <3> QED
      BY <1>1, <1>13, <3>1 DEF Known, Justified, matches
  <2> QED
    BY <2>2 DEF Justified
<1> QED
  BY <1>10, <1>11, <1>12, <1>13, <1>14

\* An entity that exists and is not marked so: there is none.
Alive == \A id \in Ids : componentsPresent[id] # {} => EXISTENCE \in componentsPresent[id]

\* The live entities are those whose mask says so.
LEMMA LiveMask ==
    ASSUME IInv, NEW id \in Ids
    PROVE  id \in live <=> EXISTENCE \in componentsPresent[id]
<1>1. \A i \in 1 .. Len(stack) : stack[i].op = "add" => stack[i].c # EXISTENCE
  BY FrameFacts, CompsAssumption DEF IInv, Typed, LoopFrame, loops
<1> QED
  BY <1>1 DEF IInv, Stored, BeingAdded, Adds, live, AllComps

\* A new entity has nothing but its Existence component, and no other changes.
LEMMA CreateEntityMasks ==
    ASSUME IInv, Disciplined, Alive, createEntity
    PROVE  /\ UNCHANGED << callbacks, constructed, ids, stack >>
           /\ nextId' = nextIdAfter(nextId, freedIds) /\ freedIds' = freedIdsAfter(freedIds)
           /\ \/ outOfIds(nextId, freedIds) /\ UNCHANGED << live, componentsPresent >>
              \/ \E id \in Ids :
                    /\ ~outOfIds(nextId, freedIds)
                    /\ id = newIdFrom(nextId, freedIds)
                    /\ live' = live \union {id}
                    /\ componentsPresent' =
                          [componentsPresent EXCEPT ![id] = componentsPresent[id] \union {EXISTENCE}]
                    /\ id \notin live => componentsPresent[id] = {}
<1>1. /\ UNCHANGED << callbacks, constructed, ids, stack >>
      /\ nextId' = nextIdAfter(nextId, freedIds) /\ freedIds' = freedIdsAfter(freedIds)
  BY DEF createEntity, systemVars
<1>2. CASE outOfIds(nextId, freedIds)
  BY <1>1, <1>2 DEF createEntity, live
<1>3. CASE ~outOfIds(nextId, freedIds)
  <2> DEFINE id == newIdFrom(nextId, freedIds)
  <2>1. id \in Ids
    BY <1>3, HeadTailProperties, MaxIdAssumption
       DEF IInv, Typed, EntityId, Ids, outOfIds, newIdFrom
  <2>2. /\ comps' = [comps EXCEPT ![EXISTENCE] = @ \union {id}]
        /\ componentsPresent' = [componentsPresent EXCEPT ![id] = componentsPresent[id] \union {EXISTENCE}]
    BY <1>3 DEF createEntity, try_emplace, turnOnFlags
  <2>3. live' = live \union {id}
    BY <2>2 DEF IInv, Typed, live, AllComps
  <2> HIDE DEF id
  <2>4. id \notin live => componentsPresent[id] = {}
    BY <2>1, LiveMask DEF Alive
  <2> QED
    BY <1>1, <1>3, <2>1, <2>2, <2>3, <2>4 DEF id
<1> QED
  BY <1>2, <1>3

\* A new entity is news to no registry that knows of any.
LEMMA CreateEntityKnown ==
    ASSUME IInv, Disciplined, Known, Alive, createEntity
    PROVE  Distinct' /\ Heard' /\ Told' /\ Telling' /\ Justified'
<1>1. UNCHANGED << callbacks, constructed, ids, stack >>
  BY CreateEntityMasks
<1>2. \A id \in Ids : id \in live => componentsPresent'[id] = componentsPresent[id]
  <2>1. CASE UNCHANGED componentsPresent
    BY <2>1
  <2>2. CASE \E id \in Ids :
               componentsPresent' = [componentsPresent EXCEPT ![id] = componentsPresent[id] \union {EXISTENCE}]
    BY <2>2, LiveMask DEF IInv, Typed
  <2> QED
    BY <2>1, <2>2, CreateEntityMasks
<1>3. \A id \in Ids : componentsPresent[id] \subseteq componentsPresent'[id]
  <2>1. CASE UNCHANGED componentsPresent
    BY <2>1
  <2>2. CASE \E id \in Ids :
               componentsPresent' = [componentsPresent EXCEPT ![id] = componentsPresent[id] \union {EXISTENCE}]
    BY <2>2 DEF IInv, Typed
  <2> QED
    BY <2>1, <2>2, CreateEntityMasks
<1>4. \A j \in 1 .. Len(stack) : stack[j].op \in loops =>
         componentsPresent'[stack[j].entity] = componentsPresent[stack[j].entity]
  BY <1>2, LoopFacts
<1>5. Distinct' /\ Heard'
  BY <1>1 DEF Known, Distinct, Heard, ListedFor
<1>6. \A j : past(j)' = past(j)
  BY <1>1 DEF past
<1>7. Told'
  <2>1. ASSUME NEW j \in 1 .. Len(stack'), NEW m \in 1 .. past(j)', stack'[j].op \in loops,
               NEW l, l = callbacks'[stack'[j].c][m]
        PROVE  /\ stack'[j].op = "add" /\ joins(l, stack[j])' => Contains(ids'[l], stack'[j].entity)
               /\ stack'[j].op = "rem" /\ leaves(l, stack[j])' => ~Contains(ids'[l], stack'[j].entity)
    BY <1>1, <1>4, <1>6, <2>1 DEF Known, Told, joins, leaves
  <2> QED
    BY <2>1 DEF Told, loops
<1>8. Telling'
  <2>1. ASSUME NEW j \in 1 .. Len(stack') - 1, stack'[j].op = "add"
        PROVE  joins(stack[j + 1].l, stack[j])'
    <3>1. j \in 1 .. Len(stack) - 1 /\ j \in 1 .. Len(stack)
      BY <1>1, <2>1 DEF IInv, Typed
    <3> QED
      BY <1>1, <1>4, <2>1, <3>1 DEF Known, Telling, joins, loops
  <2> QED
    BY <2>1 DEF Telling
<1>9. Justified'
  <2>1. ASSUME NEW l \in Listeners, NEW x, HasTold(l, x) PROVE HasTold(l, x)'
    <3>1. PICK j \in 1 .. Len(stack) :
            /\ stack[j].op = "add" /\ stack[j].entity = x /\ joins(l, stack[j])
            /\ \E k \in 1 .. past(j) : callbacks[stack[j].c][k] = l
      BY <2>1 DEF HasTold
    <3>2. joins(l, stack[j])'
      BY <1>1, <1>4, <3>1 DEF joins, loops
    <3> QED
      BY <1>1, <1>6, <3>1, <3>2 DEF HasTold
  <2>2. ASSUME NEW l \in Listeners, NEW x \in Ids, matches(l, x) PROVE matches(l, x)'
    BY <1>3, <2>2 DEF matches
  <2> QED
    BY <1>1, <2>1, <2>2, HoldsSome DEF Known, Justified
<1> QED
  BY <1>5, <1>7, <1>8, <1>9

\* A System joins the lists it asks for, at their ends, while nothing runs.
LEMMA ListenKnown ==
    ASSUME IInv, Disciplined, Known, NEW s \in Systems, listenForLikeEntities(s)
    PROVE  Known'
<1>1. /\ stack = << >> /\ constructed' = constructed \union {s} /\ s \notin constructed
      /\ callbacks' = [c \in Comps |-> callbacks[c] \o interested(s, c)]
      /\ UNCHANGED << comps, componentsPresent, ids >>
  BY DEF listenForLikeEntities, onlyAtTop, Disciplined, stateVars
<1>2. stack' = << >>
  BY ListenKeeps, <1>1 DEF listenForLikeEntities, spoil
<1>3. ASSUME NEW c \in Comps
      PROVE  LET q == interested(s, c)
             IN  /\ Len(callbacks'[c]) = Len(callbacks[c]) + Len(q)
                 /\ callbacks[c] \in Seq(Listeners) /\ q \in Seq(Listeners)
                 /\ \A k \in 1 .. Len(callbacks[c]) : callbacks'[c][k] = callbacks[c][k]
                 /\ \A k \in 1 .. Len(q) : callbacks'[c][Len(callbacks[c]) + k] = q[k]
                 /\ \A k \in 1 .. Len(callbacks'[c]) :
                       k \in 1 .. Len(callbacks[c]) \/ k - Len(callbacks[c]) \in 1 .. Len(q)
  <2> DEFINE q == interested(s, c)
             a == callbacks[c]
  <2>1. a \in Seq(Listeners) /\ q \in Seq(Listeners)
    BY InterestedListeners DEF IInv, Typed
  <2>2. callbacks'[c] = a \o q
    BY <1>1
  <2> HIDE DEF q, a
  <2>3. /\ Len(a \o q) = Len(a) + Len(q) /\ Len(a) \in Nat /\ Len(q) \in Nat
        /\ \A k \in 1 .. Len(a) : (a \o q)[k] = a[k]
        /\ \A k \in 1 .. Len(q) : (a \o q)[Len(a) + k] = q[k]
        /\ \A k \in 1 .. Len(a \o q) : k \in 1 .. Len(a) \/ k - Len(a) \in 1 .. Len(q)
    BY <2>1
  <2> QED
    BY <2>1, <2>2, <2>3 DEF a, q
<1>4. \A l : Registered(l)' <=> Registered(l) \/ \E i \in DOMAIN Registries[s] : Registries[s][i] = l
  BY <1>1 DEF Registered
<1>5. \A i \in DOMAIN Registries[s] : ~Registered(Registries[s][i])
  BY <1>1, ReentrantAssumption DEF Registered, IInv, Typed
<1>6. ASSUME NEW c \in Comps, NEW k \in 1 .. Len(callbacks'[c])
      PROVE  \/ /\ k \in 1 .. Len(callbacks[c]) /\ callbacks'[c][k] = callbacks[c][k]
                /\ Registered(callbacks[c][k]) /\ c \in Likeness[callbacks[c][k]]
             \/ \E i \in 1 .. Len(interested(s, c)) :
                  /\ k = Len(callbacks[c]) + i /\ callbacks'[c][k] = interested(s, c)[i]
                  /\ c \in Likeness[interested(s, c)[i]]
                  /\ \E r \in DOMAIN Registries[s] : interested(s, c)[i] = Registries[s][r]
  <2>1. CASE k \in 1 .. Len(callbacks[c])
    BY <1>3, <2>1 DEF Known, Lists
  <2>2. CASE k - Len(callbacks[c]) \in 1 .. Len(interested(s, c))
    <3>1. PICK i \in 1 .. Len(interested(s, c)) : i = k - Len(callbacks[c])
      BY <2>2
    <3>2. k = Len(callbacks[c]) + i
      BY <1>3, <3>1
    <3>3. callbacks'[c][k] = interested(s, c)[i]
      BY <1>3, <3>2
    <3>4. i \in DOMAIN interested(s, c)
      BY <1>3, <3>1
    <3> QED
      BY <3>1, <3>2, <3>3, <3>4, InterestedListeners
  <2> QED
    BY <1>3, <2>1, <2>2
<1>7. Lists'
  <2>1. ASSUME NEW c \in Comps, NEW k \in 1 .. Len(callbacks'[c]), NEW l, l = callbacks'[c][k]
        PROVE  c \in Likeness[l] /\ Registered(l)'
    <3>1. c \in Likeness[l] /\ (Registered(l) \/ \E i \in DOMAIN Registries[s] : Registries[s][i] = l)
      BY <1>6, <2>1
    <3> QED
      BY <1>4, <3>1
  <2>2. ASSUME NEW c \in Comps, NEW k \in 1 .. Len(callbacks'[c]), NEW m \in 1 .. Len(callbacks'[c]),
               callbacks'[c][k] = callbacks'[c][m]
        PROVE  k = m
    <3>1. CASE k \in 1 .. Len(callbacks[c]) /\ m \in 1 .. Len(callbacks[c])
      BY <1>3, <2>2, <3>1 DEF Known, Lists
    <3>2. CASE ~(k \in 1 .. Len(callbacks[c])) /\ ~(m \in 1 .. Len(callbacks[c]))
      <4>1. PICK i \in 1 .. Len(interested(s, c)) :
              k = Len(callbacks[c]) + i /\ callbacks'[c][k] = interested(s, c)[i]
        BY <1>6, <3>2
      <4>2. PICK j \in 1 .. Len(interested(s, c)) :
              m = Len(callbacks[c]) + j /\ callbacks'[c][m] = interested(s, c)[j]
        BY <1>6, <3>2
      <4>3. i \in DOMAIN interested(s, c) /\ j \in DOMAIN interested(s, c)
        BY <1>3
      <4> QED
        BY <2>2, <4>1, <4>2, <4>3, InterestedListeners
    <3>3. CASE ~(k \in 1 .. Len(callbacks[c]) <=> m \in 1 .. Len(callbacks[c]))
      <4>1. ASSUME NEW l, Registered(l), NEW r \in DOMAIN Registries[s] PROVE l # Registries[s][r]
        BY <1>5, <4>1
      <4>2. CASE k \in 1 .. Len(callbacks[c])
        <5>1. callbacks'[c][k] = callbacks[c][k] /\ Registered(callbacks[c][k])
          BY <1>3, <4>2 DEF Known, Lists
        <5>2. \E r \in DOMAIN Registries[s] : callbacks'[c][m] = Registries[s][r]
          <6>1. PICK i \in 1 .. Len(interested(s, c)) :
                  /\ callbacks'[c][m] = interested(s, c)[i]
                  /\ \E r \in DOMAIN Registries[s] : interested(s, c)[i] = Registries[s][r]
            BY <1>6, <3>3, <4>2
          <6> QED
            BY <6>1
        <5> QED
          BY <2>2, <4>1, <5>1, <5>2
      <4>3. CASE ~(k \in 1 .. Len(callbacks[c]))
        <5>1. m \in 1 .. Len(callbacks[c])
          BY <3>3, <4>3
        <5>2. callbacks'[c][m] = callbacks[c][m] /\ Registered(callbacks[c][m])
          BY <1>3, <5>1 DEF Known, Lists
        <5>3. \E r \in DOMAIN Registries[s] : callbacks'[c][k] = Registries[s][r]
          <6>1. PICK i \in 1 .. Len(interested(s, c)) :
                  /\ callbacks'[c][k] = interested(s, c)[i]
                  /\ \E r \in DOMAIN Registries[s] : interested(s, c)[i] = Registries[s][r]
            BY <1>6, <4>3
          <6> QED
            BY <6>1
        <5> QED
          BY <2>2, <4>1, <5>2, <5>3
      <4> QED
        BY <4>2, <4>3
    <3> QED
      BY <3>1, <3>2, <3>3
  <2>3. ASSUME NEW l \in Listeners, Registered(l)', NEW c \in Likeness[l] \intersect Comps
        PROVE  \E k \in 1 .. Len(callbacks'[c]) : callbacks'[c][k] = l
    <3>1. CASE Registered(l)
      <4>1. PICK k \in 1 .. Len(callbacks[c]) : callbacks[c][k] = l
        BY <3>1 DEF Known, Lists, ListedFor
      <4>2. k \in 1 .. Len(callbacks'[c]) /\ callbacks'[c][k] = l
        BY <1>3, <4>1
      <4> QED
        BY <4>2
    <3>2. CASE \E i \in DOMAIN Registries[s] : Registries[s][i] = l
      <4>1. PICK i \in DOMAIN interested(s, c) : interested(s, c)[i] = l
        <5>1. PICK r \in DOMAIN Registries[s] : Registries[s][r] = l
          BY <3>2
        <5>2. c \in Likeness[Registries[s][r]]
          BY <5>1
        <5> QED
          BY <5>1, <5>2, InterestedListeners
      <4>2. i \in 1 .. Len(interested(s, c)) /\ Len(callbacks[c]) + i \in 1 .. Len(callbacks'[c])
        BY <1>3, <4>1
      <4>3. callbacks'[c][Len(callbacks[c]) + i] = l
        BY <1>3, <4>1, <4>2
      <4> QED
        BY <4>2, <4>3
    <3> QED
      BY <1>4, <2>3, <3>1, <3>2
  <2> QED
    BY <2>1, <2>2, <2>3 DEF Lists, ListedFor
<1>8. Heard'
  <2>1. ASSUME NEW l, NEW c \in Comps, ListedFor(l, c) PROVE ListedFor(l, c)'
    <3>1. PICK k \in 1 .. Len(callbacks[c]) : callbacks[c][k] = l
      BY <2>1 DEF ListedFor
    <3>2. k \in 1 .. Len(callbacks'[c]) /\ callbacks'[c][k] = l
      BY <1>3, <3>1
    <3> QED
      BY <3>2 DEF ListedFor
  <2> QED
    BY <1>1, <2>1 DEF Known, Heard
<1>9. Distinct' /\ Told' /\ Telling'
  BY <1>1, <1>2 DEF Known, Distinct, Told, Telling
<1>10. Justified'
  <2>1. \A l, x : ~HasTold(l, x)
    BY <1>1 DEF HasTold
  <2> QED
    BY <1>1, <2>1 DEF Known, Justified, matches
<1> QED
  BY <1>7, <1>8, <1>9, <1>10 DEF Known

\* The registries' invariant holds of a State that has just been made
LEMMA KnownInitially == Init => Known /\ Alive
<1> SUFFICES ASSUME Init PROVE Known /\ Alive
  OBVIOUS
<1>1. Lists /\ Distinct /\ Heard
  BY DEF Init, Lists, Distinct, Heard, Registered
<1>2. Told /\ Telling /\ Justified /\ Alive
  BY DEF Init, Told, Telling, Justified, Alive
<1> QED
  BY <1>1, <1>2 DEF Known

\* Every step is a call, the next step of a loop, or a return.
LEMMA StepsOfNext ==
    ASSUME IInv, Disciplined, Next
    PROVE  \/ createEntity
           \/ Grown
           \/ \E s \in Systems : listenForLikeEntities(s)
           \/ \E k \in Nat : Fired(k)
           \/ discoverReturns
           \/ forgetReturns
           \/ addCompReturns
           \/ remCompReturns
           \/ deleteEntityReturns /\ componentsPresent[top.entity] = {EXISTENCE}
           \/ clearEntityReturns \/ clearReturns
           \/ deleteEntityReturns /\ componentsPresent[top.entity] # {EXISTENCE}
<1>1. ASSUME NEW arg \in arguments, NEW c \in Comps, addComp(arg, c) \/ remComp(arg, c)
      PROVE  Grown
  BY <1>1, AddCompGrows, RemCompGrows
<1>2. ASSUME NEW arg \in arguments, NEW op \in {"clearEntity", "deleteEntity"}, clearEntity(arg, op)
      PROVE  Grown
  BY <1>2, ClearEntityGrows DEF clearings
<1>3. clear \/ clearLoopBody \/ clearNext => Grown
  BY ClearGrows, ClearLoopBodyGrows, ClearNextGrows
<1>4. fire => \E k \in Nat : Fired(k)
  BY FireFires
<1> QED
  BY <1>1, <1>2, <1>3, <1>4 DEF Next

\* Only a System that is constructed changes the lists.
LEMMA ListsUnchanged ==
    ASSUME Lists, UNCHANGED << callbacks, constructed >>
    PROVE  Lists'
  BY DEF Lists, Registered, ListedFor

\* Every step keeps what the registries know.
LEMMA KnownKept ==
    ASSUME IInv, Disciplined, Known, Alive, [Next]_vars
    PROVE  Known'
<1> DEFINE Rest == Distinct' /\ Heard' /\ Told' /\ Telling' /\ Justified'
<1>1. CASE createEntity
  <2>1. Rest /\ UNCHANGED << callbacks, constructed >>
    BY <1>1, CreateEntityKnown, CreateEntityMasks
  <2> QED
    BY <2>1, ListsUnchanged DEF Known
<1>2. CASE Grown
  <2>1. Rest /\ UNCHANGED << callbacks, constructed >>
    BY <1>2, GrownKnown DEF Grown
  <2> QED
    BY <2>1, ListsUnchanged DEF Known
<1>3. CASE \E s \in Systems : listenForLikeEntities(s)
  BY <1>3, ListenKnown
<1>4. CASE \E k \in Nat : Fired(k)
  <2>1. Rest /\ UNCHANGED << callbacks, constructed >>
    BY <1>4, FiredKnown DEF Fired
  <2> QED
    BY <2>1, ListsUnchanged DEF Known
<1>5. CASE discoverReturns
  <2>1. Rest /\ UNCHANGED << callbacks, constructed >>
    BY <1>5, DiscoverReturnsKnown DEF discoverReturns
  <2> QED
    BY <2>1, ListsUnchanged DEF Known
<1>6. CASE forgetReturns
  <2>1. Rest /\ UNCHANGED << callbacks, constructed >>
    BY <1>6, ForgetReturnsKnown DEF forgetReturns
  <2> QED
    BY <2>1, ListsUnchanged DEF Known
<1>7. CASE addCompReturns
  <2>1. Rest /\ UNCHANGED << callbacks, constructed >>
    BY <1>7, AddCompReturnsKnown DEF addCompReturns, systemVars
  <2> QED
    BY <2>1, ListsUnchanged DEF Known
<1>8. CASE remCompReturns
  <2>1. Rest /\ UNCHANGED << callbacks, constructed >>
    BY <1>8, RemCompReturnsKnown DEF remCompReturns, systemVars
  <2> QED
    BY <2>1, ListsUnchanged DEF Known
<1>9. CASE deleteEntityReturns /\ componentsPresent[top.entity] = {EXISTENCE}
  <2>1. Rest /\ UNCHANGED << callbacks, constructed >>
    BY <1>9, DeleteReturnsKnown, DeleteShrinks DEF Shrunk
  <2> QED
    BY <2>1, ListsUnchanged DEF Known
<1>10. CASE \/ clearEntityReturns \/ clearReturns
            \/ deleteEntityReturns /\ componentsPresent[top.entity] # {EXISTENCE}
  <2>1. Rest /\ UNCHANGED << callbacks, constructed >>
    BY <1>10, QuietReturnKnown, QuietShrinks DEF Shrunk
  <2> QED
    BY <2>1, ListsUnchanged DEF Known
<1>11. CASE UNCHANGED vars
  <2>1. UNCHANGED << componentsPresent, callbacks, constructed, ids, stack >>
    BY <1>11 DEF vars, stateVars, systemVars
  <2>2. Distinct' /\ Heard'
    BY <2>1 DEF Known, Distinct, Heard, ListedFor
  <2>3. Told' /\ Telling'
    BY <2>1 DEF Known, Told, Telling, joins, leaves, past
  <2>4. Justified'
    BY <2>1 DEF Known, Justified, HasTold, matches, joins, past
  <2> QED
    BY <2>1, <2>2, <2>3, <2>4, ListsUnchanged DEF Known
<1> HIDE DEF Rest
<1> QED
  BY <1>1, <1>2, <1>3, <1>4, <1>5, <1>6, <1>7, <1>8, <1>9, <1>10, <1>11, StepsOfNext

\* Which entities have any component at all.
LEMMA AliveKept ==
    ASSUME IInv, Disciplined, Alive, [Next]_vars
    PROVE  Alive'
<1>1. CASE UNCHANGED componentsPresent
  BY <1>1 DEF Alive
<1>2. CASE createEntity
  <2>1. CASE UNCHANGED componentsPresent
    BY <1>1, <2>1
  <2>2. CASE \E id \in Ids :
               componentsPresent' = [componentsPresent EXCEPT ![id] = componentsPresent[id] \union {EXISTENCE}]
    BY <2>2 DEF IInv, Typed, Alive
  <2> QED
    BY <1>2, <2>1, <2>2, CreateEntityMasks
<1>3. CASE addCompReturns \/ remCompReturns
  <2>1. stack # << >> /\ top.op \in loops
    BY <1>3 DEF addCompReturns, remCompReturns, resumes, loops
  <2>2. top.entity \in Ids /\ top.entity \in live /\ top.c \in Comps
    <3>1. Len(stack) \in 1 .. Len(stack) /\ top = stack[Len(stack)]
      BY <2>1, TopFacts
    <3> QED
      BY <2>1, <3>1, LoopFacts
  <2>3. EXISTENCE \in componentsPresent[top.entity] /\ EXISTENCE # top.c
    BY <2>2, LiveMask, CompsAssumption
  <2>4. \/ componentsPresent' = [componentsPresent EXCEPT ![top.entity] = @ \union {top.c}]
        \/ componentsPresent' = [componentsPresent EXCEPT ![top.entity] = @ \ {top.c}]
    BY <1>3, AddCompShrinks, RemCompShrinks
  <2> QED
    BY <2>2, <2>3, <2>4 DEF IInv, Typed, Alive
<1>4. CASE deleteEntityReturns /\ componentsPresent[top.entity] = {EXISTENCE}
  <2>1. componentsPresent' = [componentsPresent EXCEPT ![top.entity] = {}]
    BY <1>4, DeleteShrinks
  <2> QED
    BY <2>1 DEF IInv, Typed, Alive
<1>5. ASSUME \/ Grown \/ (\E s \in Systems : listenForLikeEntities(s)) \/ (\E k \in Nat : Fired(k))
             \/ discoverReturns \/ forgetReturns \/ clearEntityReturns \/ clearReturns
             \/ deleteEntityReturns /\ componentsPresent[top.entity] # {EXISTENCE}
             \/ UNCHANGED vars
      PROVE  UNCHANGED componentsPresent
  BY <1>5 DEF Grown, Fired, listenForLikeEntities, discoverReturns, forgetReturns, clearEntityReturns,
         clearReturns, deleteEntityReturns, stateVars, vars
<1> QED
  BY <1>1, <1>2, <1>3, <1>4, <1>5, StepsOfNext

\* The whole of it always holds.
LEMMA KnowledgeInvariance == Disciplined => (Spec => [](IInv /\ Known /\ Alive))
<1>1. Disciplined /\ IInv /\ Known /\ Alive /\ [Next]_vars => IInv' /\ Known' /\ Alive'
  BY InvariantKept, KnownKept, AliveKept
<1> SUFFICES ASSUME Disciplined PROVE Spec => [](IInv /\ Known /\ Alive)
  OBVIOUS
<1>2. IInv /\ Known /\ Alive /\ [Next]_vars => (IInv /\ Known /\ Alive)'
  BY <1>1
<1>3. Init => IInv /\ Known /\ Alive
  BY InvariantInitially, KnownInitially
<1> QED
  BY <1>2, <1>3, PTL DEF Spec

\* A registry holds an entity once, and only one that has its likeness or
\* that a running call is about (IdRegistry.ids, which Systems iterate).
THEOREM RegistriesAreSound == Disciplined => (Spec => []RegistrySound)
<1>1. IInv /\ Known => RegistrySound
  <2> SUFFICES ASSUME IInv, Known, NEW l \in Listeners, NEW i \in DOMAIN ids[l], NEW j \in DOMAIN ids[l]
               PROVE  /\ ids[l][i] = ids[l][j] => i = j
                      /\ ids[l][i] \in busy \/ matches(l, ids[l][i])
    BY DEF RegistrySound
  <2>1. i \in 1 .. Len(ids[l]) /\ j \in 1 .. Len(ids[l])
    BY DEF IInv, Typed
  <2>2. HasTold(l, ids[l][i]) => ids[l][i] \in busy
    BY DEF HasTold, busy, onStack, calls, IInv, Typed
  <2> QED
    BY <2>1, <2>2 DEF Known, Distinct, Justified
<1> QED
  BY <1>1, KnowledgeInvariance, PTL

\* The registry that asks about the component is in the list, and the loop
\* that is through has asked it or passed it.
LEMMA LoopThrough ==
    ASSUME IInv, Known, stack # << >>, top.op \in loops, toFire(top) = {},
           NEW l \in Listeners, ListedFor(l, top.c)
    PROVE  /\ top.op = "add" /\ joins(l, top) => Contains(ids[l], top.entity)
           /\ top.op = "rem" /\ leaves(l, top) => ~Contains(ids[l], top.entity)
<1>1. Len(stack) \in 1 .. Len(stack) /\ top = stack[Len(stack)]
  BY TopFacts
<1>2. /\ top.entity \in Ids /\ top.id = top.entity /\ top.c \in Comps
      /\ top.last = Len(callbacks[top.c]) /\ top.pos \in 1 .. top.last + 1 /\ top.last \in Nat
  BY <1>1, LoopFacts
<1>3. PICK k \in 1 .. Len(callbacks[top.c]) : callbacks[top.c][k] = l
  BY DEF ListedFor
<1>4. CASE k < top.pos
  <2>1. k \in 1 .. past(Len(stack))
    BY <1>1, <1>2, <1>3, <1>4 DEF past
  <2> QED
    BY <1>1, <1>3, <2>1 DEF Known, Told
<1>5. CASE ~(k < top.pos)
  <2>1. k \in top.pos .. top.last /\ k \notin toFire(top)
    BY <1>2, <1>3, <1>5
  <2> QED
    BY <1>2, <1>3, <2>1 DEF toFire, joins, leaves, loops
<1> QED
  BY <1>4, <1>5

\* No step lets a mask gain or lose a likeness that a registry has not been
\* told of.
LEMMA StepFollows ==
    ASSUME IInv, Known, Alive, Disciplined, [Next]_vars
    PROVE  followsLikeness
<1> SUFFICES ASSUME NEW c \in Comps, NEW l \in ToSet(callbacks[c]), NEW id \in Ids
             PROVE  /\ ~matches(l, id) /\ matches(l, id)' => Contains(ids'[l], id)
                    /\ matches(l, id) /\ ~matches(l, id)' => ~Contains(ids'[l], id)
  BY DEF followsLikeness
<1>1. /\ l \in Listeners /\ ListedFor(l, c) /\ c \in Likeness[l]
      /\ \A b \in Comps : b \in Likeness[l] => ListedFor(l, b)
  <2>1. PICK k \in 1 .. Len(callbacks[c]) : callbacks[c][k] = l
    BY DEF ToSet, IInv, Typed
  <2>2. l \in Listeners /\ ListedFor(l, c)
    BY <2>1 DEF ListedFor, IInv, Typed
  <2> QED
    BY <2>1, <2>2 DEF Known, Lists
<1>2. EXISTENCE # c
  BY CompsAssumption
<1>3. CASE componentsPresent'[id] = componentsPresent[id]
  BY <1>3 DEF matches
<1>4. CASE createEntity
  <2>1. ASSUME componentsPresent'[id] # componentsPresent[id]
        PROVE  componentsPresent[id] = {} /\ componentsPresent'[id] = {EXISTENCE}
    <3>1. PICK e \in Ids :
            /\ componentsPresent' =
                  [componentsPresent EXCEPT ![e] = componentsPresent[e] \union {EXISTENCE}]
            /\ e \notin live => componentsPresent[e] = {}
      BY <1>4, <2>1, CreateEntityMasks
    <3> QED
      BY <2>1, <3>1, LiveMask DEF IInv, Typed
  <2> QED
    BY <1>1, <1>2, <1>3, <2>1 DEF matches
<1>5. CASE addCompReturns
  <2>1. /\ Shrunk /\ top.op = "add" /\ toFire(top) = {} /\ UNCHANGED ids
        /\ componentsPresent' = [componentsPresent EXCEPT ![top.entity] = @ \union {top.c}]
    BY <1>5, AddCompShrinks
  <2>2. /\ top.entity \in Ids /\ top.c \in Comps
    BY <2>1, TopFacts, FrameFacts DEF Shrunk, loops, LoopFrame
  <2>3. CASE id = top.entity
    <3>1. componentsPresent'[id] = componentsPresent[id] \union {top.c}
      BY <2>1, <2>2, <2>3 DEF IInv, Typed
    <3>2. ~matches(l, id) /\ matches(l, id)' => top.c \in Likeness[l] /\ joins(l, top)
      BY <2>3, <3>1 DEF matches, joins, shouldFireAdditionDlgt
    <3>3. matches(l, id) => matches(l, id)'
      BY <3>1 DEF matches
    <3> QED
      BY <1>1, <2>1, <2>2, <2>3, <3>2, <3>3, LoopThrough DEF loops, Shrunk
  <2> QED
    BY <1>3, <2>1, <2>2, <2>3 DEF IInv, Typed
<1>6. CASE remCompReturns
  <2>1. /\ Shrunk /\ top.op = "rem" /\ toFire(top) = {} /\ UNCHANGED ids
        /\ componentsPresent' = [componentsPresent EXCEPT ![top.entity] = @ \ {top.c}]
    BY <1>6, RemCompShrinks
  <2>2. /\ top.entity \in Ids /\ top.c \in Comps
    BY <2>1, TopFacts, FrameFacts DEF Shrunk, loops, LoopFrame
  <2>3. CASE id = top.entity
    <3>1. componentsPresent'[id] = componentsPresent[id] \ {top.c}
      BY <2>1, <2>2, <2>3 DEF IInv, Typed
    <3>2. matches(l, id) /\ ~matches(l, id)' => top.c \in Likeness[l] /\ leaves(l, top)
      BY <2>3, <3>1 DEF matches, leaves, shouldFireRemovalDlgt
    <3>3. matches(l, id)' => matches(l, id)
      BY <3>1 DEF matches
    <3> QED
      BY <1>1, <2>1, <2>2, <2>3, <3>2, <3>3, LoopThrough DEF loops, Shrunk
  <2> QED
    BY <1>3, <2>1, <2>2, <2>3 DEF IInv, Typed
<1>7. CASE deleteEntityReturns /\ componentsPresent[top.entity] = {EXISTENCE}
  <2>1. componentsPresent' = [componentsPresent EXCEPT ![top.entity] = {}]
    BY <1>7, DeleteShrinks
  <2>2. CASE id = top.entity
    BY <1>1, <1>2, <1>7, <2>1, <2>2 DEF matches, IInv, Typed
  <2> QED
    BY <1>3, <2>1, <2>2 DEF IInv, Typed
<1>8. ASSUME \/ Grown \/ (\E s \in Systems : listenForLikeEntities(s)) \/ (\E k \in Nat : Fired(k))
             \/ discoverReturns \/ forgetReturns \/ clearEntityReturns \/ clearReturns
             \/ deleteEntityReturns /\ componentsPresent[top.entity] # {EXISTENCE}
             \/ UNCHANGED vars
      PROVE  UNCHANGED componentsPresent
  BY <1>8 DEF Grown, Fired, listenForLikeEntities, discoverReturns, forgetReturns, clearEntityReturns,
         clearReturns, deleteEntityReturns, stateVars, vars
<1> QED
  BY <1>3, <1>4, <1>5, <1>6, <1>7, <1>8, StepsOfNext

\* A registry that is in the lists hears of every entity that gains or loses
\* its likeness before the mask says so (addComp, remCompNoChecks).
THEOREM RegistriesFollow == Disciplined => (Spec => RegistryFollows)
<1> SUFFICES ASSUME Disciplined PROVE Spec => RegistryFollows
  OBVIOUS
<1>1. (IInv /\ Known /\ Alive) /\ [Next]_vars => [followsLikeness]_vars
  BY StepFollows
<1>2. Spec => [](IInv /\ Known /\ Alive)
  BY KnowledgeInvariance
<1> QED
  BY <1>1, <1>2, PTL DEF Spec, RegistryFollows

--------------------------------------------------------------------------
(* What clear deletes *)

\* While clear is running, what it has still to delete has no persistent
\* component, and none is being given one.
Lasting ==
    \A j \in 1 .. Len(stack) : stack[j].op = "clear" =>
        /\ \A id \in stack[j].doomed \intersect live :
              componentsPresent[id] \intersect persistenceMask = {}
        /\ \A k \in j + 1 .. Len(stack) : stack[k].op = "add" => stack[k].c \notin persistenceMask
        /\ j < Len(stack) => stack[j + 1].was \intersect persistenceMask = {}

\* On clear stands the deletion it is waiting for.
LEMMA OverClear ==
    ASSUME NEW s, Shape(s), NEW j \in 1 .. Len(s) - 1, s[j].op = "clear"
    PROVE  s[j + 1].op = "deleteEntity"
  BY DEF Shape, Below

\* A call adds to what is running only what clear tolerates.
LEMMA GrownLasting ==
    ASSUME IInv, IInv', Lasting, Grown
    PROVE  Lasting'
<1>n. PICK n \in Nat : n = Len(stack)
  BY DEF Grown
<1>1. /\ UNCHANGED << live, componentsPresent >>
      /\ Len(stack') \in {n, n + 1}
      /\ \A j \in 1 .. n : Advanced(stack'[j], stack[j])
      /\ \A j \in 1 .. Len(stack') : j \notin 1 .. n => j = n + 1 /\ NewFrame(stack'[j])
  BY <1>n DEF Grown
<1>2. /\ Shape(stack)
      /\ \A j \in 1 .. Len(stack') - 1 : stack'[j].op = "clear" => stack'[j + 1].op = "deleteEntity"
  BY DEF IInv, Good, Shape, Below
<1>3. ASSUME NEW j \in 1 .. Len(stack'), stack'[j].op = "clear", j \notin 1 .. n
      PROVE  /\ \A id \in stack'[j].doomed \intersect live' :
                   componentsPresent'[id] \intersect persistenceMask = {}
             /\ \A k \in j + 1 .. Len(stack') : stack'[k].op = "add" => stack'[k].c \notin persistenceMask
             /\ j < Len(stack') => stack'[j + 1].was \intersect persistenceMask = {}
  <2>1. j = n + 1 /\ stack'[j].doomed = idsToErase
    BY <1>1, <1>3 DEF NewFrame
  <2>2. ~(j < Len(stack')) /\ \A k \in j + 1 .. Len(stack') : FALSE
    BY <1>1, <2>1
  <2> QED
    BY <1>1, <2>1, <2>2 DEF idsToErase
<1>4. ASSUME NEW j \in 1 .. n, stack'[j].op = "clear"
      PROVE  /\ \A id \in stack'[j].doomed \intersect live' :
                   componentsPresent'[id] \intersect persistenceMask = {}
             /\ \A k \in j + 1 .. Len(stack') : stack'[k].op = "add" => stack'[k].c \notin persistenceMask
             /\ j < Len(stack') => stack'[j + 1].was \intersect persistenceMask = {}
  <2>1. stack[j].op = "clear" /\ stack'[j].doomed \subseteq stack[j].doomed
    BY <1>1, <1>4 DEF Advanced
  <2>2. /\ \A id \in stack[j].doomed \intersect live :
              componentsPresent[id] \intersect persistenceMask = {}
        /\ \A k \in j + 1 .. n : stack[k].op = "add" => stack[k].c \notin persistenceMask
        /\ j < n => stack[j + 1].was \intersect persistenceMask = {}
    BY <1>n, <2>1 DEF Lasting
  <2>3. ASSUME NEW k \in j + 1 .. Len(stack'), stack'[k].op = "add"
        PROVE  stack'[k].c \notin persistenceMask
    <3>1. CASE k \in 1 .. n
      <4>1. stack[k].op = "add" /\ stack[k].c = stack'[k].c /\ k \in j + 1 .. n
        BY <1>1, <2>3, <3>1 DEF Advanced, loops
      <4> QED
        BY <2>2, <4>1
    <3>2. CASE k \notin 1 .. n
      <4>1. NewFrame(stack'[k])
        BY <1>1, <2>3, <3>2
      <4>2. stack[j] \in onStack({"clear"})
        <5>1. j \in DOMAIN stack
          BY <1>n DEF IInv, Typed
        <5> QED
          BY <2>1, <5>1 DEF onStack
      <4> QED
        BY <2>3, <4>1, <4>2 DEF NewFrame, persistenceMask
    <3> QED
      BY <3>1, <3>2
  <2>4. ASSUME j < Len(stack') PROVE stack'[j + 1].was \intersect persistenceMask = {}
    <3>1. CASE j < n
      <4>1. j + 1 \in 1 .. n /\ j \in 1 .. Len(stack) - 1
        BY <1>n, <3>1
      <4>2. stack[j + 1].op = "deleteEntity"
        BY <1>2, <2>1, <4>1, OverClear
      <4>3. stack'[j + 1].was = stack[j + 1].was
        BY <1>1, <4>1, <4>2 DEF Advanced, clearings
      <4> QED
        BY <2>2, <3>1, <4>3
    <3>2. CASE ~(j < n)
      <4>1. j = n /\ n + 1 \in 1 .. Len(stack') /\ n + 1 \notin 1 .. n /\ Len(stack') - 1 = n
        BY <1>1, <2>4, <3>2
      <4>2. stack'[n + 1].op = "deleteEntity"
        BY <1>2, <1>4, <4>1
      <4>3. stack # << >> /\ top = stack[n]
        BY <1>n, <4>1, TopFacts
      <4>4. NewFrame(stack'[n + 1])
        BY <1>1, <4>1
      <4>5. /\ stack'[n + 1].was = componentsPresent[stack'[n + 1].entity]
            /\ stack'[n + 1].entity \in stack[n].doomed \intersect live
        BY <2>1, <4>1, <4>2, <4>3, <4>4 DEF NewFrame, clearings
      <4> QED
        BY <2>2, <4>1, <4>5
    <3> QED
      BY <3>1, <3>2
  <2> QED
    BY <1>1, <2>1, <2>2, <2>3, <2>4
<1> QED
  BY <1>3, <1>4 DEF Lasting

\* What returns leaves entities with fewer components, or with one that clear
\* tolerates.
LEMMA ShrunkLasting ==
    ASSUME IInv, Lasting, Shrunk, live' \subseteq live,
           \A id \in live' : \A c \in componentsPresent'[id] :
              c \in componentsPresent[id] \/ (top.op = "add" /\ c = top.c)
    PROVE  Lasting'
<1>n. PICK n \in Nat \ {0} : n = Len(stack)
  BY DEF Shrunk
<1>1. /\ top = stack[n] /\ Len(stack') = n - 1
      /\ \A j \in 1 .. n - 1 : stack'[j] = stack[j]
  BY <1>n, TopFacts DEF Shrunk
<1>2. ASSUME NEW j \in 1 .. n - 1, stack[j].op = "clear"
      PROVE  /\ \A id \in stack[j].doomed \intersect live' :
                   componentsPresent'[id] \intersect persistenceMask = {}
             /\ \A k \in j + 1 .. n - 1 : stack[k].op = "add" => stack[k].c \notin persistenceMask
             /\ j < n - 1 => stack[j + 1].was \intersect persistenceMask = {}
  <2>1. j \in 1 .. Len(stack) /\ n \in j + 1 .. Len(stack) /\ j < Len(stack)
    BY <1>n
  <2>2. top.op = "add" => top.c \notin persistenceMask
    BY <1>1, <1>2, <2>1 DEF Lasting
  <2>3. \A k \in j + 1 .. n - 1 : k \in j + 1 .. Len(stack)
    BY <1>n
  <2> QED
    BY <1>2, <2>1, <2>2, <2>3 DEF Lasting
<1>3. \A j \in 1 .. n - 1 : /\ \A k \in j + 1 .. n - 1 : k \in 1 .. n - 1
                            /\ j < n - 1 => j + 1 \in 1 .. n - 1
  OBVIOUS
<1> QED
  BY <1>1, <1>2, <1>3 DEF Lasting

\* Firing a delegate changes nothing clear knows.
LEMMA FiredLasting ==
    ASSUME IInv, Lasting, NEW k \in Nat, Fired(k)
    PROVE  Lasting'
<1>n. PICK n \in Nat \ {0} : n = Len(stack)
  BY DEF Fired
<1>1. /\ top = stack[n] /\ top.op \in loops /\ Len(stack') = n + 1
      /\ \A j \in 1 .. n - 1 : stack'[j] = stack[j]
      /\ stack'[n].op = top.op /\ stack'[n].c = top.c
      /\ stack'[n + 1].op \in handlers
      /\ UNCHANGED << live, componentsPresent >>
  BY <1>n DEF Fired, Advanced
<1>2. ASSUME NEW j \in 1 .. n + 1, stack'[j].op = "clear"
      PROVE  /\ j \in 1 .. n - 1 /\ stack'[j] = stack[j]
             /\ j + 1 \in 1 .. n - 1 /\ stack'[j + 1] = stack[j + 1]
  <2>1. j \in 1 .. n - 1
    BY <1>1, <1>2 DEF loops, handlers
  <2>2. stack[j + 1].op = "deleteEntity"
    BY <1>n, <1>1, <1>2, <2>1, OverClear DEF IInv, Good
  <2>3. j + 1 # n
    BY <1>1, <2>2 DEF loops
  <2> QED
    BY <1>1, <2>1, <2>3
<1>3. ASSUME NEW j \in 1 .. n + 1, stack'[j].op = "clear", NEW m \in j + 1 .. n + 1, stack'[m].op = "add"
      PROVE  stack'[m].c \notin persistenceMask
  <2>1. m \in 1 .. n - 1 \/ m = n \/ m = n + 1
    BY <1>3
  <2>2. m \in 1 .. n /\ stack[m].op = "add" /\ stack[m].c = stack'[m].c
    BY <1>1, <1>3, <2>1 DEF handlers
  <2>3. m \in j + 1 .. Len(stack)
    BY <1>n, <1>3, <2>2
  <2> QED
    BY <1>n, <1>2, <1>3, <2>2, <2>3 DEF Lasting
<1>4. ASSUME NEW j \in 1 .. n + 1, stack'[j].op = "clear"
      PROVE  /\ \A id \in stack'[j].doomed \intersect live :
                   componentsPresent[id] \intersect persistenceMask = {}
             /\ stack'[j + 1].was \intersect persistenceMask = {}
  <2>1. j \in 1 .. Len(stack) /\ j < Len(stack)
    BY <1>n, <1>2, <1>4
  <2> QED
    BY <1>2, <1>4, <2>1 DEF Lasting
<1> QED
  BY <1>1, <1>3, <1>4 DEF Lasting

\* Every step keeps it.
LEMMA LastingKept ==
    ASSUME IInv, IInv', Disciplined, Alive, Lasting, [Next]_vars
    PROVE  Lasting'
<1>1. CASE createEntity
  <2>1. onStack({"clear"}) = {} /\ stack' = stack
    BY <1>1 DEF createEntity, outsideClear, Disciplined
  <2>2. \A j \in 1 .. Len(stack) : stack[j].op # "clear"
    BY <2>1 DEF onStack, IInv, Typed
  <2> QED
    BY <2>1, <2>2 DEF Lasting
<1>2. CASE Grown
  BY <1>2, GrownLasting
<1>3. ASSUME NEW s \in Systems, listenForLikeEntities(s) PROVE Lasting'
  <2>1. stack = << >> /\ stack' = << >>
    BY <1>3 DEF listenForLikeEntities, onlyAtTop, Disciplined, spoil
  <2> QED
    BY <2>1 DEF Lasting
<1>4. ASSUME NEW k \in Nat, Fired(k) PROVE Lasting'
  BY <1>4, FiredLasting
<1>5. CASE discoverReturns \/ forgetReturns
  <2>1. Shrunk /\ UNCHANGED << live, componentsPresent >>
    BY <1>5, DiscoverShrinks, ForgetShrinks DEF stateVars, live
  <2> QED
    BY <2>1, ShrunkLasting
<1>6. CASE addCompReturns
  <2>1. /\ Shrunk /\ top.op = "add" /\ UNCHANGED live
        /\ componentsPresent' = [componentsPresent EXCEPT ![top.entity] = @ \union {top.c}]
    BY <1>6, AddCompShrinks
  <2>2. \A id \in live' : \A c \in componentsPresent'[id] : c \in componentsPresent[id] \/ c = top.c
    BY <2>1 DEF IInv, Typed, live, AllComps
  <2> QED
    BY <2>1, <2>2, ShrunkLasting
<1>7. CASE remCompReturns
  <2>1. /\ Shrunk /\ UNCHANGED live
        /\ componentsPresent' = [componentsPresent EXCEPT ![top.entity] = @ \ {top.c}]
    BY <1>7, RemCompShrinks
  <2>2. \A id \in live' : componentsPresent'[id] \subseteq componentsPresent[id]
    BY <2>1 DEF IInv, Typed, live, AllComps
  <2> QED
    BY <2>1, <2>2, ShrunkLasting
<1>8. CASE deleteEntityReturns /\ componentsPresent[top.entity] = {EXISTENCE}
  <2>1. /\ Shrunk /\ live' = live \ {top.entity}
        /\ componentsPresent' = [componentsPresent EXCEPT ![top.entity] = {}]
    BY <1>8, DeleteShrinks
  <2>2. \A id \in live' : componentsPresent'[id] \subseteq componentsPresent[id]
    BY <2>1 DEF IInv, Typed, live, AllComps
  <2> QED
    BY <2>1, <2>2, ShrunkLasting
<1>9. CASE \/ clearEntityReturns \/ clearReturns
           \/ deleteEntityReturns /\ componentsPresent[top.entity] # {EXISTENCE}
  BY <1>9, QuietShrinks, ShrunkLasting
<1>10. CASE UNCHANGED vars
  BY <1>10 DEF Lasting, vars, stateVars, live
<1> QED
  BY <1>1, <1>2, <1>3, <1>4, <1>5, <1>6, <1>7, <1>8, <1>9, <1>10, StepsOfNext

\* clear deletes no entity with a persistent component (clear asks
\* hasPersistence before it collects an id, not when it deletes).
THEOREM PersistentSpared == Disciplined => (Spec => []ClearSparesPersistent)
<1> SUFFICES ASSUME Disciplined PROVE Spec => []ClearSparesPersistent
  OBVIOUS
<1>1. Init => IInv /\ Known /\ Alive /\ Lasting
  BY InvariantInitially, KnownInitially DEF Init, Lasting
<1>2. (IInv /\ Known /\ Alive /\ Lasting) /\ [Next]_vars => (IInv /\ Known /\ Alive /\ Lasting)'
  BY InvariantKept, KnownKept, AliveKept, LastingKept
<1>3. IInv /\ Lasting => ClearSparesPersistent
  <2> SUFFICES ASSUME IInv, Lasting, NEW i \in 1 .. Len(stack) - 1, stack[i].op = "clear"
               PROVE  stack[i + 1].was \intersect persistenceMask = {}
    BY DEF ClearSparesPersistent
  <2>1. i \in 1 .. Len(stack) /\ i < Len(stack)
    BY DEF IInv, Typed
  <2> QED
    BY <2>1 DEF Lasting
<1> QED
  BY <1>1, <1>2, <1>3, PTL DEF Spec

--------------------------------------------------------------------------
(* What calls have made sure of *)

\* What addComp and remComp tested before their delegates ran still holds when
\* they return, and a clearing call has removed what it has passed.
Checked ==
    \A j \in 1 .. Len(stack) :
        /\ stack[j].op = "add" =>
              /\ requiredComps(stack[j].c) \subseteq componentsPresent[stack[j].entity]
              /\ stack[j].c \notin componentsPresent[stack[j].entity]
        /\ stack[j].op = "rem" =>
              \/ j > 1 /\ stack[j - 1].op \in clearings
              \/ /\ stack[j].c \in componentsPresent[stack[j].entity]
                 /\ passesDependenciesForRemoval(componentsPresent[stack[j].entity],
                                                 dependentComps(stack[j].c))
        /\ stack[j].op \in clearings =>
              /\ componentsPresent[stack[j].entity] \subseteq stack[j].was
              /\ \A k \in 1 .. past(j) : CompOrder[k] \notin componentsPresent[stack[j].entity]

\* A call that begins has made sure, the others are where they were.
LEMMA GrownChecked ==
    ASSUME IInv, Checked, Grown
    PROVE  Checked'
<1>n. PICK n \in Nat : n = Len(stack)
  BY DEF Grown
<1>1. /\ UNCHANGED componentsPresent
      /\ Len(stack') \in {n, n + 1}
      /\ \A j \in 1 .. n : Advanced(stack'[j], stack[j])
      /\ \A j \in 1 .. n : stack[j].op \in clearings => past(j)' = past(j)
      /\ \A j \in 1 .. Len(stack') : j \notin 1 .. n => j = n + 1 /\ NewFrame(stack'[j])
  BY <1>n DEF Grown
<1>2. ASSUME NEW j \in 1 .. n
      PROVE  /\ stack'[j].op = stack[j].op
             /\ stack[j].op # "clear" => stack'[j].entity = stack[j].entity
             /\ stack[j].op \in loops => stack'[j].c = stack[j].c
             /\ stack[j].op \in clearings => stack'[j].was = stack[j].was
  BY <1>1 DEF Advanced
<1>3. ASSUME NEW j \in 1 .. n
      PROVE  /\ stack'[j].op = "add" =>
                  /\ requiredComps(stack'[j].c) \subseteq componentsPresent'[stack'[j].entity]
                  /\ stack'[j].c \notin componentsPresent'[stack'[j].entity]
             /\ stack'[j].op = "rem" =>
                  \/ j > 1 /\ stack'[j - 1].op \in clearings
                  \/ /\ stack'[j].c \in componentsPresent'[stack'[j].entity]
                     /\ passesDependenciesForRemoval(componentsPresent'[stack'[j].entity],
                                                     dependentComps(stack'[j].c))
             /\ stack'[j].op \in clearings =>
                  /\ componentsPresent'[stack'[j].entity] \subseteq stack'[j].was
                  /\ \A k \in 1 .. past(j)' : CompOrder[k] \notin componentsPresent'[stack'[j].entity]
  <2>1. j > 1 => j - 1 \in 1 .. n
    OBVIOUS
  <2>2. /\ stack'[j].op = "rem" /\ j > 1 => stack'[j - 1].op = stack[j - 1].op
        /\ j \in 1 .. Len(stack)
    BY <1>n, <1>2, <2>1
  <2>3. /\ stack[j].op = "add" =>
             /\ requiredComps(stack[j].c) \subseteq componentsPresent[stack[j].entity]
             /\ stack[j].c \notin componentsPresent[stack[j].entity]
        /\ stack[j].op = "rem" =>
             \/ j > 1 /\ stack[j - 1].op \in clearings
             \/ /\ stack[j].c \in componentsPresent[stack[j].entity]
                /\ passesDependenciesForRemoval(componentsPresent[stack[j].entity],
                                                dependentComps(stack[j].c))
        /\ stack[j].op \in clearings =>
             /\ componentsPresent[stack[j].entity] \subseteq stack[j].was
             /\ \A k \in 1 .. past(j) : CompOrder[k] \notin componentsPresent[stack[j].entity]
    BY <2>2 DEF Checked
  <2> QED
    BY <1>1, <1>2, <2>2, <2>3 DEF loops, clearings
<1>4. ASSUME NEW j \in 1 .. Len(stack'), j \notin 1 .. n
      PROVE  /\ stack'[j].op = "add" =>
                  /\ requiredComps(stack'[j].c) \subseteq componentsPresent'[stack'[j].entity]
                  /\ stack'[j].c \notin componentsPresent'[stack'[j].entity]
             /\ stack'[j].op = "rem" =>
                  \/ j > 1 /\ stack'[j - 1].op \in clearings
                  \/ /\ stack'[j].c \in componentsPresent'[stack'[j].entity]
                     /\ passesDependenciesForRemoval(componentsPresent'[stack'[j].entity],
                                                     dependentComps(stack'[j].c))
             /\ stack'[j].op \in clearings =>
                  /\ componentsPresent'[stack'[j].entity] \subseteq stack'[j].was
                  /\ \A k \in 1 .. past(j)' : CompOrder[k] \notin componentsPresent'[stack'[j].entity]
  <2>1. j = n + 1 /\ NewFrame(stack'[j])
    BY <1>1, <1>4
  <2>2. ASSUME stack # << >>, top.op \in clearings
        PROVE  j > 1 /\ stack'[j - 1].op \in clearings
    <3>1. n \in 1 .. n /\ top = stack[n] /\ j - 1 = n
      BY <1>n, <2>1, <2>2, TopFacts
    <3> QED
      BY <1>2, <2>2, <3>1
  <2>3. stack'[j].op \in clearings => past(j)' \in {0, -1}
    BY <2>1 DEF NewFrame, past
  <2> QED
    BY <1>1, <2>1, <2>2, <2>3 DEF NewFrame
<1> QED
  BY <1>3, <1>4 DEF Checked

\* A handler that is called or returns changes nothing calls have tested.
LEMMA FiredChecked ==
    ASSUME IInv, Checked, NEW m \in Nat, Fired(m)
    PROVE  Checked'
<1>n. PICK n \in Nat \ {0} : n = Len(stack)
  BY DEF Fired
<1>1. /\ top = stack[n] /\ top.op \in loops /\ Len(stack') = n + 1
      /\ \A j \in 1 .. n - 1 : stack'[j] = stack[j]
      /\ stack'[n].op = top.op /\ stack'[n].c = top.c /\ stack'[n].entity = top.entity
      /\ stack'[n + 1].op \in handlers
      /\ UNCHANGED componentsPresent
  BY <1>n DEF Fired, Advanced, loops
<1>2. ASSUME NEW j \in 1 .. n
      PROVE  /\ stack'[j].op = stack[j].op
             /\ stack'[j].op \in calls => stack'[j].entity = stack[j].entity
             /\ stack'[j].op \in loops => stack'[j].c = stack[j].c
             /\ stack'[j].op \in clearings => stack'[j].was = stack[j].was /\ past(j)' = past(j)
  <2>1. CASE j \in 1 .. n - 1
    <3>1. j # n /\ j # n + 1 /\ stack'[j] = stack[j]
      BY <1>1, <2>1
    <3>2. past(j)' = past(j)
      BY <1>n, <1>1, <3>1 DEF past
    <3> QED
      BY <3>1, <3>2
  <2>2. CASE j = n
    BY <1>1, <2>2 DEF loops, clearings
  <2> QED
    BY <2>1, <2>2
<1>3. ASSUME NEW j \in 1 .. n
      PROVE  /\ stack'[j].op = "add" =>
                  /\ requiredComps(stack'[j].c) \subseteq componentsPresent'[stack'[j].entity]
                  /\ stack'[j].c \notin componentsPresent'[stack'[j].entity]
             /\ stack'[j].op = "rem" =>
                  \/ j > 1 /\ stack'[j - 1].op \in clearings
                  \/ /\ stack'[j].c \in componentsPresent'[stack'[j].entity]
                     /\ passesDependenciesForRemoval(componentsPresent'[stack'[j].entity],
                                                     dependentComps(stack'[j].c))
             /\ stack'[j].op \in clearings =>
                  /\ componentsPresent'[stack'[j].entity] \subseteq stack'[j].was
                  /\ \A k \in 1 .. past(j)' : CompOrder[k] \notin componentsPresent'[stack'[j].entity]
  <2>1. j > 1 => j - 1 \in 1 .. n
    OBVIOUS
  <2>2. j > 1 => stack'[j - 1].op = stack[j - 1].op
    BY <1>2, <2>1
  <2>3. /\ stack[j].op = "add" =>
             /\ requiredComps(stack[j].c) \subseteq componentsPresent[stack[j].entity]
             /\ stack[j].c \notin componentsPresent[stack[j].entity]
        /\ stack[j].op = "rem" =>
             \/ j > 1 /\ stack[j - 1].op \in clearings
             \/ /\ stack[j].c \in componentsPresent[stack[j].entity]
                /\ passesDependenciesForRemoval(componentsPresent[stack[j].entity],
                                                dependentComps(stack[j].c))
        /\ stack[j].op \in clearings =>
             /\ componentsPresent[stack[j].entity] \subseteq stack[j].was
             /\ \A k \in 1 .. past(j) : CompOrder[k] \notin componentsPresent[stack[j].entity]
    BY <1>n DEF Checked
  <2> QED
    BY <1>1, <1>2, <2>2, <2>3 DEF loops, calls, clearings
<1>4. \A j \in 1 .. n + 1 : j \in 1 .. n \/ stack'[j].op \in handlers
  BY <1>1
<1>5. \A j \in 1 .. n + 1 : stack'[j].op \in handlers =>
         stack'[j].op \notin {"add", "rem"} /\ stack'[j].op \notin clearings
  BY DEF handlers, clearings
<1> QED
  BY <1>1, <1>3, <1>4, <1>5 DEF Checked

\* The removal that a clearing call waits for is the one it was last at.
LEMMA UnderRemoval ==
    ASSUME IInv, stack # << >>, NEW j \in 1 .. Len(stack) - 1, stack[j].op \in clearings
    PROVE  /\ stack[j + 1].op = "rem" /\ stack[j + 1].entity = stack[j].entity
           /\ stack[j].pos \in Nat /\ stack[j].pos >= 2
           /\ stack[j + 1].c = CompOrder[stack[j].pos - 1]
           /\ stack[j].entity \in Ids
<1>1. j \in 1 .. Len(stack) /\ Below(stack[j], stack[j + 1])
  BY DEF IInv, Good, Shape
<1>2. stack[j] \in ClearingFrame
  BY <1>1, FrameFacts DEF IInv, Typed
<1> QED
  BY <1>1, <1>2 DEF Below, ClearingFrame

\* What a return changes is the mask of its own entity.
LEMMA ShrunkChecked ==
    ASSUME IInv, Checked, Shrunk,
           \A id \in Ids : top.op \notin calls \/ id # top.entity =>
              componentsPresent'[id] = componentsPresent[id],
           top.op = "rem" => componentsPresent'[top.entity] = componentsPresent[top.entity] \ {top.c}
    PROVE  Checked'
<1>n. PICK n \in Nat \ {0} : n = Len(stack)
  BY DEF Shrunk
<1>1. /\ stack # << >> /\ top = stack[n] /\ Len(stack') = n - 1
      /\ \A j \in 1 .. n - 1 : stack'[j] = stack[j]
  BY <1>n, TopFacts DEF Shrunk
<1>2. ASSUME NEW j \in 1 .. n - 1, stack[j].op \in calls
      PROVE  /\ stack[j].entity \in Ids
             /\ \/ componentsPresent'[stack[j].entity] = componentsPresent[stack[j].entity]
                \/ j = n - 1 /\ stack[j].op \in clearings /\ top.op = "rem"
  <2>1. stack[j].entity \in Ids
    <3>1. j \in 1 .. Len(stack)
      BY <1>n
    <3> QED
      BY <1>2, <3>1, FrameFacts DEF IInv, Typed, LoopFrame, ClearingFrame, calls, loops, clearings
  <2>2. CASE top.op \in calls /\ stack[j].entity = top.entity
    BY <1>n, <1>1, <1>2, <2>1, <2>2, AboutTop
  <2> QED
    BY <2>1, <2>2
<1>3. ASSUME NEW j \in 1 .. n - 1, stack[j].op \in loops
      PROVE  componentsPresent'[stack[j].entity] = componentsPresent[stack[j].entity]
  BY <1>2, <1>3 DEF loops, calls, clearings
<1>4. ASSUME NEW j \in 1 .. n - 1, stack[j].op \in clearings
      PROVE  /\ componentsPresent'[stack[j].entity] \subseteq stack[j].was
             /\ \A k \in 1 .. past(j)' : CompOrder[k] \notin componentsPresent'[stack[j].entity]
  <2>1. /\ componentsPresent[stack[j].entity] \subseteq stack[j].was
        /\ \A k \in 1 .. past(j) : CompOrder[k] \notin componentsPresent[stack[j].entity]
    BY <1>n, <1>4 DEF Checked
  <2>2. /\ stack[j + 1].op = "rem" /\ stack[j + 1].entity = stack[j].entity
        /\ stack[j].pos \in Nat /\ stack[j].pos >= 2
        /\ stack[j + 1].c = CompOrder[stack[j].pos - 1]
        /\ stack[j].entity \in Ids
    BY <1>n, <1>1, <1>4, UnderRemoval
  <2>3. j # n /\ past(j) = stack[j].pos - 2
    BY <1>n DEF past
  <2>4. CASE j = n - 1
    <3>1. top.op = "rem" /\ top.entity = stack[j].entity /\ top.c = CompOrder[stack[j].pos - 1]
      BY <1>1, <2>2, <2>4
    <3>2. past(j)' = stack[j].pos - 1
      BY <1>1, <2>4 DEF past
    <3>3. componentsPresent'[stack[j].entity] = componentsPresent[stack[j].entity] \ {CompOrder[stack[j].pos - 1]}
      BY <3>1
    <3>4. \A k \in 1 .. stack[j].pos - 1 : k \in 1 .. stack[j].pos - 2 \/ k = stack[j].pos - 1
      BY <2>2
    <3> QED
      BY <2>1, <2>3, <3>2, <3>3, <3>4
  <2>5. CASE j # n - 1
    <3>1. componentsPresent'[stack[j].entity] = componentsPresent[stack[j].entity]
      BY <1>2, <1>4, <2>5 DEF calls, clearings
    <3>2. past(j)' = past(j)
      BY <1>1, <2>3, <2>5 DEF past
    <3> QED
      BY <2>1, <3>1, <3>2
  <2> QED
    BY <2>4, <2>5
<1>5. ASSUME NEW j \in 1 .. n - 1
      PROVE  /\ stack[j].op = "add" =>
                  /\ requiredComps(stack[j].c) \subseteq componentsPresent'[stack[j].entity]
                  /\ stack[j].c \notin componentsPresent'[stack[j].entity]
             /\ stack[j].op = "rem" =>
                  \/ j > 1 /\ stack'[j - 1].op \in clearings
                  \/ /\ stack[j].c \in componentsPresent'[stack[j].entity]
                     /\ passesDependenciesForRemoval(componentsPresent'[stack[j].entity],
                                                     dependentComps(stack[j].c))
  <2>1. j \in 1 .. Len(stack) /\ (j > 1 => j - 1 \in 1 .. n - 1)
    BY <1>n
  <2>2. j > 1 => stack'[j - 1] = stack[j - 1]
    BY <1>1, <2>1
  <2> QED
    BY <1>3, <2>1, <2>2 DEF Checked, loops
<1> QED
  BY <1>1, <1>4, <1>5 DEF Checked

\* Every step keeps it.
LEMMA CheckedKept ==
    ASSUME IInv, Disciplined, Alive, Checked, [Next]_vars
    PROVE  Checked'
<1>1. CASE createEntity
  <2>1. UNCHANGED stack
    BY <1>1, CreateEntityMasks
  <2>2. \A id \in Ids : id \in live => componentsPresent'[id] = componentsPresent[id]
    <3>1. CASE UNCHANGED componentsPresent
      BY <3>1
    <3>2. CASE \E id \in Ids :
                 componentsPresent' = [componentsPresent EXCEPT ![id] = componentsPresent[id] \union {EXISTENCE}]
      BY <3>2, LiveMask DEF IInv, Typed
    <3> QED
      BY <1>1, <3>1, <3>2, CreateEntityMasks
  <2>3. ASSUME NEW j \in 1 .. Len(stack), stack[j].op \in calls
        PROVE  componentsPresent'[stack[j].entity] = componentsPresent[stack[j].entity]
    <3>1. stack[j].entity \in Ids
      BY <2>3, FrameFacts DEF IInv, Typed, LoopFrame, ClearingFrame, calls, loops, clearings
    <3>2. stack[j].entity \in live
      BY <2>3 DEF IInv, Good, AllFresh, Fresh
    <3> QED
      BY <2>2, <3>1, <3>2
  <2>4. \A j : past(j)' = past(j)
    BY <2>1 DEF past
  <2> QED
    BY <2>1, <2>3, <2>4 DEF Checked, calls, clearings
<1>2. CASE Grown
  BY <1>2, GrownChecked
<1>3. ASSUME NEW s \in Systems, listenForLikeEntities(s) PROVE Checked'
  <2>1. stack = << >> /\ stack' = << >>
    BY <1>3 DEF listenForLikeEntities, onlyAtTop, Disciplined, spoil
  <2> QED
    BY <2>1 DEF Checked
<1>4. ASSUME NEW k \in Nat, Fired(k) PROVE Checked'
  BY <1>4, FiredChecked
<1>5. CASE discoverReturns \/ forgetReturns
  <2>1. Shrunk /\ UNCHANGED componentsPresent /\ top.op # "rem"
    BY <1>5, DiscoverShrinks, ForgetShrinks DEF stateVars
  <2> QED
    BY <2>1, ShrunkChecked
<1>6. CASE addCompReturns
  <2>1. /\ Shrunk /\ top.op = "add"
        /\ componentsPresent' = [componentsPresent EXCEPT ![top.entity] = @ \union {top.c}]
    BY <1>6, AddCompShrinks
  <2> QED
    BY <2>1, ShrunkChecked DEF IInv, Typed, calls
<1>7. CASE remCompReturns
  <2>1. /\ Shrunk /\ top.op = "rem"
        /\ componentsPresent' = [componentsPresent EXCEPT ![top.entity] = @ \ {top.c}]
    BY <1>7, RemCompShrinks
  <2>2. top.entity \in Ids
    BY <2>1, TopFacts, FrameFacts DEF Shrunk, loops, LoopFrame
  <2> QED
    BY <2>1, <2>2, ShrunkChecked DEF IInv, Typed, calls
<1>8. CASE deleteEntityReturns /\ componentsPresent[top.entity] = {EXISTENCE}
  <2>1. /\ Shrunk /\ top.op = "deleteEntity"
        /\ componentsPresent' = [componentsPresent EXCEPT ![top.entity] = {}]
    BY <1>8, DeleteShrinks
  <2> QED
    BY <2>1, ShrunkChecked DEF IInv, Typed, calls
<1>9. CASE \/ clearEntityReturns \/ clearReturns
           \/ deleteEntityReturns /\ componentsPresent[top.entity] # {EXISTENCE}
  <2>1. Shrunk /\ UNCHANGED componentsPresent /\ top.op # "rem"
    BY <1>9, QuietShrinks DEF clearings
  <2> QED
    BY <2>1, ShrunkChecked
<1>10. CASE UNCHANGED vars
  BY <1>10 DEF Checked, past, vars, stateVars
<1> QED
  BY <1>1, <1>2, <1>3, <1>4, <1>5, <1>6, <1>7, <1>8, <1>9, <1>10, StepsOfNext

--------------------------------------------------------------------------
(* Ids *)

\* The counter has passed every id that is used or freed, and an id is freed
\* once, and not while it is used.
Handed ==
    /\ \A id \in live : id <= nextId
    /\ \A i \in 1 .. Len(freedIds) : freedIds[i] <= nextId /\ freedIds[i] \notin live
    /\ \A i, j \in 1 .. Len(freedIds) : freedIds[i] = freedIds[j] => i = j

\* The id that createEntity hands out is nobody's.
LEMMA NewIdIsNew ==
    ASSUME IInv, Handed, ~outOfIds(nextId, freedIds)
    PROVE  newIdFrom(nextId, freedIds) \notin live
<1>1. nextId \in Nat /\ freedIds \in Seq(Ids)
  BY MaxIdAssumption DEF IInv, Typed, EntityId
<1>2. CASE freedIds = << >>
  BY <1>1, <1>2 DEF newIdFrom, Handed
<1>3. CASE freedIds # << >>
  <2>1. 1 \in 1 .. Len(freedIds) /\ Head(freedIds) = freedIds[1]
    BY <1>1, <1>3
  <2> QED
    BY <1>3, <2>1 DEF newIdFrom, Handed
<1> QED
  BY <1>2, <1>3

\* createEntity takes it from the stack or from the counter,
LEMMA CreateEntityHanded ==
    ASSUME IInv, Disciplined, Alive, Handed, createEntity
    PROVE  Handed'
<1>1. nextId \in Nat /\ freedIds \in Seq(Ids) /\ MaxId \in Nat
  BY MaxIdAssumption DEF IInv, Typed, EntityId
<1>2. nextId' = nextIdAfter(nextId, freedIds) /\ freedIds' = freedIdsAfter(freedIds)
  BY CreateEntityMasks
<1>3. \/ live' = live /\ outOfIds(nextId, freedIds)
      \/ live' = live \union {newIdFrom(nextId, freedIds)} /\ ~outOfIds(nextId, freedIds)
  BY CreateEntityMasks
<1>l. live \in SUBSET Int
  BY MaxIdAssumption DEF IInv, Typed, live, AllComps, Ids
<1>4. CASE freedIds = << >>
  <2>1. freedIds' = << >> /\ nextId' \in {nextId, nextId + 1} /\ (nextId # MaxId => nextId' = nextId + 1)
    BY <1>2, <1>4 DEF nextIdAfter, freedIdsAfter
  <2>2. live' = live \/ (live' = live \union {nextId + 1} /\ nextId' = nextId + 1)
    BY <1>1, <1>3, <1>4, <2>1 DEF outOfIds, newIdFrom
  <2>3. \A id \in live' : id <= nextId'
    <3>1. \A id \in live : id \in Int /\ id <= nextId
      BY <1>l DEF Handed
    <3>2. ASSUME NEW id \in live' PROVE id <= nextId'
      <4>1. CASE id \in live
        <5>1. id \in Int /\ id <= nextId
          BY <3>1, <4>1
        <5> QED
          BY <1>1, <2>1, <5>1
      <4>2. CASE id \notin live
        BY <1>1, <2>2, <3>2, <4>2
      <4> QED
        BY <4>1, <4>2
    <3> QED
      BY <3>2
  <2>4. \A i \in 1 .. Len(freedIds') : FALSE
    BY <2>1
  <2> QED
    BY <2>3, <2>4 DEF Handed
<1>5. CASE freedIds # << >>
  <2>1. /\ Len(freedIds) \in Nat \ {0} /\ Head(freedIds) = freedIds[1] /\ 1 \in 1 .. Len(freedIds)
        /\ Len(freedIds') = Len(freedIds) - 1
        /\ \A i \in 1 .. Len(freedIds) - 1 : freedIds'[i] = freedIds[i + 1]
    BY <1>1, <1>2, <1>5 DEF freedIdsAfter
  <2>2. nextId' = nextId /\ live' = live \union {freedIds[1]}
    BY <1>2, <1>3, <1>5, <2>1 DEF nextIdAfter, outOfIds, newIdFrom
  <2>3. ASSUME NEW i \in 1 .. Len(freedIds')
        PROVE  i + 1 \in 1 .. Len(freedIds) /\ i + 1 # 1 /\ freedIds'[i] = freedIds[i + 1]
    BY <2>1
  <2>4. \A i \in 1 .. Len(freedIds') : freedIds'[i] <= nextId' /\ freedIds'[i] \notin live'
    BY <2>1, <2>2, <2>3 DEF Handed
  <2>5. ASSUME NEW i \in 1 .. Len(freedIds'), NEW j \in 1 .. Len(freedIds'), freedIds'[i] = freedIds'[j]
        PROVE  i = j
    <3>1. i + 1 = j + 1
      BY <2>3, <2>5 DEF Handed
    <3> QED
      BY <3>1
  <2>6. \A id \in live' : id <= nextId'
    BY <2>1, <2>2 DEF Handed
  <2> QED
    BY <2>4, <2>5, <2>6 DEF Handed
<1> QED
  BY <1>4, <1>5

\* ... and deleteEntity puts it on the stack.
LEMMA DeleteHanded ==
    ASSUME IInv, Handed, deleteEntityReturns, componentsPresent[top.entity] = {EXISTENCE}
    PROVE  Handed'
<1>e. PICK e : e = top.entity
  OBVIOUS
<1>1. /\ freedIds' = << e >> \o freedIds /\ live' = live \ {e} /\ nextId' = nextId
      /\ stack # << >> /\ top.op \in clearings
  BY <1>e, DeleteShrinks DEF pushFreed, Shrunk, clearings
<1>2. e \in live /\ e \in Ids /\ freedIds \in Seq(Ids)
  <2>1. top.entity \in live /\ top \in ClearingFrame
    BY <1>1, TopFacts, FrameFacts DEF Fresh, calls, clearings
  <2> QED
    BY <1>e, <2>1 DEF ClearingFrame, IInv, Typed
<1>3. /\ Len(freedIds) \in Nat /\ Len(freedIds') = Len(freedIds) + 1 /\ freedIds'[1] = e
      /\ \A i \in 2 .. Len(freedIds) + 1 : freedIds'[i] = freedIds[i - 1]
  BY <1>1, <1>2
<1>4. ASSUME NEW i \in 1 .. Len(freedIds'), i # 1
      PROVE  /\ i - 1 \in 1 .. Len(freedIds) /\ freedIds'[i] = freedIds[i - 1]
             /\ freedIds'[i] <= nextId /\ freedIds'[i] \notin live
  <2>1. i - 1 \in 1 .. Len(freedIds) /\ i \in 2 .. Len(freedIds) + 1
    BY <1>3, <1>4
  <2> QED
    BY <1>3, <2>1 DEF Handed
<1>5. ASSUME NEW i \in 1 .. Len(freedIds'), NEW j \in 1 .. Len(freedIds'), freedIds'[i] = freedIds'[j]
      PROVE  i = j
  <2>1. CASE i = 1 \/ j = 1
    BY <1>2, <1>3, <1>4, <1>5, <2>1
  <2>2. CASE i # 1 /\ j # 1
    <3>1. i - 1 = j - 1
      BY <1>4, <1>5, <2>2 DEF Handed
    <3> QED
      BY <3>1
  <2> QED
    BY <2>1, <2>2
<1>6. \A i \in 1 .. Len(freedIds') : freedIds'[i] <= nextId' /\ freedIds'[i] \notin live'
  BY <1>1, <1>2, <1>3, <1>4 DEF Handed
<1>7. \A id \in live' : id <= nextId'
  BY <1>1 DEF Handed
<1> QED
  BY <1>5, <1>6, <1>7 DEF Handed

\* Every step keeps it.
LEMMA HandedKept ==
    ASSUME IInv, Disciplined, Alive, Handed, [Next]_vars
    PROVE  Handed'
<1>1. CASE createEntity
  BY <1>1, CreateEntityHanded
<1>2. CASE deleteEntityReturns /\ componentsPresent[top.entity] = {EXISTENCE}
  BY <1>2, DeleteHanded
<1>3. CASE UNCHANGED << nextId, freedIds, live >>
  BY <1>3 DEF Handed
<1>4. ASSUME \/ Grown \/ (\E s \in Systems : listenForLikeEntities(s)) \/ (\E k \in Nat : Fired(k))
             \/ discoverReturns \/ forgetReturns \/ UNCHANGED vars
      PROVE  UNCHANGED << nextId, freedIds, live >>
  BY <1>4 DEF Grown, Fired, listenForLikeEntities, discoverReturns, forgetReturns, stateVars, idVars,
              vars, live
<1>5. ASSUME \/ clearEntityReturns \/ clearReturns
             \/ deleteEntityReturns /\ componentsPresent[top.entity] # {EXISTENCE}
      PROVE  UNCHANGED << nextId, freedIds, live >>
  BY <1>5, QuietShrinks
<1> QED
  BY <1>1, <1>2, <1>3, <1>4, <1>5, StepsOfNext, AddCompShrinks, RemCompShrinks

--------------------------------------------------------------------------
(* Calls inside calls are still atomic *)

Clears(f, id) == f.op \in clearings /\ f.entity = id

\* The abstract mask of an entity is the one it came with to the call that is
\* clearing it, and its own when there is none.
StoreMask ==
    /\ storeBeforeReturn = [nextId |-> nextId, freedIds |-> freedIds, mask |-> storeBeforeReturn.mask]
    /\ storeBeforeReturn.mask = [id \in Ids |-> storeBeforeReturn.mask[id]]
    /\ \A id \in Ids : \A j \in 1 .. Len(stack) :
          Clears(stack[j], id) => storeBeforeReturn.mask[id] = stack[j].was
    /\ \A id \in Ids : (\A j \in 1 .. Len(stack) : ~Clears(stack[j], id))
          => storeBeforeReturn.mask[id] = componentsPresent[id]

\* Only one call is clearing an entity.
LEMMA OneClearing ==
    ASSUME IInv, NEW i \in 1 .. Len(stack), NEW j \in 1 .. Len(stack), NEW id,
           Clears(stack[i], id), Clears(stack[j], id)
    PROVE  i = j
<1>1. CASE i < j
  <2>1. i \in 1 .. j - 1
    BY <1>1
  <2> QED
    BY <2>1 DEF IInv, Good, Apart, ApartFrom, Clears, calls, clearings
<1>2. CASE j < i
  <2>1. j \in 1 .. i - 1
    BY <1>2
  <2> QED
    BY <2>1 DEF IInv, Good, Apart, ApartFrom, Clears, calls, clearings
<1> QED
  BY <1>1, <1>2

\* The masks of the refinement are those of a store: one for every id.
LEMMA StoreMaskHolds == IInv => StoreMask
<1> SUFFICES ASSUME IInv PROVE StoreMask
  OBVIOUS
<1> DEFINE C(id) == {f \in onStack({"clearEntity", "deleteEntity"}) : f.entity = id}
           M == [id \in Ids |-> IF C(id) = {} THEN componentsPresent[id] ELSE (CHOOSE f \in C(id) : TRUE).was]
<1>1. storeBeforeReturn = [nextId |-> nextId, freedIds |-> freedIds, mask |-> M]
  BY DEF storeBeforeReturn
<1>2. storeBeforeReturn.mask = M
  BY <1>1
<1>3. stack \in Seq(Frame)
  BY DEF IInv, Typed
<1>4. ASSUME NEW id \in Ids, NEW f
      PROVE  f \in C(id) <=> \E j \in 1 .. Len(stack) : f = stack[j] /\ Clears(stack[j], id)
  BY <1>3 DEF onStack, Clears, clearings
<1>5. \A id \in Ids : M[id] = IF C(id) = {} THEN componentsPresent[id] ELSE (CHOOSE f \in C(id) : TRUE).was
  OBVIOUS
<1>6. M = [id \in Ids |-> M[id]]
  OBVIOUS
<1> HIDE DEF M, C
<1>7. ASSUME NEW id \in Ids, NEW j \in 1 .. Len(stack), Clears(stack[j], id)
      PROVE  M[id] = stack[j].was
  <2>1. stack[j] \in C(id)
    BY <1>4, <1>7
  <2>2. PICK g : g = (CHOOSE f \in C(id) : TRUE)
    OBVIOUS
  <2>3. g \in C(id)
    BY <2>1, <2>2
  <2>4. PICK i \in 1 .. Len(stack) : g = stack[i] /\ Clears(stack[i], id)
    BY <1>4, <2>3
  <2>5. i = j
    BY <1>7, <2>4, OneClearing
  <2> QED
    BY <1>5, <2>1, <2>2, <2>4, <2>5
<1>8. ASSUME NEW id \in Ids, \A j \in 1 .. Len(stack) : ~Clears(stack[j], id)
      PROVE  M[id] = componentsPresent[id]
  <2>1. C(id) = {}
    BY <1>4, <1>8
  <2> QED
    BY <1>5, <2>1
<1> QED
  BY <1>1, <1>2, <1>6, <1>7, <1>8 DEF StoreMask

\* They are after a step too.
LEMMA StoreMaskHoldsAfter == IInv' => StoreMask'
  BY StoreMaskHolds, PTL

\* The store's definitions are the State's.
LEMMA SameIds == Store!Ids = Ids /\ 0 \notin Ids
  BY MaxIdAssumption DEF Ids, Store!Ids

\* A step that leaves every frame and every mask as they are, or puts on the
\* stack a call that has changed nothing yet, is none of the store's.
LEMMA SameStore ==
    ASSUME IInv, IInv', UNCHANGED << nextId, freedIds >>,
           \A id \in Ids : storeBeforeReturn.mask'[id] = storeBeforeReturn.mask[id]
    PROVE  storeBeforeReturn' = storeBeforeReturn
<1>1. StoreMask /\ StoreMask'
  BY StoreMaskHolds, StoreMaskHoldsAfter
<1>2. storeBeforeReturn'.mask = storeBeforeReturn.mask
  BY <1>1 DEF StoreMask
<1> QED
  BY <1>1, <1>2 DEF StoreMask

\* As long as the frames that clear an entity stay, or come with the mask the
\* entity has, the store knows nothing of a step.
LEMMA ClearingsStutter ==
    ASSUME IInv, IInv', UNCHANGED << nextId, freedIds >>,
           \A id \in Ids : \A j \in 1 .. Len(stack) : Clears(stack[j], id) =>
              \E i \in 1 .. Len(stack') : Clears(stack'[i], id) /\ stack'[i].was = stack[j].was,
           \A id \in Ids : (\A j \in 1 .. Len(stack) : ~Clears(stack[j], id)) =>
              /\ componentsPresent'[id] = componentsPresent[id]
              /\ \A i \in 1 .. Len(stack') : Clears(stack'[i], id) => stack'[i].was = componentsPresent[id]
    PROVE  storeBeforeReturn' = storeBeforeReturn
<1>1. StoreMask /\ StoreMask'
  BY StoreMaskHolds, StoreMaskHoldsAfter
<1>2. \A f, id : Clears(f, id)' <=> Clears(f, id)
  BY DEF Clears
<1>3. /\ \A id \in Ids : \A j \in 1 .. Len(stack') :
            Clears(stack'[j], id) => storeBeforeReturn.mask'[id] = stack'[j].was
      /\ \A id \in Ids : (\A j \in 1 .. Len(stack') : ~Clears(stack'[j], id))
            => storeBeforeReturn.mask'[id] = componentsPresent'[id]
  BY <1>1 DEF StoreMask, Clears
<1>4. ASSUME NEW id \in Ids PROVE storeBeforeReturn.mask'[id] = storeBeforeReturn.mask[id]
  <2>1. CASE \E j \in 1 .. Len(stack) : Clears(stack[j], id)
    BY <1>1, <1>3, <2>1 DEF StoreMask
  <2>2. CASE \A j \in 1 .. Len(stack) : ~Clears(stack[j], id)
    <3>1. storeBeforeReturn.mask[id] = componentsPresent[id]
      BY <1>1, <2>2 DEF StoreMask
    <3> QED
      BY <1>3, <2>2, <3>1
  <2> QED
    BY <2>1, <2>2
<1> QED
  BY <1>4, SameStore

\* Calling changes nothing in the store,
LEMMA GrownStutters ==
    ASSUME IInv, IInv', Grown
    PROVE  storeBeforeReturn' = storeBeforeReturn
<1>n. PICK n \in Nat : n = Len(stack)
  BY DEF Grown
<1>1. /\ UNCHANGED << nextId, freedIds, componentsPresent >>
      /\ Len(stack') \in {n, n + 1}
      /\ \A j \in 1 .. n : Advanced(stack'[j], stack[j])
      /\ \A j \in 1 .. Len(stack') : j \notin 1 .. n => j = n + 1 /\ NewFrame(stack'[j])
  BY <1>n DEF Grown
<1>2. ASSUME NEW j \in 1 .. n, NEW id
      PROVE  /\ j \in 1 .. Len(stack')
             /\ Clears(stack'[j], id) <=> Clears(stack[j], id)
             /\ Clears(stack[j], id) => stack'[j].was = stack[j].was
  BY <1>1 DEF Advanced, Clears, clearings
<1>3. ASSUME NEW j \in 1 .. Len(stack'), j \notin 1 .. n, NEW id, Clears(stack'[j], id)
      PROVE  stack'[j].was = componentsPresent[id]
  BY <1>1, <1>3 DEF NewFrame, Clears
<1> QED
  BY <1>n, <1>1, <1>2, <1>3, ClearingsStutter

\* nor does a delegate that is fired,
LEMMA FiredStutters ==
    ASSUME IInv, IInv', NEW k \in Nat, Fired(k)
    PROVE  storeBeforeReturn' = storeBeforeReturn
<1>n. PICK n \in Nat \ {0} : n = Len(stack)
  BY DEF Fired
<1>1. /\ top = stack[n] /\ top.op \in loops /\ Len(stack') = n + 1
      /\ \A j \in 1 .. n - 1 : stack'[j] = stack[j]
      /\ stack'[n].op = top.op
      /\ stack'[n + 1].op \in handlers
      /\ UNCHANGED << nextId, freedIds, componentsPresent >>
  BY <1>n DEF Fired, Advanced
<1>2. \A id : /\ ~Clears(stack[n], id) /\ ~Clears(stack'[n], id) /\ ~Clears(stack'[n + 1], id)
  BY <1>1 DEF Clears, loops, clearings, handlers
<1>3. /\ \A j \in 1 .. n : j \in 1 .. n - 1 \/ j = n
      /\ \A j \in 1 .. n + 1 : j \in 1 .. n - 1 \/ j = n \/ j = n + 1
      /\ \A j \in 1 .. n - 1 : j \in 1 .. n + 1 /\ j \in 1 .. n
  OBVIOUS
<1>4. ASSUME NEW id, NEW j \in 1 .. n, Clears(stack[j], id)
      PROVE  \E i \in 1 .. Len(stack') : Clears(stack'[i], id) /\ stack'[i].was = stack[j].was
  BY <1>1, <1>2, <1>3, <1>4
<1>5. ASSUME NEW id, \A j \in 1 .. n : ~Clears(stack[j], id)
      PROVE  \A i \in 1 .. Len(stack') : ~Clears(stack'[i], id)
  BY <1>1, <1>2, <1>3, <1>5
<1> QED
  BY <1>n, <1>1, <1>4, <1>5, ClearingsStutter

\* and nor does a return that clears nothing and leaves the masks alone that
\* no call is clearing.
LEMMA ShrunkStutters ==
    ASSUME IInv, IInv', Shrunk, UNCHANGED << nextId, freedIds >>, top.op \notin clearings,
           \A id \in Ids : (\A j \in 1 .. Len(stack) : ~Clears(stack[j], id)) =>
              componentsPresent'[id] = componentsPresent[id]
    PROVE  storeBeforeReturn' = storeBeforeReturn
<1>n. PICK n \in Nat \ {0} : n = Len(stack)
  BY DEF Shrunk
<1>1. /\ top = stack[n] /\ Len(stack') = n - 1
      /\ \A j \in 1 .. n - 1 : stack'[j] = stack[j]
  BY <1>n, TopFacts DEF Shrunk
<1>2. \A id : ~Clears(stack[n], id)
  BY <1>1 DEF Clears
<1>3. /\ \A j \in 1 .. n : j \in 1 .. n - 1 \/ j = n
      /\ \A j \in 1 .. n - 1 : j \in 1 .. n
  OBVIOUS
<1>4. ASSUME NEW id, NEW j \in 1 .. n, Clears(stack[j], id)
      PROVE  \E i \in 1 .. Len(stack') : Clears(stack'[i], id) /\ stack'[i].was = stack[j].was
  BY <1>1, <1>2, <1>3, <1>4
<1>5. ASSUME NEW id, \A j \in 1 .. n : ~Clears(stack[j], id)
      PROVE  \A i \in 1 .. Len(stack') : ~Clears(stack'[i], id)
  BY <1>1, <1>3, <1>5
<1> QED
  BY <1>n, <1>1, <1>4, <1>5, ClearingsStutter

\* A call that returns, and is not a removal inside a clearing call, leaves in
\* the store what it has made of its entity.
LEMMA ReturnedStore ==
    ASSUME IInv, IInv', Shrunk, top.op \in calls,
           \A j \in 1 .. Len(stack) - 1 : ~Clears(stack[j], top.entity),
           \A id \in Ids : id # top.entity => componentsPresent'[id] = componentsPresent[id]
    PROVE  /\ storeBeforeReturn' =
                [nextId |-> nextId', freedIds |-> freedIds',
                 mask |-> [storeBeforeReturn.mask EXCEPT ![top.entity] = componentsPresent'[top.entity]]]
           /\ top.entity \in Ids /\ top.entity \in live
           /\ storeBeforeReturn.mask[top.entity] =
                IF top.op \in clearings THEN top.was ELSE componentsPresent[top.entity]
<1>n. PICK n \in Nat \ {0} : n = Len(stack)
  BY DEF Shrunk
<1>e. PICK e : e = top.entity
  OBVIOUS
<1>1. /\ top = stack[n] /\ Len(stack') = n - 1 /\ stack # << >>
      /\ \A j \in 1 .. n - 1 : stack'[j] = stack[j]
  BY <1>n, TopFacts DEF Shrunk
<1>2. e \in Ids /\ e \in live
  BY <1>1, <1>e, TopFacts, FrameFacts DEF Fresh, LoopFrame, ClearingFrame, calls, loops, clearings
<1>3. /\ \A j \in 1 .. n : j \in 1 .. n - 1 \/ j = n
      /\ \A j \in 1 .. n - 1 : j \in 1 .. n
      /\ n \in 1 .. n
  OBVIOUS
<1>4. StoreMask /\ StoreMask'
  BY StoreMaskHolds, StoreMaskHoldsAfter
<1>5. /\ \A id \in Ids : \A j \in 1 .. n - 1 :
            Clears(stack[j], id) => storeBeforeReturn.mask'[id] = stack[j].was
      /\ \A id \in Ids : (\A j \in 1 .. n - 1 : ~Clears(stack[j], id))
            => storeBeforeReturn.mask'[id] = componentsPresent'[id]
  BY <1>1, <1>4 DEF StoreMask, Clears
<1>6. storeBeforeReturn.mask'[e] = componentsPresent'[e]
  BY <1>n, <1>e, <1>2, <1>5
<1>7. ASSUME NEW id \in Ids, id # e PROVE storeBeforeReturn.mask'[id] = storeBeforeReturn.mask[id]
  <2>1. ~Clears(stack[n], id)
    BY <1>1, <1>e, <1>7 DEF Clears
  <2>2. CASE \E j \in 1 .. n - 1 : Clears(stack[j], id)
    BY <1>n, <1>3, <1>4, <1>5, <2>2 DEF StoreMask
  <2>3. CASE \A j \in 1 .. n - 1 : ~Clears(stack[j], id)
    <3>1. \A j \in 1 .. Len(stack) : ~Clears(stack[j], id)
      BY <1>n, <1>3, <2>1, <2>3
    <3>2. storeBeforeReturn.mask[id] = componentsPresent[id]
      BY <1>4, <3>1 DEF StoreMask
    <3> QED
      BY <1>e, <1>5, <1>7, <2>3, <3>2
  <2> QED
    BY <2>2, <2>3
<1>8. storeBeforeReturn.mask[e] = IF top.op \in clearings THEN top.was ELSE componentsPresent[e]
  <2>1. CASE top.op \in clearings
    <3>1. Clears(stack[n], e)
      BY <1>1, <1>e, <2>1 DEF Clears
    <3> QED
      BY <1>n, <1>1, <1>2, <1>3, <1>4, <2>1, <3>1 DEF StoreMask
  <2>2. CASE top.op \notin clearings
    <3>1. \A j \in 1 .. Len(stack) : ~Clears(stack[j], e)
      BY <1>n, <1>1, <1>e, <1>3, <2>2 DEF Clears
    <3> QED
      BY <1>2, <1>4, <2>2, <3>1 DEF StoreMask
  <2> QED
    BY <2>1, <2>2
<1>9. storeBeforeReturn.mask' = [storeBeforeReturn.mask EXCEPT ![e] = componentsPresent'[e]]
  <2>1. /\ storeBeforeReturn.mask = [id \in Ids |-> storeBeforeReturn.mask[id]]
        /\ storeBeforeReturn.mask' = [id \in Ids |-> storeBeforeReturn.mask'[id]]
    BY <1>4 DEF StoreMask
  <2> QED
    BY <1>2, <1>6, <1>7, <2>1
<1>10. storeBeforeReturn' = [nextId |-> nextId', freedIds |-> freedIds', mask |-> storeBeforeReturn.mask']
  BY <1>4 DEF StoreMask
<1> QED
  BY <1>e, <1>2, <1>8, <1>9, <1>10

\* createEntity creates the same entity in the store, or none.
LEMMA CreateImplements ==
    ASSUME IInv, IInv', Disciplined, Alive, Handed, createEntity
    PROVE  Store!createEntity
<1>1. /\ UNCHANGED stack
      /\ nextId' = nextIdAfter(nextId, freedIds) /\ freedIds' = freedIdsAfter(freedIds)
  BY CreateEntityMasks
<1>2. StoreMask /\ StoreMask'
  BY StoreMaskHolds, StoreMaskHoldsAfter
<1> DEFINE m == storeBeforeReturn
<1>3. m.nextId = nextId /\ m.freedIds = freedIds /\ m.mask = [id \in Ids |-> m.mask[id]]
  BY <1>2 DEF StoreMask
<1>4. /\ m.mask' = [id \in Ids |-> m.mask'[id]]
      /\ m' = [nextId |-> nextId', freedIds |-> freedIds', mask |-> m.mask']
      /\ \A id \in Ids : \A j \in 1 .. Len(stack) : Clears(stack[j], id) => m.mask'[id] = stack[j].was
      /\ \A id \in Ids : (\A j \in 1 .. Len(stack) : ~Clears(stack[j], id))
            => m.mask'[id] = componentsPresent'[id]
  BY <1>1, <1>2 DEF StoreMask, Clears
<1>5. \A id \in Ids : componentsPresent'[id] = componentsPresent[id] => m.mask'[id] = m.mask[id]
  BY <1>2, <1>4 DEF StoreMask
<1>6. /\ Store!nextIdAfter(nextId, freedIds) = nextId' /\ Store!freedIdsAfter(freedIds) = freedIds'
  BY <1>1 DEF nextIdAfter, freedIdsAfter, Store!nextIdAfter, Store!freedIdsAfter
<1>7. m.mask' = [id \in Ids |-> IF id = Store!newId(m) THEN {EXISTENCE} ELSE m.mask[id]]
  <2>1. CASE outOfIds(nextId, freedIds) /\ UNCHANGED componentsPresent
    <3>1. Store!newId(m) = 0
      BY <1>3, <2>1 DEF Store!newId, Store!outOfIds, outOfIds
    <3>2. \A id \in Ids : m.mask'[id] = m.mask[id]
      BY <1>5, <2>1
    <3> HIDE DEF m
    <3> QED
      BY <1>4, <3>1, <3>2, SameIds
  <2>2. ASSUME NEW id \in Ids, ~outOfIds(nextId, freedIds), id = newIdFrom(nextId, freedIds),
               componentsPresent' =
                  [componentsPresent EXCEPT ![id] = componentsPresent[id] \union {EXISTENCE}],
               id \notin live => componentsPresent[id] = {}
        PROVE  m.mask' = [i \in Ids |-> IF i = Store!newId(m) THEN {EXISTENCE} ELSE m.mask[i]]
    <3>1. Store!newId(m) = id
      BY <1>3, <2>2 DEF Store!newId, Store!outOfIds, outOfIds, Store!newIdFrom, newIdFrom
    <3>2. id \notin live
      BY <2>2, NewIdIsNew
    <3>3. componentsPresent'[id] = {EXISTENCE}
      BY <2>2, <3>2 DEF IInv, Typed
    <3>4. \A j \in 1 .. Len(stack) : ~Clears(stack[j], id)
      BY <3>2 DEF Clears, IInv, Good, AllFresh, Fresh, calls, clearings
    <3>5. m.mask'[id] = {EXISTENCE}
      BY <1>4, <3>3, <3>4
    <3>6. \A i \in Ids : i # id => m.mask'[i] = m.mask[i]
      BY <1>5, <2>2 DEF IInv, Typed
    <3> HIDE DEF m
    <3> QED
      BY <1>4, <3>1, <3>5, <3>6
  <2> QED
    BY <2>1, <2>2, CreateEntityMasks
<1> HIDE DEF m
<1>8. m' = Store!created(m)
  BY <1>3, <1>4, <1>6, <1>7, SameIds DEF Store!created
<1> QED
  BY <1>8 DEF Store!createEntity, m

\* The store's mask of an entity that no call below is clearing is its own.
LEMMA LivesInStore ==
    ASSUME NEW m, NEW id \in Ids
    PROVE  Store!lives(m, id) <=> m.mask[id] # {}
  BY SameIds DEF Store!lives, Store!getComponents

\* addComp changes the store when it returns.
LEMMA AddImplements ==
    ASSUME IInv, IInv', Disciplined, Checked, addCompReturns
    PROVE  \E id \in Ids, c \in Comps : Store!addComp(id, c)
<1>e. PICK e : e = top.entity
  OBVIOUS
<1>c. PICK c : c = top.c
  OBVIOUS
<1>1. /\ Shrunk /\ top.op = "add" /\ UNCHANGED << nextId, freedIds >>
      /\ componentsPresent' = [componentsPresent EXCEPT ![e] = componentsPresent[e] \union {c}]
  BY <1>e, <1>c, AddCompShrinks
<1>2. stack # << >> /\ Len(stack) \in 1 .. Len(stack) /\ top = stack[Len(stack)] /\ c \in Comps
  BY <1>1, <1>c, TopFacts, LoopFacts DEF Shrunk, loops
<1>3. \A j \in 1 .. Len(stack) - 1 : ~Clears(stack[j], e)
  BY <1>1, <1>2, <1>e, AboutTop DEF Clears, calls, clearings
<1>4. /\ storeBeforeReturn' =
            [nextId |-> nextId, freedIds |-> freedIds,
             mask |-> [storeBeforeReturn.mask EXCEPT ![e] = componentsPresent'[e]]]
      /\ e \in Ids /\ e \in live
      /\ storeBeforeReturn.mask[e] = componentsPresent[e]
  <2>1. top.op \in calls /\ top.op \notin clearings
    BY <1>1 DEF calls, clearings
  <2>2. \A id \in Ids : id # top.entity => componentsPresent'[id] = componentsPresent[id]
    BY <1>1, <1>e DEF IInv, Typed
  <2> QED
    BY <1>1, <1>3, <1>e, <2>1, <2>2, ReturnedStore
<1>5. componentsPresent'[e] = componentsPresent[e] \union {c} /\ EXISTENCE \in componentsPresent[e]
  BY <1>1, <1>4, LiveMask DEF IInv, Typed
<1>6. requiredComps(c) \subseteq componentsPresent[e] /\ c \notin componentsPresent[e]
  BY <1>1, <1>2, <1>c, <1>e DEF Checked
<1> DEFINE m == storeBeforeReturn
<1>7. m = [nextId |-> nextId, freedIds |-> freedIds, mask |-> m.mask]
  BY StoreMaskHolds DEF StoreMask
<1>8. Store!insertable(m, e, c)
  <2>1. Store!lives(m, e)
    BY <1>4, <1>5, LivesInStore
  <2> QED
    BY <1>4, <1>6, <2>1 DEF requiredComps, Store!insertable, Store!requiredComps,
                            Store!passesPrerequisitesForAddition
<1>9. m' = Store!inserted(m, e, c)
  BY <1>4, <1>5, <1>7, <1>8 DEF Store!inserted, Store!turnOnFlags
<1> QED
  BY <1>2, <1>4, <1>8, <1>9 DEF Store!addComp

\* So does remComp, if it is not a clearing call that waits for it.
LEMMA RemImplements ==
    ASSUME IInv, IInv', Disciplined, Checked, remCompReturns
    PROVE  \/ \E id \in Ids, c \in Comps : Store!remComp(id, c)
           \/ storeBeforeReturn' = storeBeforeReturn
<1>e. PICK e : e = top.entity
  OBVIOUS
<1>c. PICK c : c = top.c
  OBVIOUS
<1>n. PICK n \in Nat \ {0} : n = Len(stack)
  BY RemCompShrinks DEF Shrunk
<1>1. /\ Shrunk /\ top.op = "rem" /\ UNCHANGED << nextId, freedIds >>
      /\ componentsPresent' = [componentsPresent EXCEPT ![e] = componentsPresent[e] \ {c}]
  BY <1>e, <1>c, RemCompShrinks
<1>2. stack # << >> /\ n \in 1 .. Len(stack) /\ top = stack[n] /\ c \in Comps
  BY <1>1, <1>c, <1>n, TopFacts, LoopFacts DEF Shrunk, loops
<1>m. \A id \in Ids : id # e => componentsPresent'[id] = componentsPresent[id]
  BY <1>1 DEF IInv, Typed
<1>3. CASE n > 1 /\ stack[n - 1].op \in clearings
  <2>1. n - 1 \in 1 .. Len(stack) - 1 /\ n - 1 + 1 = n /\ n - 1 \in 1 .. Len(stack)
    BY <1>n, <1>3
  <2>2. Clears(stack[n - 1], e)
    BY <1>2, <1>3, <1>e, <2>1, UnderRemoval DEF Clears
  <2> QED
    BY <1>1, <1>m, <2>1, <2>2, ShrunkStutters DEF clearings
<1>4. CASE ~(n > 1 /\ stack[n - 1].op \in clearings)
  <2>1. \A j \in 1 .. Len(stack) - 1 : ~Clears(stack[j], e)
    BY <1>1, <1>2, <1>4, <1>e, <1>n, AboutTop DEF Clears, calls, clearings
  <2>2. /\ storeBeforeReturn' =
              [nextId |-> nextId, freedIds |-> freedIds,
               mask |-> [storeBeforeReturn.mask EXCEPT ![e] = componentsPresent'[e]]]
        /\ e \in Ids /\ e \in live
        /\ storeBeforeReturn.mask[e] = componentsPresent[e]
    <3>1. top.op \in calls /\ top.op \notin clearings
      BY <1>1 DEF calls, clearings
    <3> QED
      BY <1>1, <1>e, <1>m, <2>1, <3>1, ReturnedStore
  <2>3. componentsPresent'[e] = componentsPresent[e] \ {c} /\ EXISTENCE \in componentsPresent[e]
    BY <1>1, <2>2, LiveMask DEF IInv, Typed
  <2>4. c \in componentsPresent[e] /\ passesDependenciesForRemoval(componentsPresent[e], dependentComps(c))
    BY <1>1, <1>2, <1>4, <1>c, <1>e DEF Checked
  <2> DEFINE m == storeBeforeReturn
  <2>5. m = [nextId |-> nextId, freedIds |-> freedIds, mask |-> m.mask]
    BY StoreMaskHolds DEF StoreMask
  <2>6. Store!removable(m, e, c)
    <3>1. Store!lives(m, e)
      BY <2>2, <2>3, LivesInStore
    <3> QED
      BY <2>2, <2>4, <3>1 DEF passesDependenciesForRemoval, dependentComps, Store!removable,
                              Store!dependentComps, Store!passesDependenciesForRemoval
  <2>7. m' = Store!removed(m, e, c)
    BY SMTT(20), <2>2, <2>3, <2>5, <2>6 DEF Store!removed, Store!turnOffFlags
  <2> QED
    BY <1>2, <2>2, <2>6, <2>7 DEF Store!remComp
<1> QED
  BY <1>3, <1>4

\* When a clearing loop is through the entity is empty.
LEMMA ClearedEmpty ==
    ASSUME IInv, Checked, stack # << >>, top.op \in clearings, clearLoopDone
    PROVE  /\ componentsPresent[top.entity] = {EXISTENCE}
           /\ EXISTENCE \in top.was
           /\ \A j \in 1 .. Len(stack) - 1 : ~Clears(stack[j], top.entity)
<1>e. PICK e : e = top.entity
  OBVIOUS
<1>1. /\ Len(stack) \in 1 .. Len(stack) /\ top = stack[Len(stack)] /\ top \in ClearingFrame
      /\ e \in live /\ e \in Ids /\ top.pos \in 1 .. Len(CompOrder) + 1
  <2>1. /\ Len(stack) \in 1 .. Len(stack) /\ top = stack[Len(stack)] /\ top \in ClearingFrame
        /\ top.entity \in live /\ top.pos \in 1 .. Len(CompOrder) + 1
    BY TopFacts, FrameFacts DEF Fresh, calls, clearings
  <2> QED
    BY <1>e, <2>1 DEF ClearingFrame
<1>2. past(Len(stack)) = Len(CompOrder)
  BY <1>1, CompsAssumption DEF past, clearLoopDone
<1>3. componentsPresent[e] \subseteq top.was /\ \A k \in 1 .. Len(CompOrder) : CompOrder[k] \notin componentsPresent[e]
  BY <1>1, <1>2, <1>e DEF Checked
<1>4. \A c \in Comps : c \notin componentsPresent[e]
  BY <1>3, CompsAssumption
<1>5. EXISTENCE \in componentsPresent[e] /\ componentsPresent[e] \subseteq AllComps
  BY <1>1, LiveMask DEF IInv, Typed, compMask
<1>6. \A j \in 1 .. Len(stack) - 1 : ~Clears(stack[j], e)
  BY <1>e, AboutTop DEF Clears, calls, clearings
<1> QED
  BY <1>e, <1>3, <1>4, <1>5, <1>6 DEF AllComps

\* clearEntity empties it in the store,
LEMMA ClearImplements ==
    ASSUME IInv, IInv', Disciplined, Checked, clearEntityReturns
    PROVE  \E id \in Ids : Store!clearEntity(id)
<1>e. PICK e : e = top.entity
  OBVIOUS
<1>1. /\ Shrunk /\ stack # << >> /\ top.op \in clearings /\ top.op \in calls /\ clearLoopDone
      /\ UNCHANGED << nextId, freedIds, componentsPresent >>
  BY QuietShrinks DEF clearEntityReturns, resumes, clearings, calls
<1>2. /\ componentsPresent[e] = {EXISTENCE} /\ EXISTENCE \in top.was
      /\ \A j \in 1 .. Len(stack) - 1 : ~Clears(stack[j], e)
  BY <1>1, <1>e, ClearedEmpty
<1> DEFINE m == storeBeforeReturn
<1>3. /\ m' = [nextId |-> nextId, freedIds |-> freedIds, mask |-> [m.mask EXCEPT ![e] = {EXISTENCE}]]
      /\ e \in Ids /\ m.mask[e] = top.was
  BY <1>1, <1>2, <1>e, ReturnedStore
<1>4. m = [nextId |-> nextId, freedIds |-> freedIds, mask |-> m.mask]
  BY StoreMaskHolds DEF StoreMask
<1>5. Store!lives(m, e)
  BY <1>2, <1>3, LivesInStore
<1>6. m' = Store!cleared(m, e)
  BY <1>3, <1>4, <1>5 DEF Store!cleared
<1> QED
  BY <1>3, <1>5, <1>6 DEF Store!clearEntity

\* What it is for the store to delete an entity.
LEMMA DeletedStore ==
    ASSUME NEW n, NEW f, NEW mask, NEW id,
           Store!lives([nextId |-> n, freedIds |-> f, mask |-> mask], id)
    PROVE  Store!deleted([nextId |-> n, freedIds |-> f, mask |-> mask], id)
               = [nextId |-> n, freedIds |-> pushFreed(f, id), mask |-> [mask EXCEPT ![id] = {}]]
  BY DEF Store!deleted, Store!pushFreed, pushFreed

\* and deleteEntity deletes it there.
LEMMA DeleteImplements ==
    ASSUME IInv, IInv', Disciplined, Checked, deleteEntityReturns
    PROVE  \E id \in Ids : Store!deleteEntity(id)
<1>e. PICK e : e = top.entity
  OBVIOUS
<1>1. stack # << >> /\ top.op \in clearings /\ top.op \in calls /\ clearLoopDone
  BY DEF deleteEntityReturns, resumes, clearings, calls
<1>2. /\ componentsPresent[e] = {EXISTENCE} /\ EXISTENCE \in top.was
      /\ \A j \in 1 .. Len(stack) - 1 : ~Clears(stack[j], e)
  BY <1>1, <1>e, ClearedEmpty
<1>3. /\ Shrunk /\ UNCHANGED nextId /\ freedIds' = pushFreed(freedIds, e)
      /\ componentsPresent' = [componentsPresent EXCEPT ![e] = {}]
  BY <1>2, <1>e, DeleteShrinks
<1> DEFINE m == storeBeforeReturn
<1>4. /\ m' = [nextId |-> nextId, freedIds |-> pushFreed(freedIds, e), mask |-> [m.mask EXCEPT ![e] = {}]]
      /\ e \in Ids /\ m.mask[e] = top.was
  <2>1. \A id \in Ids : id # e => componentsPresent'[id] = componentsPresent[id]
    BY <1>3 DEF IInv, Typed
  <2>2. e \in Ids => componentsPresent'[e] = {}
    BY <1>3 DEF IInv, Typed
  <2> QED
    BY <1>1, <1>2, <1>3, <1>e, <2>1, <2>2, ReturnedStore
<1>5. m = [nextId |-> nextId, freedIds |-> freedIds, mask |-> m.mask]
  BY StoreMaskHolds DEF StoreMask
<1>6. Store!lives(m, e)
  BY <1>2, <1>4, LivesInStore
<1>7. m' = Store!deleted(m, e)
  <2> HIDE DEF m
  <2> QED
    BY <1>4, <1>5, <1>6, DeletedStore
<1> QED
  BY <1>4, <1>6, <1>7 DEF Store!deleteEntity

\* Every step is one of the store's, or none.
LEMMA StepImplements ==
    ASSUME IInv, IInv', Disciplined, Alive, Handed, Checked, [Next]_vars
    PROVE  [Store!Next]_storeBeforeReturn
<1>1. CASE createEntity
  BY <1>1, CreateImplements DEF Store!Next
<1>2. CASE Grown
  BY <1>2, GrownStutters
<1>3. CASE (\E s \in Systems : listenForLikeEntities(s)) \/ UNCHANGED vars
  <2>1. UNCHANGED << nextId, freedIds, componentsPresent, stack >>
    BY <1>3 DEF listenForLikeEntities, onlyAtTop, Disciplined, spoil, vars, stateVars, idVars
  <2> QED
    BY <2>1 DEF storeBeforeReturn, onStack
<1>4. ASSUME NEW k \in Nat, Fired(k) PROVE [Store!Next]_storeBeforeReturn
  BY <1>4, FiredStutters
<1>5. CASE discoverReturns \/ forgetReturns
  <2>1. Shrunk /\ UNCHANGED << nextId, freedIds, componentsPresent >> /\ top.op \notin clearings
    BY <1>5, DiscoverShrinks, ForgetShrinks DEF stateVars, idVars, clearings
  <2> QED
    BY <2>1, ShrunkStutters
<1>6. CASE addCompReturns
  BY <1>6, AddImplements, SameIds DEF Store!Next
<1>7. CASE remCompReturns
  BY <1>7, RemImplements, SameIds DEF Store!Next
<1>8. CASE deleteEntityReturns
  BY <1>8, DeleteImplements, SameIds DEF Store!Next
<1>9. CASE clearEntityReturns
  BY <1>9, ClearImplements, SameIds DEF Store!Next
<1>10. CASE clearReturns
  <2>1. Shrunk /\ UNCHANGED << nextId, freedIds, componentsPresent >>
    BY <1>10, QuietShrinks
  <2>2. top.op \notin clearings
    BY <1>10 DEF clearReturns, resumes, clearings
  <2> QED
    BY <2>1, <2>2, ShrunkStutters
<1> QED
  BY <1>1, <1>2, <1>3, <1>4, <1>5, <1>6, <1>7, <1>8, <1>9, <1>10, StepsOfNext

\* However deep calls go, each method of State changes the entities as if it
\* were alone, at the moment it returns: what EntityStore promises.
THEOREM CallsAreAtomic == Disciplined => (Spec => CallsAtomic)
<1> SUFFICES ASSUME Disciplined PROVE Spec => CallsAtomic
  OBVIOUS
<1> DEFINE J == IInv /\ Known /\ Alive /\ Checked /\ Handed
<1>1. Init => J
  BY InvariantInitially, KnownInitially DEF Init, Checked, Handed, live, AllComps
<1>2. J /\ [Next]_vars => J'
  BY InvariantKept, KnownKept, AliveKept, CheckedKept, HandedKept
<1>3. Init => Store!Init
  <2> SUFFICES ASSUME Init PROVE Store!Init
    OBVIOUS
  <2>1. onStack({"clearEntity", "deleteEntity"}) = {}
    BY DEF Init, onStack
  <2> QED
    BY <2>1, SameIds DEF Init, storeBeforeReturn, Store!Init, Store!emptyMachine
<1>4. J /\ J' /\ [Next]_vars => [Store!Next]_storeBeforeReturn
  BY StepImplements
<1> HIDE DEF J
<1> QED
  BY <1>1, <1>2, <1>3, <1>4, PTL DEF Spec, CallsAtomic, Store!Spec

====
