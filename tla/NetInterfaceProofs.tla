---- MODULE NetInterfaceProofs ----
(***************************************************************************)
(* Proofs about NetInterface and the DiscordContext it owns, for any       *)
(* machines, users and bounds: roles and client lists first, then what the *)
(* recursive functions "among" and sumOf compute and the invariants about  *)
(* packets and clientSum that need it, and last what frnd answers.         *)
(***************************************************************************)
EXTENDS NetInterface, Induction, FiniteSetTheorems

\* The steps that leave the role and the peers alone, and those that leave
\* Discord alone.
LEMMA PeersStay ==
    ASSUME [Next]_vars
    PROVE  \/ UNCHANGED << currentRole, server, client >>
           \/ \E role \in Role, starts \in BOOLEAN, reserved \in BOOLEAN : assumeRole(role, starts, reserved)
  BY DEF Next, vars, netVars, askDiscord, tick, discardRequestPackets, discardSyncPackets,
         discardFreshConnections, getClientGuids, connects, leaves, sends, Role

\* There is a peer of one kind for the role that needs it, whether it started
\* or not, and for no other.
PeersFitRole ==
    /\ server = "none" <=> currentRole # "SERVER"
    /\ client = "none" <=> currentRole # "CLIENT"

\* A step keeps that, and where a server is still in the way of the next one the
\* role it belongs to was never given up.
LEMMA PeersStep ==
    ASSUME PeersFitRole, [Next]_vars
    PROVE  /\ PeersFitRole'
           /\ UNCHANGED << currentRole, server, client >> \/ (server' = "blocked" => currentRole = "SERVER")
<1>1. CASE UNCHANGED << currentRole, server, client >>
  BY <1>1 DEF PeersFitRole
<1>2. ASSUME NEW role \in Role, NEW starts \in BOOLEAN, NEW reserved \in BOOLEAN,
             assumeRole(role, starts, reserved)
      PROVE  PeersFitRole' /\ (server' = "blocked" => currentRole = "SERVER")
  <2>1. CASE reserved
    BY <1>2, <2>1 DEF assumeRole, PeersFitRole, resets
  <2>2. CASE ~reserved /\ role = "SERVER"
    BY <1>2, <2>2 DEF assumeRole, PeersFitRole, resets, freshServer
  <2>3. CASE ~reserved /\ role = "CLIENT"
    BY <1>2, <2>3 DEF assumeRole, PeersFitRole, resets, freshClient
  <2>4. CASE ~reserved /\ role = "NONE"
    BY <1>2, <2>4 DEF assumeRole, PeersFitRole, resets
  <2> QED
    BY <2>1, <2>2, <2>3, <2>4 DEF Role
<1> QED
  BY <1>1, <1>2, PeersStay

\* There is a peer of one kind exactly for the role that needs it, and a new
\* server finds the port taken by an old one only if the program asked for the
\* role of server while it had it.
THEOREM RoleCorrect == Spec => RoleMatchesPeer
<1> DEFINE RoleInv == PeersFitRole /\ (server = "blocked" => currentRole = "SERVER")
<1>1. Init => RoleInv
  BY DEF Init, PeersFitRole
<1>2. RoleInv /\ [Next]_vars => RoleInv'
  <2> SUFFICES ASSUME RoleInv, [Next]_vars PROVE RoleInv'
    OBVIOUS
  <2>1. PeersFitRole'
    BY PeersStep
  <2> QED
    BY <2>1 DEF PeersFitRole
<1>3. RoleInv /\ [Next]_vars =>
          [ /\ server' = "none" <=> currentRole' # "SERVER"
            /\ client' = "none" <=> currentRole' # "CLIENT"
            /\ server' = "blocked" => currentRole = "SERVER" ]_vars
  <2> SUFFICES ASSUME RoleInv, [Next]_vars
               PROVE  /\ server' = "none" <=> currentRole' # "SERVER"
                      /\ client' = "none" <=> currentRole' # "CLIENT"
                      /\ server' = "blocked" => currentRole = "SERVER"
    OBVIOUS
  <2> QED
    BY PeersStep DEF PeersFitRole
<1> HIDE DEF RoleInv
<1> QED
  BY <1>1, <1>2, <1>3, PTL DEF Spec, RoleMatchesPeer

--------------------------------------------------------------------------
(* The lists of clients *)

\* What a server's list lacks is on its way: either it knows that the list is
\* old, or it will find a notification when it next receives.
noticed == \E i \in DOMAIN inbox : changesConnections(inbox[i])
ListInv ==
    /\ inbox \in Seq(Message)
    /\ currentRole = "SERVER" => connectionListsDirty \/ guids = connected \/ noticed

\* What arrives is in the inbox beside all that was there.
LEMMA Arrives ==
    ASSUME inbox \in Seq(Message), NEW m \in Message, arrives(m)
    PROVE  /\ inbox' \in Seq(Message)
           /\ noticed => noticed'
           /\ changesConnections(m) => noticed'
  <1>1. inbox' = Append(inbox, m)
    BY DEF arrives
  <1>2. /\ inbox' \in Seq(Message)
        /\ Len(inbox') = Len(inbox) + 1 /\ inbox'[Len(inbox) + 1] = m
        /\ \A i \in 1 .. Len(inbox) : inbox'[i] = inbox[i]
    BY <1>1
  <1>3. /\ DOMAIN inbox = 1 .. Len(inbox) /\ DOMAIN inbox' = 1 .. Len(inbox) + 1
        /\ Len(inbox) \in Nat
    BY <1>2
  <1>4. noticed => noticed'
    BY <1>2, <1>3 DEF noticed, changesConnections, leavings
  <1>5. changesConnections(m) => noticed'
    BY <1>2, <1>3 DEF noticed, changesConnections, leavings
  <1> QED BY <1>2, <1>4, <1>5

\* Coming, going and sending puts what happens to the connections into the
\* inbox.
LEMMA ListNetwork ==
    ASSUME ListInv,
           \/ \E g \in Guids : connects(g)
           \/ \E g \in Guids, how \in {"DISCONNECTION_NOTIFICATION", "CONNECTION_LOST"} :
                  leaves(g, how)
           \/ \E kind \in {"ECS_REQUEST", "SYNC", "OTHER"} : sends(kind)
    PROVE  ListInv'
  <1>1. ASSUME NEW g \in Guids, connects(g) PROVE ListInv'
    <2> DEFINE m == [id |-> "NEW_INCOMING_CONNECTION", from |-> g]
    <2>1. m \in Message /\ changesConnections(m)
      BY DEF Message, changesConnections
    <2>2. arrives(m) /\ UNCHANGED currentRole
      BY <1>1 DEF connects
    <2> HIDE DEF m
    <2> QED BY <2>1, <2>2, Arrives DEF ListInv
  <1>2. ASSUME NEW g \in Guids, leaves(g, "DISCONNECTION_NOTIFICATION") \/ leaves(g, "CONNECTION_LOST")
        PROVE  ListInv'
    <2>1. PICK how \in {"DISCONNECTION_NOTIFICATION", "CONNECTION_LOST"} : leaves(g, how)
      BY <1>2
    <2> DEFINE m == [id |-> how, from |-> g]
    <2>2. m \in Message /\ changesConnections(m)
      BY DEF Message, changesConnections, leavings
    <2>3. arrives(m) /\ UNCHANGED currentRole
      BY <2>1 DEF leaves
    <2> HIDE DEF m
    <2> QED BY <2>2, <2>3, Arrives DEF ListInv
  <1>3. ASSUME NEW kind \in {"ECS_REQUEST", "SYNC", "OTHER"}, sends(kind) PROVE ListInv'
    <2>1. packet(kind) \in Message
      BY DEF Message, packet
    <2>2. arrives(packet(kind))
          /\ UNCHANGED << currentRole, connectionListsDirty, guids, connected >>
      BY <1>3 DEF sends, serverVars
    <2> QED BY <2>1, <2>2, Arrives DEF ListInv
  <1> QED BY <1>1, <1>2, <1>3

\* A server that has handled its notifications either knows that its list of
\* clients is old or has the right one.
THEOREM ListsCorrect == Spec => []ListsUpToDate
  <1>1. Init => ListInv
    BY DEF Init, ListInv
  <1>2. ListInv /\ [Next]_vars => ListInv'
    <2> SUFFICES ASSUME ListInv, [Next]_vars PROVE ListInv'
      OBVIOUS
    <2>1. CASE UNCHANGED << currentRole, inbox, connected, guids, connectionListsDirty >>
      BY <2>1 DEF ListInv, noticed
    <2>2. ASSUME NEW role \in Role, NEW starts \in BOOLEAN, NEW reserved \in BOOLEAN,
           assumeRole(role, starts, reserved)
          PROVE  ListInv'
      BY <2>2 DEF assumeRole, noPeer, freshFields, ListInv
    <2>3. CASE tick
      <3>1. /\ UNCHANGED << currentRole, connected >> /\ inbox' = << >>
            /\ currentRole = "SERVER" => noteConnections
        BY <2>3 DEF tick
      <3>2. currentRole = "SERVER" => connectionListsDirty' \/ guids' = connected'
        BY <3>1 DEF noteConnections, ListInv, noticed
      <3> QED BY <3>1, <3>2 DEF ListInv
    <2>4. CASE getClientGuids
      BY <2>4 DEF getClientGuids, ListInv
    <2>5. CASE discardRequestPackets \/ discardSyncPackets \/ discardFreshConnections
      BY <2>1, <2>5
      DEF discardRequestPackets, discardSyncPackets, discardFreshConnections, serverVars
    <2>6. CASE askDiscord \/ UNCHANGED vars
      BY <2>1, <2>6 DEF askDiscord, vars, netVars, serverVars
    <2> QED
      BY <2>2, <2>3, <2>4, <2>5, <2>6, ListNetwork DEF Next, Role
  <1>3. ListInv => ListsUpToDate
    BY DEF ListInv, ListsUpToDate, noticed
  <1> QED BY <1>1, <1>2, <1>3, PTL DEF Spec

--------------------------------------------------------------------------
\* What connect returned is the truth as long as nobody connects again.
CoreInv == ~nullUsed /\ (connectReturned => core)

\* Every use of Discord is one of these.
LEMMA DiscordSteps ==
    ASSUME [Next]_vars
    PROVE  \/ UNCHANGED << core, connectReturned, nullUsed >>
           \/ connect
           \/ usesCore /\ UNCHANGED << core, connectReturned >>
  BY DEF Next, vars, discordVars, assumeRole, askDiscord, tick, tickDiscord, listLobbies, host,
         frnd, frndNobody, discardRequestPackets, discardSyncPackets, discardFreshConnections,
         getClientGuids, connects, leaves, sends

\* A game that asks for the role of server, and uses Discord, only after its
\* last connect has returned true never makes NetInterface go through a
\* null core.
THEOREM CoreCorrect == ASSUME ConnectsFirst PROVE Spec => []NoNullCore
  <1>1. Init => CoreInv
    BY DEF Init, DiscordInit, CoreInv
  <1>2. CoreInv /\ [Next]_vars => CoreInv'
    <2> SUFFICES ASSUME CoreInv, [Next]_vars PROVE CoreInv'
      OBVIOUS
    <2>1. CASE UNCHANGED << core, connectReturned, nullUsed >>
      BY <2>1 DEF CoreInv
    <2>2. CASE connect
      BY <2>2 DEF connect, connectResult, CoreInv
    <2>3. CASE usesCore /\ UNCHANGED << core, connectReturned >>
      BY <2>3 DEF usesCore, CoreInv
    <2> QED BY <2>1, <2>2, <2>3, DiscordSteps
  <1>3. CoreInv => NoNullCore
    BY DEF CoreInv, NoNullCore
  <1> QED BY <1>1, <1>2, <1>3, PTL DEF Spec

--------------------------------------------------------------------------
(* Selecting messages *)

\* What the recursive function in "among" is for a list of messages.
Selecting(f, s, ids) ==
    /\ f[0] = << >>
    /\ \A k \in 1 .. Len(s) : f[k] = IF s[k].id \in ids THEN Append(f[k - 1], s[k]) ELSE f[k - 1]

\* It exists, and "among" is its last value.
LEMMA SelectingExists ==
    ASSUME NEW s \in Seq(Message), NEW ids
    PROVE  \E f \in [0 .. Len(s) -> Seq(Message)] : Selecting(f, s, ids) /\ among(s, ids) = f[Len(s)]
<1> DEFINE n == Len(s)
           step == [k \in 1 .. n |-> [q \in Seq(Message) |->
                       IF s[k].id \in ids THEN Append(q, s[k]) ELSE q]]
           upTo[k \in 0 .. n] ==
               IF k = 0 THEN << >>
               ELSE IF s[k].id \in ids THEN Append(upTo[k - 1], s[k]) ELSE upTo[k - 1]
<1>1. n \in Nat /\ \A k \in 1 .. n : s[k] \in Message
  OBVIOUS
<1>2. among(s, ids) = upTo[n]
  BY DEF among
<1>3. step \in [1 .. n -> [Seq(Message) -> Seq(Message)]]
  BY <1>1
<1>n. PICK m \in Nat : m = n
  BY <1>1
<1> HIDE DEF n
<1>4. PICK f \in [0 .. n -> Seq(Message)] : Recursion(f, n, << >>, step)
  <2>1. << >> \in Seq(Message) /\ n \in Nat
    BY <1>1
  <2> HIDE DEF step
  <2> QED
    BY <1>3, <2>1, RecursionExists
<1>5. f = [k \in 0 .. n |->
             IF k = 0 THEN << >>
             ELSE IF s[k].id \in ids THEN Append(f[k - 1], s[k]) ELSE f[k - 1]]
  <2>1. ASSUME NEW k \in 0 .. n
        PROVE  f[k] = IF k = 0 THEN << >>
                      ELSE IF s[k].id \in ids THEN Append(f[k - 1], s[k]) ELSE f[k - 1]
    <3>1. f[k] = IF k = 0 THEN << >> ELSE step[k][f[k - 1]]
      BY <1>4 DEF Recursion
    <3>2. CASE k = 0
      BY <3>1, <3>2
    <3>3. CASE k # 0
      <4>1. k \in 1 .. n /\ f[k - 1] \in Seq(Message)
        BY <1>1, <1>4, <3>3
      <4> QED
        BY <3>1, <3>3, <4>1
    <3> QED
      BY <3>2, <3>3
  <2> QED
    BY <2>1
<1>6. upTo = [k \in 0 .. n |->
             IF k = 0 THEN << >>
             ELSE IF s[k].id \in ids THEN Append(upTo[k - 1], s[k]) ELSE upTo[k - 1]]
  BY <1>5 DEF upTo
<1> HIDE DEF upTo, step
<1>7. \A k \in 0 .. n :
         /\ upTo[k] = IF k = 0 THEN << >>
                      ELSE IF s[k].id \in ids THEN Append(upTo[k - 1], s[k]) ELSE upTo[k - 1]
         /\ f[k] = IF k = 0 THEN << >>
                   ELSE IF s[k].id \in ids THEN Append(f[k - 1], s[k]) ELSE f[k - 1]
  BY <1>5, <1>6
<1>8. \A k \in 1 .. n : k \in 0 .. n /\ k # 0
  BY <1>1
<1>9. 0 \in 0 .. n /\ n \in 0 .. n
  BY <1>1
<1>10. GoOnAlike(upTo, f, n)
  BY <1>7, <1>8, <1>9 DEF GoOnAlike
<1>11. upTo[n] = f[n]
  <2>1. \A k \in 0 .. n : upTo[k] = f[k]
    BY <1>1, <1>10, AlikeUpTo
  <2> QED
    BY <1>9, <2>1
<1>12. Selecting(f, s, ids)
  BY <1>7, <1>8, <1>9 DEF Selecting, n
<1> QED
  BY <1>2, <1>4, <1>11, <1>12 DEF n

\* There is no other.
LEMMA SelectingUnique ==
    ASSUME NEW s \in Seq(Message), NEW ids, NEW f, Selecting(f, s, ids)
    PROVE  among(s, ids) = f[Len(s)]
<1> DEFINE n == Len(s)
<1>1. PICK g \in [0 .. n -> Seq(Message)] : Selecting(g, s, ids) /\ among(s, ids) = g[n]
  BY SelectingExists
<1>2. n \in Nat /\ n \in 0 .. n
  OBVIOUS
<1>3. GoOnAlike(f, g, n)
  BY <1>1 DEF Selecting, GoOnAlike
<1> HIDE DEF n
<1>4. \A k \in 0 .. n : f[k] = g[k]
  BY <1>2, <1>3, AlikeUpTo
<1> QED
  BY <1>1, <1>2, <1>4 DEF n

\* A message that arrives is selected after all others.
LEMMA AmongAppend ==
    ASSUME NEW s \in Seq(Message), NEW m \in Message, NEW ids
    PROVE  among(Append(s, m), ids) = IF m.id \in ids THEN Append(among(s, ids), m) ELSE among(s, ids)
<1> DEFINE n == Len(s)
           t == Append(s, m)
<1>1. PICK f \in [0 .. n -> Seq(Message)] : Selecting(f, s, ids) /\ among(s, ids) = f[n]
  BY SelectingExists
<1>2. /\ n \in Nat /\ t \in Seq(Message) /\ Len(t) = n + 1 /\ t[n + 1] = m
      /\ \A k \in 1 .. n : t[k] = s[k]
  OBVIOUS
<1> DEFINE last == IF m.id \in ids THEN Append(f[n], m) ELSE f[n]
           g == [k \in 0 .. n + 1 |-> IF k = n + 1 THEN last ELSE f[k]]
<1> HIDE DEF t, n, last
<1>3. g[0] = << >> /\ g[n + 1] = last /\ \A k \in 0 .. n : g[k] = f[k]
  BY <1>1, <1>2 DEF Selecting
<1>4. ASSUME NEW k \in 1 .. n + 1
      PROVE  g[k] = IF t[k].id \in ids THEN Append(g[k - 1], t[k]) ELSE g[k - 1]
  <2>1. CASE k = n + 1
    <3>1. k - 1 = n /\ n \in 0 .. n /\ t[k] = m /\ g[k] = last
      BY <1>2, <1>3, <2>1
    <3> QED
      BY <1>3, <3>1 DEF last
  <2>2. CASE k # n + 1
    <3>1. k \in 1 .. n /\ k \in 0 .. n /\ k - 1 \in 0 .. n
      BY <1>2, <2>2
    <3>2. f[k] = IF s[k].id \in ids THEN Append(f[k - 1], s[k]) ELSE f[k - 1]
      BY <1>1, <3>1 DEF Selecting, n
    <3>3. t[k] = s[k] /\ g[k] = f[k] /\ g[k - 1] = f[k - 1]
      BY <1>2, <1>3, <3>1
    <3> HIDE DEF g
    <3> QED
      BY <3>2, <3>3
  <2> QED
    BY <2>1, <2>2
<1> HIDE DEF g
<1>5. Selecting(g, t, ids)
  BY <1>2, <1>3, <1>4 DEF Selecting
<1>6. among(t, ids) = last
  BY <1>2, <1>3, <1>5, SelectingUnique
<1> QED
  BY <1>1, <1>6 DEF last, t

\* Nothing is selected from no messages.
LEMMA AmongNothing ==
    ASSUME NEW ids
    PROVE  among(<< >>, ids) = << >>
<1>1. << >> \in Seq(Message) /\ Len(<< >>) = 0
  OBVIOUS
<1>2. PICK f \in [0 .. 0 -> Seq(Message)] : Selecting(f, << >>, ids) /\ among(<< >>, ids) = f[0]
  BY <1>1, SelectingExists
<1> QED
  BY <1>2 DEF Selecting

\* What is selected are messages with such an identifier, as many as there are
\* places that hold one.
LEMMA AmongCounts ==
    ASSUME NEW s \in Seq(Message), NEW ids
    PROVE  /\ among(s, ids) \in Seq({m \in Message : m.id \in ids})
           /\ IsFiniteSet({i \in 1 .. Len(s) : s[i].id \in ids})
           /\ Len(among(s, ids)) = Cardinality({i \in 1 .. Len(s) : s[i].id \in ids})
<1> DEFINE n == Len(s)
           T == {m \in Message : m.id \in ids}
           places(k) == {i \in 1 .. k : s[i].id \in ids}
<1>1. PICK f \in [0 .. n -> Seq(Message)] : Selecting(f, s, ids) /\ among(s, ids) = f[n]
  BY SelectingExists
<1>2. n \in Nat /\ \A k \in 1 .. n : s[k] \in Message
  OBVIOUS
<1>3. /\ f[0] = << >>
      /\ \A k \in 1 .. n : f[k] = IF s[k].id \in ids THEN Append(f[k - 1], s[k]) ELSE f[k - 1]
  BY <1>1 DEF Selecting
<1> HIDE DEF n
<1> DEFINE Q(k) == f[k] \in Seq(T) /\ IsFiniteSet(places(k)) /\ Len(f[k]) = Cardinality(places(k))
           P == {k \in Nat : k <= n => Q(k)}
<1>4. 0 \in P
  <2>1. places(0) = {}
    OBVIOUS
  <2>2. << >> \in Seq(T) /\ Len(<< >>) = 0
    OBVIOUS
  <2> HIDE DEF T, places
  <2>3. Q(0)
    BY <1>3, <2>1, <2>2, FS_EmptySet
  <2> QED
    BY <2>3
<1>5. ASSUME NEW k \in Nat, k \in P PROVE k + 1 \in P
  <2> SUFFICES ASSUME k + 1 <= n PROVE Q(k + 1)
    OBVIOUS
  <2>1. PICK j \in 1 .. n : j = k + 1 /\ j - 1 = k
    BY <1>2
  <2>2. Q(k)
    BY <1>2, <1>5
  <2>3. places(j) = IF s[j].id \in ids THEN places(k) \union {j} ELSE places(k)
    <3>1. \A i : i \in 1 .. j <=> i \in 1 .. k \/ i = j
      BY <2>1
    <3> QED
      BY <3>1
  <2>4. j \notin places(k) /\ s[j] \in Message
    BY <1>2, <2>1
  <2>5. f[j] = IF s[j].id \in ids THEN Append(f[k], s[j]) ELSE f[k]
    BY <1>3, <2>1
  <2>6. CASE s[j].id \in ids
    <3>1. s[j] \in T
      BY <2>4, <2>6
    <3> HIDE DEF T, places
    <3>2. IsFiniteSet(places(j)) /\ Cardinality(places(j)) = Cardinality(places(k)) + 1
      BY <2>2, <2>3, <2>4, <2>6, FS_AddElement
    <3>3. f[j] \in Seq(T) /\ Len(f[j]) = Len(f[k]) + 1
      BY <2>2, <2>5, <2>6, <3>1
    <3> QED
      BY <2>1, <2>2, <3>2, <3>3
  <2>7. CASE s[j].id \notin ids
    <3> HIDE DEF T, places
    <3> QED
      BY <2>1, <2>2, <2>3, <2>5, <2>7
  <2> QED
    BY <2>6, <2>7
<1> HIDE DEF P
<1>6. \A k \in Nat : k \in P
  BY <1>4, <1>5, SetInduction
<1>7. Q(n)
  <2>1. n \in P
    BY <1>2, <1>6
  <2> HIDE DEF Q
  <2> QED
    BY <1>2, <2>1 DEF P
<1> QED
  BY <1>1, <1>7 DEF n

--------------------------------------------------------------------------
(* Sums *)

\* What the recursive function in sumOf is for a list of numbers.
Summing(f, s) == f[0] = 0 /\ \A k \in 1 .. Len(s) : f[k] = f[k - 1] + s[k]

\* It exists, and the sum is its last value.
LEMMA SummingExists ==
    ASSUME NEW s \in Seq(Int)
    PROVE  \E f \in [0 .. Len(s) -> Int] : Summing(f, s) /\ sumOf(s) = f[Len(s)]
<1> DEFINE n == Len(s)
           step == [k \in 1 .. n |-> [q \in Int |-> q + s[k]]]
           upTo[k \in 0 .. n] == IF k = 0 THEN 0 ELSE upTo[k - 1] + s[k]
<1>1. n \in Nat /\ \A k \in 1 .. n : s[k] \in Int
  OBVIOUS
<1>2. sumOf(s) = upTo[n]
  BY DEF sumOf
<1>3. step \in [1 .. n -> [Int -> Int]]
  BY <1>1
<1>n. PICK m \in Nat : m = n
  BY <1>1
<1> HIDE DEF n
<1>4. PICK f \in [0 .. n -> Int] : Recursion(f, n, 0, step)
  <2>1. 0 \in Int /\ n \in Nat
    BY <1>1
  <2> HIDE DEF step
  <2> QED
    BY <1>3, <2>1, RecursionExists
<1>5. f = [k \in 0 .. n |-> IF k = 0 THEN 0 ELSE f[k - 1] + s[k]]
  <2>1. ASSUME NEW k \in 0 .. n
        PROVE  f[k] = IF k = 0 THEN 0 ELSE f[k - 1] + s[k]
    <3>1. f[k] = IF k = 0 THEN 0 ELSE step[k][f[k - 1]]
      BY <1>4 DEF Recursion
    <3>2. CASE k = 0
      BY <3>1, <3>2
    <3>3. CASE k # 0
      <4>1. k \in 1 .. n /\ f[k - 1] \in Int
        BY <1>1, <1>4, <3>3
      <4> QED
        BY <3>1, <3>3, <4>1
    <3> QED
      BY <3>2, <3>3
  <2> QED
    BY <2>1
<1>6. upTo = [k \in 0 .. n |-> IF k = 0 THEN 0 ELSE upTo[k - 1] + s[k]]
  BY <1>5 DEF upTo
<1> HIDE DEF upTo, step
<1>7. \A k \in 0 .. n :
         /\ upTo[k] = IF k = 0 THEN 0 ELSE upTo[k - 1] + s[k]
         /\ f[k] = IF k = 0 THEN 0 ELSE f[k - 1] + s[k]
  BY <1>5, <1>6
<1>8. \A k \in 1 .. n : k \in 0 .. n /\ k # 0
  BY <1>1
<1>9. 0 \in 0 .. n /\ n \in 0 .. n
  BY <1>1
<1>10. upTo[n] = f[n]
  <2>1. GoOnAlike(upTo, f, n)
    BY <1>7, <1>8, <1>9 DEF GoOnAlike
  <2>2. \A k \in 0 .. n : upTo[k] = f[k]
    BY <1>1, <2>1, AlikeUpTo
  <2> QED
    BY <1>9, <2>2
<1>11. Summing(f, s)
  BY <1>7, <1>8, <1>9 DEF Summing, n
<1> QED
  BY <1>2, <1>4, <1>10, <1>11 DEF n

\* There is no other.
LEMMA SummingUnique ==
    ASSUME NEW s \in Seq(Int), NEW f, Summing(f, s)
    PROVE  sumOf(s) = f[Len(s)]
<1> DEFINE n == Len(s)
<1>1. PICK g \in [0 .. n -> Int] : Summing(g, s) /\ sumOf(s) = g[n]
  BY SummingExists
<1>2. n \in Nat /\ n \in 0 .. n
  OBVIOUS
<1>3. GoOnAlike(f, g, n)
  BY <1>1 DEF Summing, GoOnAlike
<1> HIDE DEF n
<1>4. \A k \in 0 .. n : f[k] = g[k]
  BY <1>2, <1>3, AlikeUpTo
<1> QED
  BY <1>1, <1>2, <1>4 DEF n

\* The sum of a list is a number, that of the empty one 0.
LEMMA SumType ==
    /\ \A s \in Seq(Int) : sumOf(s) \in Int
    /\ sumOf(<< >>) = 0
<1>1. ASSUME NEW s \in Seq(Int) PROVE sumOf(s) \in Int
  BY SummingExists
<1>2. << >> \in Seq(Int) /\ Len(<< >>) = 0
  OBVIOUS
<1>3. PICK f \in [0 .. 0 -> Int] : Summing(f, << >>) /\ sumOf(<< >>) = f[0]
  BY <1>2, SummingExists
<1> QED
  BY <1>1, <1>3 DEF Summing

\* One more number adds to the sum.
LEMMA SumAppend ==
    ASSUME NEW s \in Seq(Int), NEW x \in Int
    PROVE  sumOf(Append(s, x)) = sumOf(s) + x
<1> DEFINE n == Len(s)
           t == Append(s, x)
<1>1. PICK f \in [0 .. n -> Int] : Summing(f, s) /\ sumOf(s) = f[n]
  BY SummingExists
<1>2. /\ n \in Nat /\ t \in Seq(Int) /\ Len(t) = n + 1 /\ t[n + 1] = x
      /\ \A k \in 1 .. n : t[k] = s[k]
  OBVIOUS
<1> DEFINE last == f[n] + x
           g == [k \in 0 .. n + 1 |-> IF k = n + 1 THEN last ELSE f[k]]
<1> HIDE DEF t, n, last
<1>3. g[0] = 0 /\ g[n + 1] = last /\ \A k \in 0 .. n : g[k] = f[k]
  BY <1>1, <1>2 DEF Summing
<1>4. ASSUME NEW k \in 1 .. n + 1 PROVE g[k] = g[k - 1] + t[k]
  <2>1. CASE k = n + 1
    <3>1. k - 1 = n /\ n \in 0 .. n /\ t[k] = x /\ g[k] = last
      BY <1>2, <1>3, <2>1
    <3> HIDE DEF g
    <3> QED
      BY <1>3, <3>1 DEF last
  <2>2. CASE k # n + 1
    <3>1. k \in 1 .. n /\ k \in 0 .. n /\ k - 1 \in 0 .. n
      BY <1>2, <2>2
    <3>2. f[k] = f[k - 1] + s[k]
      BY <1>1, <3>1 DEF Summing, n
    <3>3. t[k] = s[k] /\ g[k] = f[k] /\ g[k - 1] = f[k - 1]
      BY <1>2, <1>3, <3>1
    <3> HIDE DEF g
    <3> QED
      BY <3>2, <3>3
  <2> QED
    BY <2>1, <2>2
<1> HIDE DEF g
<1>5. Summing(g, t)
  BY <1>2, <1>3, <1>4 DEF Summing
<1>6. sumOf(t) = last
  BY <1>2, <1>3, <1>5, SummingUnique
<1> QED
  BY <1>1, <1>6 DEF last, t

\* s without its i-th element.
without(s, i) == [k \in 1 .. Len(s) - 1 |-> IF k < i THEN s[k] ELSE s[k + 1]]

\* Its sum is less by that element.
LEMMA SumWithout ==
    ASSUME NEW s \in Seq(Int), NEW i \in 1 .. Len(s)
    PROVE  sumOf(without(s, i)) = sumOf(s) - s[i]
<1> DEFINE n == Len(s)
           t == without(s, i)
<1>1. PICK f \in [0 .. n -> Int] : Summing(f, s) /\ sumOf(s) = f[n]
  BY SummingExists
<1>2. n \in Nat /\ n >= 1 /\ \A k \in 1 .. n : s[k] \in Int
  OBVIOUS
<1>3. t \in Seq(Int) /\ Len(t) = n - 1
  BY <1>2 DEF without
<1>4. \A k \in 1 .. n - 1 : t[k] = IF k < i THEN s[k] ELSE s[k + 1]
  BY DEF without
<1>5. f[0] = 0 /\ \A k \in 1 .. n : f[k] = f[k - 1] + s[k]
  BY <1>1 DEF Summing
<1> DEFINE g == [k \in 0 .. n - 1 |-> IF k < i THEN f[k] ELSE f[k + 1] - s[i]]
<1>6. i \in 1 .. n
  OBVIOUS
<1> HIDE DEF t, n
<1>7. \A k \in 0 .. n - 1 : g[k] = IF k < i THEN f[k] ELSE f[k + 1] - s[i]
  OBVIOUS
<1>8. f[i] - s[i] = f[i - 1]
  <2>1. f[i] = f[i - 1] + s[i] /\ f[i - 1] \in Int /\ s[i] \in Int
    BY <1>1, <1>2, <1>5, <1>6
  <2> QED
    BY <2>1
<1> HIDE DEF g
<1>9. g[0] = 0
  BY <1>2, <1>5, <1>6, <1>7
<1>10. ASSUME NEW k \in 1 .. n - 1 PROVE g[k] = g[k - 1] + t[k]
  <2>1. k \in 0 .. n - 1 /\ k - 1 \in 0 .. n - 1 /\ k \in 1 .. n
    BY <1>2
  <2>2. CASE k < i
    <3>1. g[k] = f[k] /\ g[k - 1] = f[k - 1] /\ t[k] = s[k]
      BY <1>4, <1>6, <1>7, <2>1, <2>2
    <3> QED
      BY <1>5, <2>1, <3>1
  <2>3. CASE ~(k < i)
    <3>1. PICK j \in 1 .. n : j = k + 1 /\ j - 1 = k
      BY <1>2
    <3>2. f[j] = f[k] + s[j] /\ f[k] \in Int /\ s[j] \in Int /\ s[i] \in Int
      <4>1. f[j] = f[j - 1] + s[j] /\ j - 1 = k
        BY <1>5, <3>1
      <4>2. f[k] \in Int
        BY <1>1, <1>2, <2>1
      <4> QED
        BY <1>2, <1>6, <4>1, <4>2
    <3>3. g[k] = f[j] - s[i] /\ t[k] = s[j]
      BY <1>4, <1>6, <1>7, <2>1, <2>3, <3>1
    <3>4. g[k - 1] = f[k] - s[i]
      <4>1. CASE k = i
        <5>1. k - 1 < i /\ g[k - 1] = f[i - 1]
          BY <1>6, <1>7, <2>1, <4>1
        <5> QED
          BY <1>8, <4>1, <5>1
      <4>2. CASE k # i
        <5>1. ~(k - 1 < i) /\ (k - 1) + 1 = k
          BY <1>6, <2>3, <4>2
        <5> QED
          BY <1>7, <2>1, <5>1
      <4> QED
        BY <4>1, <4>2
    <3> QED
      BY <3>2, <3>3, <3>4
  <2> QED
    BY <2>2, <2>3
<1>11. Summing(g, t)
  BY <1>3, <1>9, <1>10 DEF Summing
<1>12. sumOf(t) = g[n - 1]
  BY <1>3, <1>11, SummingUnique
<1>13. g[n - 1] = f[n] - s[i]
  <2>1. CASE i = n
    <3>1. n - 1 \in 0 .. n - 1 /\ n - 1 < i
      BY <1>2, <2>1
    <3>2. g[n - 1] = f[n - 1]
      BY <1>7, <3>1
    <3> QED
      BY <1>8, <2>1, <3>2
  <2>2. CASE i # n
    <3>1. n - 1 \in 0 .. n - 1 /\ ~(n - 1 < i) /\ (n - 1) + 1 = n
      BY <1>2, <1>6, <2>2
    <3> QED
      BY <1>7, <3>1
  <2> QED
    BY <2>1, <2>2
<1> QED
  BY <1>1, <1>12, <1>13 DEF t

--------------------------------------------------------------------------
(* Remainders *)

\* What is known of a quotient and its remainder.
LEMMA Division ==
    ASSUME NEW x \in Int, NEW M \in Nat \ {0}
    PROVE  x = M * (x \div M) + (x % M) /\ x \div M \in Int /\ x % M \in 0 .. M - 1
  OBVIOUS

\* A multiple is as large as M, or 0.
LEMMA Multiples ==
    ASSUME NEW M \in Nat \ {0}, NEW q \in Int
    PROVE  /\ q >= 1 => M * q >= M
           /\ q <= -1 => M * q <= -M
           /\ M * q \in Int /\ (q = 0 => M * q = 0)
  OBVIOUS

\* Two remainders differ by no multiple.
LEMMA RemaindersApart ==
    ASSUME NEW M \in Nat \ {0}, NEW q \in Int, NEW a \in 0 .. M - 1, NEW b \in 0 .. M - 1, a = b + M * q
    PROVE  a = b
<1>1. q = 0 \/ q >= 1 \/ q <= -1
  OBVIOUS
<1> QED
  BY <1>1, Multiples

\* It does not matter whether a sum wraps around at once or at the end.
LEMMA WrapsAnyTime ==
    ASSUME NEW x \in Int, NEW d \in Int, NEW M \in Nat \ {0}
    PROVE  ((x % M) + d) % M = (x + d) % M
<1> DEFINE y == (x % M) + d
           z == x + d
<1>1. y \in Int /\ z \in Int /\ x % M \in 0 .. M - 1
  BY Division
<1>2. PICK p \in Int : x = M * p + (x % M)
  BY Division
<1>3. PICK q \in Int : y = M * q + (y % M)
  BY <1>1, Division
<1>4. PICK r \in Int : z = M * r + (z % M)
  BY <1>1, Division
<1>5. y % M \in 0 .. M - 1 /\ z % M \in 0 .. M - 1
  BY <1>1, Division
<1>6. PICK a \in 0 .. M - 1, b \in 0 .. M - 1 : a = y % M /\ b = z % M
  BY <1>5
<1>7. z = M * p + y
  BY <1>2, <1>1
<1>8. M * p \in Int /\ M * q \in Int /\ M * r \in Int
  OBVIOUS
<1>9. y = M * q + a /\ z = M * r + b
  BY <1>3, <1>4, <1>6
<1> HIDE DEF y, z
<1>10. a = b + (M * r - M * p - M * q)
  BY <1>1, <1>7, <1>8, <1>9
<1>11. M * r - M * p - M * q = M * (r - p - q) /\ r - p - q \in Int
  OBVIOUS
<1>12. a = b
  BY <1>10, <1>11, RemaindersApart
<1> QED
  BY <1>6, <1>12 DEF y, z

--------------------------------------------------------------------------
(* The types *)

\* The friend at the beginning of a map is one of them.
LEMMA BeginsWithOne ==
    ASSUME NEW S \in SUBSET Users, S # {}
    PROVE  begin(S) \in S
<1> DEFINE T == {tag[u].dscrm : u \in S}
<1>1. \A u \in S : tag[u].dscrm \in Nat
  BY TagAssumption
<1>2. T \in SUBSET Nat /\ T # {}
  BY <1>1
<1>3. PICK x \in T : \A y \in T : x <= y
  BY <1>2, NatMin
<1>4. \E u \in S : \A v \in S : tag[u].dscrm <= tag[v].dscrm
  BY <1>3
<1> QED
  BY <1>4 DEF begin

\* frnd looks for a user, or says why it does not.
LEMMA LooksFor ==
    ASSUME NEW n, NEW dscrm, NEW known \in SUBSET Users
    PROVE  idToGet(n, dscrm, known) \in Users \union {"could not find", "multiple"}
<1>1. named(n, known) \in SUBSET Users /\ {u \in named(n, known) : tag[u].dscrm = dscrm} \in SUBSET Users
  BY DEF named
<1>2. numMatches(n, known) # 0 => named(n, known) # {}
  BY DEF numMatches
<1>3. numMatches(n, known) = 1 => begin(named(n, known)) \in Users
  <2> SUFFICES ASSUME numMatches(n, known) = 1 PROVE begin(named(n, known)) \in Users
    OBVIOUS
  <2>1. begin(named(n, known)) \in named(n, known)
    BY <1>1, <1>2, BeginsWithOne
  <2> QED
    BY <1>1, <2>1
<1>4. LET exact == {u \in named(n, known) : tag[u].dscrm = dscrm}
      IN  exact # {} => begin(exact) \in Users
  <2> DEFINE exact == {u \in named(n, known) : tag[u].dscrm = dscrm}
  <2>1. exact \in SUBSET Users
    BY <1>1
  <2> HIDE DEF exact
  <2>2. exact # {} => begin(exact) \in exact
    BY <2>1, BeginsWithOne
  <2>3. exact # {} => begin(exact) \in Users
    BY <2>1, <2>2
  <2> QED
    BY <2>3 DEF exact
<1> QED
  BY <1>3, <1>4 DEF idToGet

\* What the steps of Discord are.
LEMMA DiscordDoes ==
    ASSUME [Next]_vars
    PROVE  \/ UNCHANGED discordVars
           \/ connect \/ tickDiscord \/ host \/ frndNobody
           \/ \E n \in Names, dscrm \in Dscrms \union {0} : frnd(n, dscrm)
<1>1. CASE UNCHANGED vars
  BY <1>1 DEF vars
<1>2. CASE askDiscord
  BY <1>2 DEF askDiscord, listLobbies
<1>3. ASSUME NEW role \in Role, NEW starts \in BOOLEAN, NEW reserved \in BOOLEAN,
           assumeRole(role, starts, reserved)
      PROVE  host \/ UNCHANGED discordVars
  BY <1>3 DEF assumeRole
<1>4. CASE tick
  BY <1>4 DEF tick
<1>5. CASE discardRequestPackets \/ discardSyncPackets \/ discardFreshConnections \/ getClientGuids
  BY <1>5 DEF discardRequestPackets, discardSyncPackets, discardFreshConnections, getClientGuids
<1>6. ASSUME \/ \E g \in Guids : connects(g)
             \/ \E g \in Guids, how \in {"DISCONNECTION_NOTIFICATION", "CONNECTION_LOST"} : leaves(g, how)
             \/ \E kind \in {"ECS_REQUEST", "SYNC", "OTHER"} : sends(kind)
      PROVE  UNCHANGED discordVars
  BY <1>6 DEF connects, leaves, sends
<1> QED
  BY <1>1, <1>2, <1>3, <1>4, <1>5, <1>6 DEF Next, Role

\* They keep its types.
LEMMA DiscordTyped ==
    ASSUME DiscordTypeOK, [Next]_vars
    PROVE  DiscordTypeOK'
<1>1. CASE UNCHANGED discordVars
  BY <1>1 DEF DiscordTypeOK, discordVars
<1>2. CASE connect
  BY <1>2 DEF connect, connectResult, strangers, Relations, DiscordTypeOK
<1>3. CASE tickDiscord
  <2>1. relation' \in [Users -> Relations]
    <3>1. CASE UNCHANGED relation
      BY <3>1 DEF DiscordTypeOK
    <3>2. ASSUME NEW u \in Users, NEW r \in Relations, relation' = [relation EXCEPT ![u] = r]
          PROVE  relation' \in [Users -> Relations]
      BY <3>2 DEF DiscordTypeOK
    <3> QED
      BY <1>3, <3>1, <3>2 DEF tickDiscord
  <2> QED
    BY <1>3, <2>1 DEF tickDiscord, DiscordTypeOK
<1>4. CASE host
  BY <1>4 DEF host, usesCore, DiscordTypeOK
<1>5. CASE frndNobody
  BY <1>5 DEF frndNobody, usesCore, updatedFriends, DiscordTypeOK
<1>6. ASSUME NEW n \in Names, NEW dscrm \in Dscrms \union {0}, frnd(n, dscrm)
      PROVE  DiscordTypeOK'
  <2>1. updatedFriends \in SUBSET Users
    BY DEF updatedFriends, DiscordTypeOK
  <2>2. idToGet(n, dscrm, updatedFriends) \in Users \union {"could not find", "multiple"}
    BY <2>1, LooksFor
  <2>3. answer' \in Users \union {NoOne, "could not find", "multiple"}
    BY <1>6, <2>2 DEF frnd
  <2> QED
    BY <1>6, <2>1, <2>3 DEF frnd, usesCore, DiscordTypeOK
<1> QED
  BY <1>1, <1>2, <1>3, <1>4, <1>5, <1>6, DiscordDoes

--------------------------------------------------------------------------
\* What is selected are the packets of that kind.
LEMMA PacketsSelected ==
    ASSUME NEW s \in Seq(Message), NEW kind \in {"ECS_REQUEST", "SYNC"}
    PROVE  among(s, {kind}) \in Seq({packet(kind)})
<1>1. {m \in Message : m.id \in {kind}} \subseteq {packet(kind)}
  BY DEF Message, packet
<1>2. among(s, {kind}) \in Seq({m \in Message : m.id \in {kind}})
  BY AmongCounts
<1> QED
  BY <1>1, <1>2

\* What an identifier of a notification is.
Notification == {"NEW_INCOMING_CONNECTION", "DISCONNECTION_NOTIFICATION", "CONNECTION_LOST"}

\* Where the notifications in the inbox come from are machines.
LEMMA OriginsTyped ==
    ASSUME inbox \in Seq(Message), NEW ids \in SUBSET Notification
    PROVE  origins(ids) \in Seq(Guids) /\ Len(origins(ids)) = Len(messages(ids))
<1>1. \A m \in Message : m.id \in ids => m.from \in Guids
  BY DEF Message, Notification
<1>2. messages(ids) \in Seq({m \in Message : m.id \in ids})
  BY AmongCounts DEF messages
<1>3. \A k \in 1 .. Len(messages(ids)) : messages(ids)[k].from \in Guids
  BY <1>1, <1>2
<1>4. Len(messages(ids)) \in Nat
  BY <1>2
<1> QED
  BY <1>3, <1>4 DEF origins

\* The identifiers Server::receive looks for are notifications.
LEMMA ReceivedAreNotifications ==
    {"NEW_INCOMING_CONNECTION"} \in SUBSET Notification /\ leavings \in SUBSET Notification
  BY DEF Notification, leavings

\* GUIDs are numbers.
LEMMA GuidsAreNumbers == Guids \subseteq Int /\ \A s \in Seq(Guids) : s \in Seq(Int)
<1>1. Guids \subseteq Int
  BY NetAssumption
<1>2. ASSUME NEW s \in Seq(Guids) PROVE s \in Seq(Int)
  <2>1. \A k \in 1 .. Len(s) : s[k] \in Guids
    OBVIOUS
  <2>2. \A k \in 1 .. Len(s) : s[k] \in Int
    BY <1>1, <2>1, Zenon
  <2> QED
    BY <2>2
<1> QED
  BY <1>1, <1>2

\* The packets in the inbox are those a program keeps: each has a place in one
\* of the buffers.
LEMMA KeepsPackets ==
    ASSUME inbox \in Seq(Message)
    PROVE  LET kept == {i \in DOMAIN inbox : ~notBuffered(inbox[i])}
           IN  /\ Cardinality(kept) = Len(messages({"ECS_REQUEST"})) + Len(messages({"SYNC"}))
               /\ Cardinality(kept) \in Nat
<1> DEFINE kept == {i \in DOMAIN inbox : ~notBuffered(inbox[i])}
           requests == {i \in 1 .. Len(inbox) : inbox[i].id \in {"ECS_REQUEST"}}
           syncs == {i \in 1 .. Len(inbox) : inbox[i].id \in {"SYNC"}}
<1>1. kept = requests \union syncs /\ requests \intersect syncs = {}
  BY DEF notBuffered
<1>2. IsFiniteSet(requests) /\ Cardinality(requests) = Len(messages({"ECS_REQUEST"}))
  BY AmongCounts DEF messages
<1>3. IsFiniteSet(syncs) /\ Cardinality(syncs) = Len(messages({"SYNC"}))
  BY AmongCounts DEF messages
<1> HIDE DEF kept, requests, syncs
<1>4. Cardinality(kept) = Cardinality(requests) + Cardinality(syncs) - Cardinality(requests \intersect syncs)
  BY <1>1, <1>2, <1>3, FS_Union
<1>5. Cardinality(requests \intersect syncs) = 0
  BY <1>1, FS_EmptySet
<1>7. Cardinality(requests) \in Nat /\ Cardinality(syncs) \in Nat
  BY <1>2, <1>3, FS_CardinalityType
<1>8. Cardinality(kept) = Cardinality(requests) + Cardinality(syncs)
  <2> DEFINE a == Cardinality(requests)
             b == Cardinality(syncs)
             c == Cardinality(requests \intersect syncs)
  <2>1. Cardinality(kept) = a + b - c /\ c = 0 /\ a \in Nat /\ b \in Nat
    BY <1>4, <1>5, <1>7
  <2> HIDE DEF a, b, c
  <2>2. Cardinality(kept) = a + b
    BY <2>1
  <2> QED
    BY <2>2 DEF a, b
<1>6. /\ Cardinality(kept) = Len(messages({"ECS_REQUEST"})) + Len(messages({"SYNC"}))
      /\ Cardinality(kept) \in Nat
  BY <1>2, <1>3, <1>7, <1>8
<1> QED
  BY <1>6 DEF kept

--------------------------------------------------------------------------
(* The packets *)

\* A program without a role has no peer, and so nothing that a peer brings.
Idle ==
    currentRole = "NONE" =>
        /\ server = "none" /\ client = "none"
        /\ inbox = << >> /\ connected = {}
        /\ requestPackets = << >> /\ syncPackets = << >>

PacketInv == TypeOK /\ Idle /\ PacketsAccounted

\* The types, but for Discord's.
NetTypeOK ==
    /\ currentRole \in Role /\ askedRole \in Role
    /\ server \in {"none", "ready", "failed", "blocked"}
    /\ client \in {"none", "ready", "failed"}
    /\ inbox \in Seq(Message) /\ connected \subseteq Guids /\ allocated \in Nat
    /\ requestPackets \in Seq({packet("ECS_REQUEST")})
    /\ syncPackets \in Seq({packet("SYNC")})
    /\ freshConnections \in Seq(Guids)
    /\ clientSum \in 0 .. Modulus - 1
    /\ guids \subseteq Guids /\ connectionListsDirty \in BOOLEAN

\* Both together are all.
LEMMA TypeParts == TypeOK <=> DiscordTypeOK /\ NetTypeOK
  BY DEF TypeOK, NetTypeOK

\* What one step keeps.
KeptByNet == NetTypeOK' /\ Idle' /\ PacketsAccounted'

\* A new role comes with a new peer, and nothing of the old one is left.
LEMMA AssumesRole ==
    ASSUME DiscardsFirst, NetTypeOK, Idle, PacketsAccounted,
           NEW role \in Role, NEW starts \in BOOLEAN, NEW reserved \in BOOLEAN,
           assumeRole(role, starts, reserved)
    PROVE  KeptByNet
<1>1. requestPackets = << >> /\ syncPackets = << >> /\ Len(<< >>) = 0
  BY DEF assumeRole
<1>2. UNCHANGED << requestPackets, syncPackets, freshConnections >>
  BY DEF assumeRole, buffers
<1>3. inbox' = << >> /\ connected' = {} /\ allocated' = 0 /\ askedRole' = role
  BY DEF assumeRole, noPeer
<1>4. clientSum' = 0 /\ guids' = {} /\ connectionListsDirty' = TRUE
  BY DEF assumeRole, freshFields
<1>5. currentRole' = IF reserved THEN "NONE" ELSE role
  BY DEF assumeRole
<1>6. /\ server' \in {"none", "ready", "failed", "blocked"}
      /\ client' \in {"none", "ready", "failed"}
  BY DEF assumeRole, freshServer, freshClient, NetTypeOK
<1>7. currentRole' = "NONE" => server' = "none" /\ client' = "none"
  BY <1>5 DEF assumeRole, resets
<1>8. 0 \in 0 .. Modulus - 1 /\ << >> \in Seq(Message)
  BY NetAssumption
<1>9. NetTypeOK'
  BY <1>2, <1>3, <1>4, <1>5, <1>6, <1>8 DEF NetTypeOK, Role
<1> QED
  BY <1>1, <1>2, <1>3, <1>7, <1>9 DEF KeptByNet, Idle, PacketsAccounted

\* What tick takes from the peer is in the buffers or given back.
LEMMA Ticks ==
    ASSUME NetTypeOK, Idle, PacketsAccounted, tick
    PROVE  KeptByNet
<1> DEFINE r == messages({"ECS_REQUEST"})
           y == messages({"SYNC"})
           kept == {i \in DOMAIN inbox : ~notBuffered(inbox[i])}
<1>1. /\ requestPackets' = requestPackets \o r
      /\ syncPackets' = syncPackets \o y
      /\ allocated' = allocated + Cardinality(kept)
      /\ inbox' = << >>
      /\ UNCHANGED << currentRole, askedRole, server, client, connected >>
  BY DEF tick
<1>2. inbox \in Seq(Message)
  BY DEF NetTypeOK
<1>3. r \in Seq({packet("ECS_REQUEST")}) /\ y \in Seq({packet("SYNC")})
  BY <1>2, PacketsSelected DEF messages
<1>4. Cardinality(kept) = Len(r) + Len(y)
  BY <1>2, KeepsPackets
<1> HIDE DEF r, y, kept
<1>5. /\ Len(requestPackets') = Len(requestPackets) + Len(r)
      /\ requestPackets' \in Seq({packet("ECS_REQUEST")})
  <2>1. requestPackets \in Seq({packet("ECS_REQUEST")})
    BY DEF NetTypeOK
  <2> QED
    BY <1>1, <1>3, <2>1
<1>6. Len(syncPackets') = Len(syncPackets) + Len(y) /\ syncPackets' \in Seq({packet("SYNC")})
  <2>1. syncPackets \in Seq({packet("SYNC")})
    BY DEF NetTypeOK
  <2> QED
    BY <1>1, <1>3, <2>1
<1>7. Len(requestPackets) \in Nat /\ Len(syncPackets) \in Nat /\ Len(r) \in Nat /\ Len(y) \in Nat
  BY <1>3 DEF NetTypeOK
<1>8. PacketsAccounted' /\ allocated' \in Nat
  BY <1>1, <1>4, <1>5, <1>6, <1>7 DEF PacketsAccounted
<1>9. /\ clientSum' \in 0 .. Modulus - 1
      /\ freshConnections' \in Seq(Guids)
      /\ guids' \subseteq Guids /\ connectionListsDirty' \in BOOLEAN
  <2>1. CASE currentRole = "SERVER"
    <3>1. noteConnections
      BY <2>1 DEF tick
    <3> DEFINE new == origins({"NEW_INCOMING_CONNECTION"})
               old == origins(leavings)
    <3>2. new \in Seq(Guids) /\ old \in Seq(Guids)
      BY <1>2, OriginsTyped, ReceivedAreNotifications
    <3>3. freshConnections' = freshConnections \o new /\ guids' = guids
          /\ clientSum' = (clientSum + sumOf(new) - sumOf(old)) % Modulus
      BY <3>1 DEF noteConnections
    <3>4. connectionListsDirty' \in BOOLEAN
      BY <3>1 DEF noteConnections, NetTypeOK
    <3> HIDE DEF new, old
    <3>5. sumOf(new) \in Int /\ sumOf(old) \in Int /\ clientSum \in Int
      BY <3>2, GuidsAreNumbers, SumType DEF NetTypeOK
    <3>6. clientSum' \in 0 .. Modulus - 1
      <4>1. clientSum + sumOf(new) - sumOf(old) \in Int
        BY <3>5
      <4> QED
        BY <3>3, <4>1, NetAssumption, Division
    <3>7. freshConnections' \in Seq(Guids)
      BY <3>2, <3>3 DEF NetTypeOK
    <3> QED
      BY <3>3, <3>4, <3>6, <3>7 DEF NetTypeOK
  <2>2. CASE currentRole # "SERVER"
    <3>1. UNCHANGED << serverVars, freshConnections >>
      BY <2>2 DEF tick
    <3> QED
      BY <3>1 DEF serverVars, NetTypeOK
  <2> QED
    BY <2>1, <2>2
<1>10. NetTypeOK'
  <2>1. inbox' \in Seq(Message)
    BY <1>1
  <2> QED
    BY <1>1, <1>5, <1>6, <1>8, <1>9, <2>1 DEF NetTypeOK
<1>11. Idle'
  <2> SUFFICES ASSUME currentRole = "NONE" PROVE requestPackets' = << >> /\ syncPackets' = << >>
    BY <1>1 DEF Idle
  <2>1. inbox = << >> /\ requestPackets = << >> /\ syncPackets = << >>
    BY DEF Idle
  <2>2. r = << >> /\ y = << >>
    BY <2>1, AmongNothing DEF r, y, messages
  <2> QED
    BY <1>1, <2>1, <2>2
<1> QED
  BY <1>8, <1>10, <1>11 DEF KeptByNet

\* Discarded packets go back to the peer that brought them.
LEMMA Discards ==
    ASSUME NetTypeOK, Idle, PacketsAccounted,
           discardRequestPackets \/ discardSyncPackets \/ discardFreshConnections
    PROVE  KeptByNet
<1>1. /\ Len(requestPackets) \in Nat /\ Len(syncPackets) \in Nat /\ Len(<< >>) = 0
      /\ << >> \in Seq({packet("ECS_REQUEST")}) /\ << >> \in Seq({packet("SYNC")}) /\ << >> \in Seq(Guids)
  BY DEF NetTypeOK
<1>2. CASE discardRequestPackets
  <2>1. currentRole # "NONE" /\ allocated' = allocated - Len(requestPackets)
    BY <1>2 DEF discardRequestPackets, discardPacketCollection, Idle
  <2>2. requestPackets' = << >>
        /\ UNCHANGED << currentRole, askedRole, server, client, inbox, connected, syncPackets,
                        freshConnections, clientSum, guids, connectionListsDirty >>
    BY <1>2 DEF discardRequestPackets, serverVars
  <2>3. PacketsAccounted' /\ allocated' \in Nat
    BY <1>1, <2>1, <2>2 DEF PacketsAccounted
  <2> QED
    BY <1>1, <2>2, <2>3 DEF KeptByNet, NetTypeOK, Idle
<1>3. CASE discardSyncPackets
  <2>1. currentRole # "NONE" /\ allocated' = allocated - Len(syncPackets)
    BY <1>3 DEF discardSyncPackets, discardPacketCollection, Idle
  <2>2. syncPackets' = << >>
        /\ UNCHANGED << currentRole, askedRole, server, client, inbox, connected, requestPackets,
                        freshConnections, clientSum, guids, connectionListsDirty >>
    BY <1>3 DEF discardSyncPackets, serverVars
  <2>3. PacketsAccounted' /\ allocated' \in Nat
    BY <1>1, <2>1, <2>2 DEF PacketsAccounted
  <2> QED
    BY <1>1, <2>2, <2>3 DEF KeptByNet, NetTypeOK, Idle
<1>4. CASE discardFreshConnections
  <2>1. freshConnections' = << >>
        /\ UNCHANGED << currentRole, askedRole, server, client, inbox, connected, allocated,
                        requestPackets, syncPackets, clientSum, guids, connectionListsDirty >>
    BY <1>4 DEF discardFreshConnections, serverVars
  <2> QED
    BY <1>1, <2>1 DEF KeptByNet, NetTypeOK, Idle, PacketsAccounted
<1> QED
  BY <1>2, <1>3, <1>4

\* Something arrives only where there is a peer.
LEMMA NetworkActs ==
    ASSUME NetTypeOK, Idle, PacketsAccounted,
           \/ \E g \in Guids : connects(g)
           \/ \E g \in Guids, how \in {"DISCONNECTION_NOTIFICATION", "CONNECTION_LOST"} : leaves(g, how)
           \/ \E kind \in {"ECS_REQUEST", "SYNC", "OTHER"} : sends(kind)
    PROVE  KeptByNet
<1>1. /\ currentRole # "NONE"
      /\ UNCHANGED << currentRole, askedRole, server, client, allocated, requestPackets, syncPackets,
                      freshConnections, clientSum, guids, connectionListsDirty >>
      /\ connected' \subseteq Guids
      /\ \E m \in Message : arrives(m)
  <2>1. ASSUME NEW g \in Guids, connects(g)
        PROVE  /\ server = "ready" /\ connected' \subseteq Guids /\ \E m \in Message : arrives(m)
               /\ UNCHANGED << currentRole, askedRole, server, client, allocated, buffers, serverVars >>
    BY <2>1 DEF connects, Message, NetTypeOK
  <2>2. ASSUME NEW g \in Guids, NEW how \in {"DISCONNECTION_NOTIFICATION", "CONNECTION_LOST"}, leaves(g, how)
        PROVE  /\ connected # {} /\ connected' \subseteq Guids /\ \E m \in Message : arrives(m)
               /\ UNCHANGED << currentRole, askedRole, server, client, allocated, buffers, serverVars >>
    BY <2>2 DEF leaves, Message, NetTypeOK
  <2>3. ASSUME NEW kind \in {"ECS_REQUEST", "SYNC", "OTHER"}, sends(kind)
        PROVE  /\ server = "ready" \/ client = "ready"
               /\ connected' \subseteq Guids /\ \E m \in Message : arrives(m)
               /\ UNCHANGED << currentRole, askedRole, server, client, allocated, buffers, serverVars >>
    BY <2>3 DEF sends, running, packet, Message, NetTypeOK
  <2> QED
    BY <2>1, <2>2, <2>3 DEF Idle, buffers, serverVars
<1>2. inbox' \in Seq(Message)
  BY <1>1, Arrives DEF NetTypeOK
<1> QED
  BY <1>1, <1>2 DEF KeptByNet, NetTypeOK, Idle, PacketsAccounted

\* Every step keeps the types and the account of the packets.
LEMMA PacketStep == DiscardsFirst /\ PacketInv /\ [Next]_vars => PacketInv'
<1> SUFFICES ASSUME DiscardsFirst, PacketInv, [Next]_vars PROVE PacketInv'
  OBVIOUS
<1>1. DiscordTypeOK /\ NetTypeOK /\ Idle /\ PacketsAccounted
  BY TypeParts DEF PacketInv
<1>2. DiscordTypeOK'
  BY <1>1, DiscordTyped
<1>3. KeptByNet
  <2>1. ASSUME UNCHANGED netVars PROVE KeptByNet
    BY <1>1, <2>1 DEF netVars, buffers, serverVars, KeptByNet, NetTypeOK, Idle, PacketsAccounted
  <2>2. ASSUME NEW role \in Role, NEW starts \in BOOLEAN, NEW reserved \in BOOLEAN,
           assumeRole(role, starts, reserved) PROVE KeptByNet
    BY <1>1, <2>2, AssumesRole
  <2>3. CASE tick
    BY <1>1, <2>3, Ticks
  <2>4. CASE discardRequestPackets \/ discardSyncPackets \/ discardFreshConnections
    BY <1>1, <2>4, Discards
  <2>5. CASE getClientGuids
    BY <1>1, <2>5 DEF getClientGuids, buffers, KeptByNet, NetTypeOK, Idle, PacketsAccounted
  <2>6. ASSUME \/ \E g \in Guids : connects(g)
               \/ \E g \in Guids, how \in {"DISCONNECTION_NOTIFICATION", "CONNECTION_LOST"} : leaves(g, how)
               \/ \E kind \in {"ECS_REQUEST", "SYNC", "OTHER"} : sends(kind)
        PROVE  KeptByNet
    BY <1>1, <2>6, NetworkActs
  <2> QED
    BY <2>1, <2>2, <2>3, <2>4, <2>5, <2>6 DEF Next, vars, askDiscord, Role
<1>4. (DiscordTypeOK /\ NetTypeOK)' => TypeOK'
  BY DEF TypeOK, NetTypeOK
<1> QED
  BY <1>2, <1>3, <1>4 DEF KeptByNet, PacketInv

\* It holds when the program starts.
LEMMA PacketInit == Init => PacketInv
<1> SUFFICES ASSUME Init PROVE PacketInv
  OBVIOUS
<1>1. DiscordTypeOK
  BY DEF Relations, Init, DiscordInit, strangers, DiscordTypeOK
<1>2. /\ << >> \in Seq({packet("ECS_REQUEST")}) /\ << >> \in Seq({packet("SYNC")}) /\ << >> \in Seq(Guids)
      /\ << >> \in Seq(Message) /\ 0 \in 0 .. Modulus - 1 /\ Len(<< >>) = 0
  BY NetAssumption
<1>3. NetTypeOK /\ Idle /\ PacketsAccounted
  BY <1>2 DEF Init, NetTypeOK, Role, Idle, PacketsAccounted
<1> QED
  BY <1>1, <1>3, TypeParts DEF PacketInv

\* Every variable has its type, for a game that discards its packets before it
\* asks for another role.
THEOREM NetTypesCorrect == ASSUME DiscardsFirst PROVE Spec => []TypeOK
<1>1. PacketInv => TypeOK
  BY DEF PacketInv
<1>2. PacketInv /\ [Next]_vars => PacketInv'
  BY PacketStep
<1> QED
  BY PacketInit, <1>1, <1>2, PTL DEF Spec

\* In such a game a packet is in a buffer exactly as long as the peer that
\* brought it is there and has not got it back.
THEOREM PacketsKept == ASSUME DiscardsFirst PROVE Spec => []PacketsAccounted
<1>1. PacketInv => PacketsAccounted
  BY DEF PacketInv
<1>2. PacketInv /\ [Next]_vars => PacketInv'
  BY PacketStep
<1> QED
  BY PacketInit, <1>1, <1>2, PTL DEF Spec

--------------------------------------------------------------------------
(* The sum of the clients *)

\* What is on its way to the server changes the origins only by itself.
LEMMA OriginsArrive ==
    ASSUME inbox \in Seq(Message), NEW ids \in SUBSET Notification, NEW m \in Message, arrives(m)
    PROVE  /\ origins(ids)' \in Seq(Int) /\ origins(ids) \in Seq(Int)
           /\ sumOf(origins(ids)') = IF m.id \in ids THEN sumOf(origins(ids)) + m.from
                                                     ELSE sumOf(origins(ids))
<1> DEFINE s == messages(ids)
           o == origins(ids)
           t == among(Append(inbox, m), ids)
           p == [k \in 1 .. Len(t) |-> t[k].from]
<1>1. inbox' = Append(inbox, m)
  BY DEF arrives
<1>2. t = IF m.id \in ids THEN Append(s, m) ELSE s
  BY AmongAppend DEF messages
<1>3. origins(ids)' = p
  BY <1>1 DEF origins, messages
<1>4. s \in Seq(Message)
  <2>1. s \in Seq({q \in Message : q.id \in ids})
    BY AmongCounts DEF messages
  <2> QED
    BY <2>1
<1>5. o \in Seq(Int) /\ m.from \in Int
  <2>1. m.from \in Int
    <3>1. m.from \in Guids \/ m.from = 0
      BY DEF Message
    <3>2. CASE m.from = 0
      BY <3>2
    <3>3. CASE m.from \in Guids
      <4>1. \A g \in Guids : g \in Int
        BY GuidsAreNumbers
      <4> QED
        BY <3>3, <4>1
    <3> QED
      BY <3>1, <3>2, <3>3
  <2>2. o \in Seq(Guids)
    BY OriginsTyped
  <2> QED
    BY <2>1, <2>2, GuidsAreNumbers
<1>6. o = [k \in 1 .. Len(s) |-> s[k].from]
  BY DEF origins
<1> HIDE DEF s, o, t
<1>7. CASE m.id \notin ids
  <2>1. p = o
    BY <1>2, <1>6, <1>7
  <2> QED
    BY <1>3, <1>5, <1>7, <2>1 DEF o
<1>8. CASE m.id \in ids
  <2>1. t = Append(s, m)
    BY <1>2, <1>8
  <2>2. /\ Len(t) = Len(s) + 1 /\ t[Len(s) + 1] = m /\ Len(s) \in Nat
        /\ \A k \in 1 .. Len(s) : t[k] = s[k]
    BY <1>4, <2>1
  <2>3. Len(o) = Len(s) /\ \A k \in 1 .. Len(s) : o[k] = s[k].from
    BY <1>6, <2>2
  <2>4. /\ DOMAIN p = 1 .. Len(s) + 1 /\ p[Len(s) + 1] = m.from
        /\ \A k \in 1 .. Len(s) : p[k] = o[k]
    BY <2>2, <2>3
  <2> HIDE DEF p
  <2>5. p = Append(o, m.from)
    <3> DEFINE a == Append(o, m.from)
    <3>1. /\ a \in Seq(Int) /\ Len(a) = Len(s) + 1 /\ a[Len(s) + 1] = m.from
          /\ \A k \in 1 .. Len(s) : a[k] = o[k]
      BY <1>5, <2>2, <2>3
    <3>2. a = [k \in 1 .. Len(s) + 1 |-> a[k]]
      BY <3>1
    <3>3. p = [k \in 1 .. Len(s) + 1 |-> p[k]]
      BY <2>4 DEF p
    <3> HIDE DEF a
    <3>4. \A k \in 1 .. Len(s) + 1 : a[k] = p[k]
      <4> TAKE k \in 1 .. Len(s) + 1
      <4>1. k \in 1 .. Len(s) \/ k = Len(s) + 1
        BY <2>2
      <4> QED
        BY <2>4, <3>1, <4>1
    <3>5. a = p
      BY <3>2, <3>3, <3>4
    <3> QED
      BY <3>5 DEF a
  <2>6. sumOf(p) = sumOf(o) + m.from /\ p \in Seq(Int)
    BY <1>5, <2>5, SumAppend
  <2> QED
    BY <1>3, <1>5, <1>8, <2>6 DEF o
<1> QED
  BY <1>7, <1>8

\* s has every element of S once.
Enumerates(s, S) ==
    /\ s \in Seq(Guids)
    /\ \A k \in 1 .. Len(s) : s[k] \in S
    /\ \A g \in S : \E k \in 1 .. Len(s) : s[k] = g
    /\ \A j, k \in 1 .. Len(s) : s[j] = s[k] => j = k

\* One more element at the end.
LEMMA EnumeratesMore ==
    ASSUME NEW s, NEW S, Enumerates(s, S), NEW g \in Guids, g \notin S
    PROVE  Enumerates(Append(s, g), S \union {g})
<1> DEFINE t == Append(s, g)
           n == Len(s)
<1>1. s \in Seq(Guids)
  BY DEF Enumerates
<1>2. /\ t \in Seq(Guids) /\ n \in Nat /\ Len(t) = n + 1 /\ t[n + 1] = g
      /\ \A k \in 1 .. n : t[k] = s[k]
  BY <1>1
<1>3. /\ \A k \in 1 .. n : s[k] \in S
      /\ \A h \in S : \E k \in 1 .. n : s[k] = h
      /\ \A j, k \in 1 .. n : s[j] = s[k] => j = k
  BY DEF Enumerates
<1> HIDE DEF t, n
<1>4. \A k \in 1 .. n + 1 : k \in 1 .. n \/ k = n + 1
  BY <1>2
<1>5. \A k \in 1 .. n : k \in 1 .. n + 1
  BY <1>2
<1>6. n + 1 \in 1 .. n + 1
  BY <1>2
<1>7. \A k \in 1 .. n + 1 : t[k] \in S \union {g}
  BY <1>2, <1>3, <1>4
<1>8. \A h \in S \union {g} : \E k \in 1 .. n + 1 : t[k] = h
  BY <1>2, <1>3, <1>5, <1>6
<1>9. \A j, k \in 1 .. n + 1 : t[j] = t[k] => j = k
  BY <1>2, <1>3, <1>4
<1> QED
  BY <1>2, <1>7, <1>8, <1>9 DEF Enumerates, t

\* One element less, from any place.
LEMMA EnumeratesLess ==
    ASSUME NEW s, NEW S, Enumerates(s, S), NEW i \in 1 .. Len(s)
    PROVE  Enumerates(without(s, i), S \ {s[i]})
<1> DEFINE t == without(s, i)
           n == Len(s)
<1>1. s \in Seq(Guids)
  BY DEF Enumerates
<1>2. n \in Nat /\ n >= 1 /\ i \in 1 .. n /\ \A k \in 1 .. n : s[k] \in Guids
  BY <1>1
<1>3. t \in Seq(Guids) /\ Len(t) = n - 1
  BY <1>2 DEF without
<1>4. \A k \in 1 .. n - 1 : t[k] = IF k < i THEN s[k] ELSE s[k + 1]
  BY DEF without
<1>5. /\ \A k \in 1 .. n : s[k] \in S
      /\ \A h \in S : \E k \in 1 .. n : s[k] = h
      /\ \A j, k \in 1 .. n : s[j] = s[k] => j = k
  BY DEF Enumerates
<1> HIDE DEF t, n
<1> DEFINE at(k) == IF k < i THEN k ELSE k + 1
<1>6. \A k \in 1 .. n - 1 : at(k) \in 1 .. n /\ at(k) # i /\ t[k] = s[at(k)]
  BY <1>2, <1>4
<1>7. \A j, k \in 1 .. n - 1 : at(j) = at(k) => j = k
  BY <1>2
<1>8. \A l \in 1 .. n : l # i => \E k \in 1 .. n - 1 : at(k) = l
  <2> TAKE l \in 1 .. n
  <2>1. CASE l < i
    <3>1. l \in 1 .. n - 1 /\ at(l) = l
      BY <1>2, <2>1
    <3> QED
      BY <3>1
  <2>2. CASE l > i
    <3>1. l - 1 \in 1 .. n - 1 /\ at(l - 1) = l
      BY <1>2, <2>2
    <3> HIDE DEF at
    <3> QED
      BY <3>1
  <2> QED
    BY <1>2, <2>1, <2>2
<1> HIDE DEF at
<1>9. \A k \in 1 .. n - 1 : t[k] \in S \ {s[i]}
  BY <1>2, <1>5, <1>6
<1>10. \A h \in S \ {s[i]} : \E k \in 1 .. n - 1 : t[k] = h
  <2> TAKE h \in S \ {s[i]}
  <2>1. PICK l \in 1 .. n : s[l] = h
    BY <1>5
  <2>2. PICK k \in 1 .. n - 1 : at(k) = l
    BY <1>8, <2>1
  <2> QED
    BY <1>6, <2>1, <2>2
<1>11. \A j, k \in 1 .. n - 1 : t[j] = t[k] => j = k
  BY <1>5, <1>6, <1>7
<1> QED
  BY <1>3, <1>9, <1>10, <1>11 DEF Enumerates, t

\* Such a list is as long as the set is large.
LEMMA EnumeratesAll ==
    ASSUME NEW s, NEW S, Enumerates(s, S)
    PROVE  /\ s \in [1 .. Cardinality(S) -> S]
           /\ \A g \in S : \E k \in DOMAIN s : s[k] = g
<1> DEFINE n == Len(s)
<1>1. s \in Seq(Guids)
  BY DEF Enumerates
<1>2. n \in Nat /\ DOMAIN s = 1 .. n /\ s = [k \in 1 .. n |-> s[k]]
  BY <1>1
<1>3. /\ \A k \in 1 .. n : s[k] \in S
      /\ \A h \in S : \E k \in 1 .. n : s[k] = h
      /\ \A j, k \in 1 .. n : s[j] = s[k] => j = k
  BY DEF Enumerates
<1> HIDE DEF n
<1>4. s \in [1 .. n -> S]
  BY <1>2, <1>3
<1>5. ExistsBijection(1 .. n, S)
  <2>1. s \in Bijection(1 .. n, S)
    BY <1>3, <1>4 DEF Bijection, Injection, Surjection, IsInjective
  <2> QED
    BY <2>1 DEF ExistsBijection
<1>6. Cardinality(S) = n
  BY <1>2, <1>5, FS_CountingElements
<1> QED
  BY <1>2, <1>3, <1>4, <1>6

\* What a server has counted and what it has not received yet make the sum of
\* the machines that are connected.
Counted(x, s) ==
    /\ x \in Int /\ Enumerates(s, connected)
    /\ clientSum = x % Modulus
    /\ x + sumOf(origins({"NEW_INCOMING_CONNECTION"})) - sumOf(origins(leavings)) = sumOf(s)

SumInv ==
    /\ inbox \in Seq(Message) /\ connected \subseteq Guids
    /\ currentRole = "SERVER" => \E x, s : Counted(x, s)

\* The sums of the origins are numbers.
LEMMA OriginSums ==
    ASSUME inbox \in Seq(Message)
    PROVE  sumOf(origins({"NEW_INCOMING_CONNECTION"})) \in Int /\ sumOf(origins(leavings)) \in Int
<1>1. origins({"NEW_INCOMING_CONNECTION"}) \in Seq(Int) /\ origins(leavings) \in Seq(Int)
  BY OriginsTyped, ReceivedAreNotifications, GuidsAreNumbers
<1> QED
  BY <1>1, SumType

\* Nothing has been counted when nothing has arrived.
LEMMA CountsFromZero ==
    ASSUME inbox = << >>, connected = {}, clientSum = 0
    PROVE  Counted(0, << >>)
<1>1. \A ids : origins(ids) = << >>
  <2> TAKE ids
  <2>1. messages(ids) = << >> /\ Len(<< >>) = 0
    BY AmongNothing DEF messages
  <2> QED
    BY <2>1 DEF origins
<1>2. sumOf(<< >>) = 0 /\ 0 % Modulus = 0
  <2>1. 0 % Modulus = 0
    BY NetAssumption
  <2> QED
    BY <2>1, SumType
<1>3. Enumerates(<< >>, {})
  <2>1. << >> \in Seq(Guids) /\ Len(<< >>) = 0
    OBVIOUS
  <2> QED
    BY <2>1 DEF Enumerates
<1>4. /\ sumOf(origins({"NEW_INCOMING_CONNECTION"})) = 0
      /\ sumOf(origins(leavings)) = 0
  BY <1>1, <1>2
<1> QED
  BY <1>2, <1>3, <1>4 DEF Counted

\* A machine that connects is one more to be counted.
LEMMA CountsConnection ==
    ASSUME SumInv, NEW g \in Guids, connects(g)
    PROVE  SumInv'
<1> DEFINE m == [id |-> "NEW_INCOMING_CONNECTION", from |-> g]
           new == sumOf(origins({"NEW_INCOMING_CONNECTION"}))
           old == sumOf(origins(leavings))
<1>1. /\ g \notin connected /\ connected' = connected \union {g}
      /\ UNCHANGED << currentRole, clientSum >> /\ arrives(m)
  BY DEF connects, serverVars
<1>2. m \in Message /\ m.id \notin leavings /\ m.from = g /\ m.id \in {"NEW_INCOMING_CONNECTION"}
  BY DEF Message, leavings
<1> HIDE DEF m
<1>3. inbox' \in Seq(Message) /\ connected' \subseteq Guids
  BY <1>1, <1>2, Arrives DEF SumInv
<1>4. /\ sumOf(origins({"NEW_INCOMING_CONNECTION"})') = new + g
      /\ sumOf(origins(leavings)') = old
  BY <1>1, <1>2, OriginsArrive, ReceivedAreNotifications DEF SumInv
<1>5. ASSUME currentRole = "SERVER" PROVE \E x, s : Counted(x, s)'
  <2>1. PICK x, s : Counted(x, s)
    BY <1>5 DEF SumInv
  <2>2. Enumerates(Append(s, g), connected')
    BY <1>1, <2>1, EnumeratesMore DEF Counted
  <2>3. s \in Seq(Int) /\ g \in Int
    BY <2>1, GuidsAreNumbers DEF Counted, Enumerates
  <2>4. sumOf(Append(s, g)) = sumOf(s) + g
    BY <2>3, SumAppend
  <2>5. x \in Int /\ x + new - old = sumOf(s) /\ clientSum = x % Modulus
    BY <2>1 DEF Counted
  <2>6. new \in Int /\ old \in Int
    BY OriginSums DEF SumInv
  <2>7. x + (new + g) - old = sumOf(s) + g
    <3> HIDE DEF new, old
    <3> QED
      BY <2>3, <2>5, <2>6
  <2>8. Counted(x, Append(s, g))'
    <3> HIDE DEF new, old
    <3> QED
      BY <1>1, <1>4, <2>2, <2>4, <2>5, <2>7 DEF Counted, sumOf
  <2> QED
    BY <2>8
<1> QED
  BY <1>1, <1>3, <1>5 DEF SumInv

\* One that leaves is one less.
LEMMA CountsLeaving ==
    ASSUME SumInv, NEW g \in Guids,
           NEW how \in {"DISCONNECTION_NOTIFICATION", "CONNECTION_LOST"}, leaves(g, how)
    PROVE  SumInv'
<1> DEFINE m == [id |-> how, from |-> g]
           new == sumOf(origins({"NEW_INCOMING_CONNECTION"}))
           old == sumOf(origins(leavings))
<1>1. /\ g \in connected /\ connected' = connected \ {g}
      /\ UNCHANGED << currentRole, clientSum >> /\ arrives(m)
  BY DEF leaves, serverVars
<1>2. m \in Message /\ m.id \in leavings /\ m.from = g /\ m.id \notin {"NEW_INCOMING_CONNECTION"}
  BY DEF Message, leavings
<1> HIDE DEF m
<1>3. inbox' \in Seq(Message) /\ connected' \subseteq Guids
  BY <1>1, <1>2, Arrives DEF SumInv
<1>4. /\ sumOf(origins({"NEW_INCOMING_CONNECTION"})') = new
      /\ sumOf(origins(leavings)') = old + g
  BY <1>1, <1>2, OriginsArrive, ReceivedAreNotifications DEF SumInv
<1>5. ASSUME currentRole = "SERVER" PROVE \E x, s : Counted(x, s)'
  <2>1. PICK x, s : Counted(x, s)
    BY <1>5 DEF SumInv
  <2>2. PICK i \in 1 .. Len(s) : s[i] = g
    BY <1>1, <2>1 DEF Counted, Enumerates
  <2>3. Enumerates(without(s, i), connected')
    BY <1>1, <2>1, <2>2, EnumeratesLess DEF Counted
  <2>4. s \in Seq(Int) /\ g \in Int
    BY <2>1, GuidsAreNumbers DEF Counted, Enumerates
  <2>5. sumOf(without(s, i)) = sumOf(s) - g
    BY <2>2, <2>4, SumWithout
  <2>6. x \in Int /\ x + new - old = sumOf(s) /\ clientSum = x % Modulus
    BY <2>1 DEF Counted
  <2>7. new \in Int /\ old \in Int
    BY OriginSums DEF SumInv
  <2>8. x + new - (old + g) = sumOf(s) - g
    <3> HIDE DEF new, old
    <3> QED
      BY <2>4, <2>6, <2>7
  <2>9. Counted(x, without(s, i))'
    <3> HIDE DEF new, old
    <3> QED
      BY <1>1, <1>4, <2>3, <2>5, <2>6, <2>8 DEF Counted, sumOf
  <2> QED
    BY <2>9
<1> QED
  BY <1>1, <1>3, <1>5 DEF SumInv

\* Another packet is none.
LEMMA CountsPacket ==
    ASSUME SumInv, NEW kind \in {"ECS_REQUEST", "SYNC", "OTHER"}, sends(kind)
    PROVE  SumInv'
<1> DEFINE m == packet(kind)
           new == sumOf(origins({"NEW_INCOMING_CONNECTION"}))
           old == sumOf(origins(leavings))
<1>1. UNCHANGED << currentRole, connected, clientSum >> /\ arrives(m)
  BY DEF sends, serverVars
<1>2. m \in Message /\ m.id \notin leavings /\ m.id \notin {"NEW_INCOMING_CONNECTION"}
  BY DEF Message, leavings, packet
<1> HIDE DEF m
<1>3. inbox' \in Seq(Message) /\ connected' \subseteq Guids
  BY <1>1, <1>2, Arrives DEF SumInv
<1>4. /\ sumOf(origins({"NEW_INCOMING_CONNECTION"})') = new
      /\ sumOf(origins(leavings)') = old
  BY <1>1, <1>2, OriginsArrive, ReceivedAreNotifications DEF SumInv
<1>5. ASSUME currentRole = "SERVER" PROVE \E x, s : Counted(x, s)'
  <2>1. PICK x, s : Counted(x, s)
    BY <1>5 DEF SumInv
  <2>2. Counted(x, s)'
    BY <1>1, <1>4, <2>1 DEF Counted, sumOf
  <2> QED
    BY <2>2
<1> QED
  BY <1>1, <1>3, <1>5 DEF SumInv

\* What tick receives it counts.
LEMMA CountsAtTick ==
    ASSUME SumInv, tick
    PROVE  SumInv'
<1> DEFINE new == sumOf(origins({"NEW_INCOMING_CONNECTION"}))
           old == sumOf(origins(leavings))
<1>1. inbox' = << >> /\ UNCHANGED << currentRole, connected >>
      /\ (currentRole = "SERVER" => noteConnections)
  BY DEF tick
<1>2. ASSUME currentRole = "SERVER" PROVE \E x, s : Counted(x, s)'
  <2>1. PICK x, s : Counted(x, s)
    BY <1>2 DEF SumInv
  <2>2. x \in Int /\ x + new - old = sumOf(s) /\ clientSum = x % Modulus
    BY <2>1 DEF Counted
  <2>3. new \in Int /\ old \in Int
    BY OriginSums DEF SumInv
  <2>4. clientSum' = (clientSum + new - old) % Modulus
    BY <1>1, <1>2 DEF noteConnections
  <2> DEFINE y == x + new - old
  <2>5. clientSum' = y % Modulus /\ y \in Int
    <3> HIDE DEF new, old
    <3>1. new - old \in Int /\ y = x + (new - old) /\ y \in Int
      BY <2>2, <2>3
    <3>2. (x % Modulus) + new - old = (x % Modulus) + (new - old)
      <4>1. x % Modulus \in Int
        BY <2>2, NetAssumption
      <4> QED
        BY <2>3, <4>1
    <3>3. ((x % Modulus) + (new - old)) % Modulus = (x + (new - old)) % Modulus
      BY <2>2, <3>1, NetAssumption, WrapsAnyTime
    <3> QED
      BY <2>2, <2>4, <3>1, <3>2, <3>3
  <2>6. y = sumOf(s)
    BY <2>2
  <2> HIDE DEF new, old, y
  <2>7. \A ids : origins(ids)' = << >>
    <3> TAKE ids
    <3>1. messages(ids)' = << >> /\ Len(<< >>) = 0
      BY <1>1, AmongNothing DEF messages
    <3> QED
      BY <3>1 DEF origins
  <2>8. /\ sumOf(origins({"NEW_INCOMING_CONNECTION"})') = 0
        /\ sumOf(origins(leavings)') = 0
    BY <2>7, SumType
  <2>n. PICK z \in Int : z = y
    BY <2>5
  <2>9. Counted(z, s)'
    <3>1. z + 0 - 0 = sumOf(s)
      BY <2>6, <2>n
    <3> QED
      BY <1>1, <2>1, <2>5, <2>8, <2>n, <3>1 DEF Counted, sumOf
  <2> QED
    BY <2>9
<1>3. inbox' \in Seq(Message) /\ connected' \subseteq Guids
  BY <1>1 DEF SumInv
<1> QED
  BY <1>1, <1>2, <1>3 DEF SumInv

\* Every step keeps the count.
LEMMA SumStep == SumInv /\ [Next]_vars => SumInv'
<1> SUFFICES ASSUME SumInv, [Next]_vars PROVE SumInv'
  OBVIOUS
<1>1. ASSUME UNCHANGED << currentRole, inbox, connected, clientSum >> PROVE SumInv'
  BY <1>1 DEF SumInv, Counted, origins, messages
<1>2. ASSUME NEW role \in Role, NEW starts \in BOOLEAN, NEW reserved \in BOOLEAN,
           assumeRole(role, starts, reserved) PROVE SumInv'
  <2>1. inbox' = << >> /\ connected' = {} /\ clientSum' = 0
    BY <1>2 DEF assumeRole, noPeer, freshFields
  <2>2. (inbox = << >> /\ connected = {} /\ clientSum = 0 => Counted(0, << >>))'
    BY CountsFromZero, PTL
  <2> QED
    BY <2>1, <2>2 DEF SumInv
<1>3. CASE discardRequestPackets \/ discardSyncPackets \/ discardFreshConnections \/ getClientGuids
  BY <1>1, <1>3 DEF discardRequestPackets, discardSyncPackets, discardFreshConnections, getClientGuids,
                    serverVars
<1>4. CASE askDiscord \/ UNCHANGED vars
  BY <1>1, <1>4 DEF askDiscord, vars, netVars, serverVars
<1> QED
  BY <1>2, <1>3, <1>4, CountsAtTick, CountsConnection, CountsLeaving, CountsPacket DEF Next, Role

\* The sum a server tells its clients apart by is that of the GUIDs connected,
\* with clientSum wrapping around as it may, once it has received what is
\* there to be received.
THEOREM SumTellsClients == Spec => []ClientSumTellsClients
<1>1. Init => SumInv
  <2> SUFFICES ASSUME Init PROVE SumInv
    OBVIOUS
  <2>1. inbox = << >> /\ connected = {} /\ clientSum = 0
    BY DEF Init
  <2> QED
    BY <2>1, CountsFromZero DEF SumInv
<1>2. SumInv => ClientSumTellsClients
  <2> SUFFICES ASSUME SumInv, currentRole = "SERVER", inbox = << >>
               PROVE  \E s \in [1 .. Cardinality(connected) -> connected] :
                          /\ \A g \in connected : \E k \in DOMAIN s : s[k] = g
                          /\ clientSum = sumOf(s) % Modulus
    BY DEF ClientSumTellsClients
  <2>1. PICK x, s : Counted(x, s)
    BY DEF SumInv
  <2>2. \A ids : origins(ids) = << >>
    <3> TAKE ids
    <3>1. messages(ids) = << >> /\ Len(<< >>) = 0
      BY AmongNothing DEF messages
    <3> QED
      BY <3>1 DEF origins
  <2>3. /\ sumOf(origins({"NEW_INCOMING_CONNECTION"})) = 0
        /\ sumOf(origins(leavings)) = 0
    BY <2>2, SumType
  <2>4. x \in Int /\ clientSum = x % Modulus /\ x + 0 - 0 = sumOf(s)
    BY <2>1, <2>3 DEF Counted
  <2>5. clientSum = sumOf(s) % Modulus
    BY <2>4
  <2>6. s \in [1 .. Cardinality(connected) -> connected] /\ \A g \in connected : \E k \in DOMAIN s : s[k] = g
    BY <2>1, EnumeratesAll DEF Counted
  <2> QED
    BY <2>5, <2>6
<1> QED
  BY <1>1, <1>2, SumStep, PTL DEF Spec

--------------------------------------------------------------------------
(* What frnd answers *)

\* What frnd answers for a name: for nobody but those it has heard of, and for
\* the only one of them who is a friend.
LEMMA AnswersForName ==
    ASSUME DiscordTypeOK, NEW n \in Names, NEW dscrm \in Dscrms \union {0}, frnd(n, dscrm)
    PROVE  /\ answer' \in {"could not find"} \union {u \in heard(n) : relation[u] # "none"}
           /\ \A u \in heard(n) : heard(n) = {u} /\ relation[u] = "friend" => answer' = u
<1> DEFINE H == heard(n)
           id == idToGet(n, dscrm, updatedFriends)
<1>1. answer' = IF id \in Users /\ relation[id] = "none" THEN "could not find" ELSE id
  BY DEF frnd
<1>2. H = named(n, updatedFriends)
  BY DEF heard, updatedFriends, isFriend
<1>3. H \in SUBSET Users
  BY DEF heard, named, DiscordTypeOK
<1>4. id = IF H = {} THEN "could not find" ELSE begin(H)
  <2>1. numMatches(n, updatedFriends) = IF H = {} THEN 0 ELSE 1
    BY <1>2 DEF numMatches
  <2>2. CASE H = {}
    BY <2>1, <2>2 DEF idToGet
  <2>3. CASE H # {}
    <3>1. numMatches(n, updatedFriends) = 1 /\ numMatches(n, updatedFriends) # 0
      BY <2>1, <2>3
    <3> QED
      BY <1>2, <2>3, <3>1, Zenon DEF idToGet
  <2> QED
    BY <2>2, <2>3
<1> HIDE DEF H, id
<1>5. H # {} => begin(H) \in H
  BY <1>3, BeginsWithOne
<1>6. answer' \in {"could not find"} \union {u \in H : relation[u] # "none"}
  <2>1. CASE H = {}
    BY <1>1, <1>4, <2>1
  <2>2. CASE H # {}
    <3>1. id \in H /\ id \in Users
      BY <1>3, <1>4, <1>5, <2>2
    <3> QED
      BY <1>1, <3>1
  <2> QED
    BY <2>1, <2>2
<1>7. ASSUME NEW u \in H, H = {u}, relation[u] = "friend" PROVE answer' = u
  <2>1. id = u
    BY <1>4, <1>5, <1>7
  <2> QED
    BY <1>1, <1>7, <2>1
<1> QED
  BY <1>6, <1>7 DEF H

\* frnd never answers for someone it has no business with, and finds the friend
\* who is the only one it has heard of under a name, however friends become
\* such, leave, are blocked and return.
THEOREM FriendsFound == Spec => AnswersRight
<1>1. Init => DiscordTypeOK
  BY DEF Init, DiscordInit, strangers, Relations, DiscordTypeOK
<1>2. DiscordTypeOK /\ [Next]_vars => DiscordTypeOK'
  BY DiscordTyped
<1>3. DiscordTypeOK /\ [Next]_vars =>
          [answer' # NoOne =>
               \A n \in Names, dscrm \in Dscrms \union {0} : frnd(n, dscrm) =>
                   /\ answer' \in {"could not find"} \union {u \in heard(n) : relation[u] # "none"}
                   /\ \A u \in heard(n) : heard(n) = {u} /\ relation[u] = "friend" => answer' = u
          ]_discordVars
  BY AnswersForName
<1> QED
  BY <1>1, <1>2, <1>3, PTL DEF Spec, AnswersRight

====
