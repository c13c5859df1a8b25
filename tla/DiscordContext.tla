---- MODULE DiscordContext ----
(***************************************************************************)
(* DiscordContext (network/discord.cpp), which NetInterface owns: the core *)
(* of the Discord SDK, null until connect has made one, and the friends it *)
(* has heard of, whom frnd looks up by name.                               *)
(*                                                                         *)
(* The SDK is not in the repository: it makes a core or fails to, and      *)
(* learns of relationships while it runs callbacks.                        *)
(***************************************************************************)
EXTENDS Integers, FiniteSets

CONSTANTS
    Users,          \* the users of Discord who may become friends
    tag,            \* the name and the discriminator of each of them, as
                    \* asciiNoSpaces leaves them
    NoOne,
    ConnectsFirst   \* the game uses Discord, and asks for the role of server,
                    \* only if its last connect has returned true

ASSUME TagAssumption ==
    /\ NoOne \notin Users
    /\ \A u \in Users : tag[u].dscrm \in Nat
    /\ \A u, v \in Users : tag[u] = tag[v] => u = v

VARIABLES
    core,               \* whether state.core is not null
    connectReturned,    \* what the last connect returned
    relation,           \* what the core knows of every user
    friends,            \* the users with an entry in friends
    answer,             \* what frnd has just reported
    nullUsed            \* whether a null core was ever used

discordVars == << core, connectReturned, relation, friends, answer, nullUsed >>

Names == {tag[u].name : u \in Users}
Dscrms == {tag[u].dscrm : u \in Users}

strangers == [u \in Users |-> "none"]

\* What every method but tick does with state.core first: dereference it.
usesCore ==
    /\ ConnectsFirst => connectReturned
    /\ nullUsed' = (nullUsed \/ ~core)

\* The filter of updateFriends.  The bug variant lets every relationship
\* through.
anyRelation(r) == r # "none"
isFriend(r) == r = "friend"

\* updateFriends: entries are written, none is ever removed.
updatedFriends == friends \union {u \in Users : isFriend(relation[u])}

\* What connect returns.  The bug variant never fails.
alwaysConnected(created) == TRUE
connectResult(created) == created

\* The old core goes in either case; a new one knows no relationships yet, so
\* that updateFriends finds nobody.
connect ==
    /\ \E created \in BOOLEAN : core' = created /\ connectReturned' = connectResult(created)
    /\ relation' = strangers /\ answer' = NoOne
    /\ UNCHANGED << friends, nullUsed >>

\* What there may be between a user and the program's own: nothing, a
\* friendship, or a request, a block and the like.
Relations == {"none", "friend", "other"}

\* Flush and RunCallbacks, the only place where the core is asked for first.
\* While callbacks run a relationship may have changed.
tickDiscord ==
    /\ IF core
       THEN \/ UNCHANGED relation
            \/ \E u \in Users, r \in Relations : relation' = [relation EXCEPT ![u] = r]
       ELSE UNCHANGED relation
    /\ answer' = NoOne
    /\ UNCHANGED << core, connectReturned, friends, nullUsed >>

\* host and list only pass a request on to the core; the callbacks report.
host == usesCore /\ UNCHANGED << core, connectReturned, relation, friends, answer >>
listLobbies == host

--------------------------------------------------------------------------
(* frnd *)

named(n, known) == {u \in known : tag[u].name = n}

\* friends.count, on a map from a name to everyone of that name.
numMatches(n, known) == IF named(n, known) = {} THEN 0 ELSE 1

\* The friend at the beginning of the inner map.
begin(users) == CHOOSE u \in users : \A v \in users : tag[u].dscrm <= tag[v].dscrm

\* The user whose relationship frnd asks the core for, or what it says instead.
idToGet(n, dscrm, known) ==
    LET exact == {u \in named(n, known) : tag[u].dscrm = dscrm}
    IN  IF numMatches(n, known) = 0 THEN "could not find"
        ELSE IF numMatches(n, known) = 1 THEN begin(named(n, known))
        ELSE IF exact # {} THEN begin(exact) ELSE "multiple"

\* With dscrm 0 for a call without one.  The core has the relationship, or
\* not, of whatever type it is.
frnd(n, dscrm) ==
    /\ usesCore
    /\ friends' = updatedFriends
    /\ LET id == idToGet(n, dscrm, updatedFriends)
       IN  answer' = IF id \in Users /\ relation[id] = "none" THEN "could not find" ELSE id
    /\ UNCHANGED << core, connectReturned, relation >>

\* frnd without a name: friends as a whole is published.
frndNobody ==
    /\ usesCore
    /\ friends' = updatedFriends /\ answer' = NoOne
    /\ UNCHANGED << core, connectReturned, relation >>

--------------------------------------------------------------------------
DiscordInit ==
    /\ core = FALSE /\ connectReturned = FALSE /\ nullUsed = FALSE
    /\ relation = strangers /\ friends = {} /\ answer = NoOne

DiscordTypeOK ==
    /\ core \in BOOLEAN /\ connectReturned \in BOOLEAN /\ nullUsed \in BOOLEAN
    /\ relation \in [Users -> Relations]
    /\ friends \subseteq Users
    /\ answer \in Users \union {NoOne, "could not find", "multiple"}

--------------------------------------------------------------------------
(* Properties *)

\* state.core is not null whenever host, list or frnd goes through it, in
\* whatever order the game connects, again and again, and gets or loses the
\* role of server.
NoNullCore == ~nullUsed

\* Those of a name whom frnd has heard of: the friends there are, and those
\* there were when it was asked before.
heard(n) == named(n, friends \union {u \in Users : relation[u] = "friend"})

\* Although friends also has those who are friends no more, frnd never answers
\* for someone it has no business with: only for one who has the name, is or
\* was a friend, and is somebody to the program still.  And a friend who is the
\* only one it has heard of under the name is found.  (Of several it takes the
\* first, who may have left: numMatches is never more than 1.)
AnswersRight ==
    [][answer' # NoOne =>
           \A n \in Names, dscrm \in Dscrms \union {0} : frnd(n, dscrm) =>
               /\ answer' \in {"could not find"} \union {u \in heard(n) : relation[u] # "none"}
               /\ \A u \in heard(n) : heard(n) = {u} /\ relation[u] = "friend" => answer' = u
      ]_discordVars

====
