# ezecs: a verification development

TLA+ models of ezecs, the entity-component system generated by
`ecsGenerator` together with its networking layer, the TLC runs that check
them on small instances, and theorems about them that TLAPS checks for every
value of the constants.  Line numbers are those of the files under `src/`.
`PROJECT.json` maps every definition to the lines it stands for.

## 1. The system

| Component | State | Operations | Correct when |
|---|---|---|---|
| **State**, entities and components (`source/ecsState.cpp/.hpp`, and the method bodies that `source/ecsGenerator.cpp` writes) | `nextId`, `freedIds`, one `KvMap` per component type, the mask in each entity's Existence component, the callback lists of each type | `createEntity`, `addComp`/`insertComp`/`remComp` (the generated `add`/`insert`/`rem<Comp>`), `clearEntity`, `deleteEntity`, `clear`, `listenForLikeEntities` | mask and collections agree; prerequisites are held; ids are neither lost nor aliased; every gain or loss of a likeness is notified |
| **Component types** (`source/ecsComponents.*`) | the mask `componentsPresent` | flag helpers, prerequisite and dependency tests | dependents are the inverse of prerequisites |
| **KvMap** (`source/ecsKvMap.hpp`) | one hash map | `count`, `try_emplace`, `insert`, `erase`, ... | the semantics of a map with unique keys |
| **System** (`source/ecsSystem.hpp`) | `registries` of ids, `paused` | the constructor, `discover`, `forget`, `clean`, `pause` | a registry holds the entities with its likeness, also when its handlers call State |
| **Entity requests** (`ecsState.cpp:35-185`) | `entityRequestOpen`, `stream`, `compStreams` | `openEntityRequest`, `request<Comp>`, `closeEntityRequest`, `broadcastManualEntity`, `requestEntityDeletion`, `serializeEntityCreationRequest`, `serializeEntityDeletionRequest` | clients have the server's entities under the server's ids |
| **Component serialization** (generated `serialize<Comp>`, `hasComponent`) | a bit stream | write from an entity, write from constructor arguments, read | a reader takes what a writer wrote |
| **Generator** (`source/ecsGenerator.cpp`) | the tables it builds from the configuration files, the four output files | `main`, `getNamesFromArgList`, `getPtrsFromArgList` | prerequisites are serialized first; the first fault decides the exit code; a configuration that is turned down leaves the outputs alone, and 0 means that all four are new; it ends |
| **NetInterface, Server, Client** (`network/`) | the role, the packet buffers, `clientSum`, the client lists | `assumeRole`, `tick`, `discard*`, `getClientGuids`/`getClientAddresses`, sending | every packet goes back to its peer once; there is a peer for the role and no other; the list and the sum of the clients are the peer's |
| **Discord** (`network/discord.*`) | the SDK's core, `friends` | `connect`, `tick`, `host`, `list`, `frnd` | no null core is used; a name finds the only friend who has it, and nobody it should not |
| Helpers, build files, example programs | none | | not modelled, except where an error macro repeats a read |

**How they interact.**  A game owns a `State`, its `System`s and one
`NetInterface`, which owns a `DiscordContext` and hosts a lobby there when it
becomes a server.  A System's constructor gives State pairs of delegates, one
pair for every `IdRegistry`; State calls them in the middle of `addComp` and
`remCompNoChecks`, and nothing keeps a delegate from calling State again.
The entity requests write a message to `State::stream` and
the NetInterface sends it on one reliable, ordered channel.  The generator is
not there at run time, but it decides the order in which State serializes
components and every mask State tests.

**What is hard.**  Nothing in State is concurrent; what makes it hard is the
length of call sequences, delegates that observe an entity while it is taken
apart or change it themselves, ids that are used again and ids passed by
reference into a vector, and one fact kept in two places (mask and
collection, counter and stack, entity and registry).  The networking has real
interleavings: requests from several machines, packets under way while ids
are taken and freed, machines that connect and vanish between two calls of the
game.  The generator is a fixpoint loop that need not end.  `PROJECT.json`
lists each hazard at its line.

## 2. The modules

```
KvMap, EntityIds, EcsComponents -> EcsState -> EcsStateRefinement -> MCEcsState
                                      |               |
                             EcsStateProofs -> EcsRefinementProofs

KvMap, EntityIds, EcsComponents -> EcsReentrant -> MCEcsReentrant, EcsReentrantProofs

EntityIds, EcsComponents -> EntityMachine -> EntityStore, ReplicatedStore
                                  |
                            ComponentStream -> EntityRequests -> MCEntityRequests,
                                                                 EntityRequestsProofs

Generator, ArgLists -> GeneratorMain -> MCGenerator
    |                       |
GeneratorProofs -> GeneratorMainProofs

DiscordContext -> NetInterface -> MCNetInterface, NetInterfaceProofs

A -> B: B extends A.  EntityStore is instantiated in EcsStateRefinement and in
EcsReentrant, ReplicatedStore in EntityRequests.  Induction is extended by
GeneratorProofs, EcsReentrantProofs, NetInterfaceProofs and
EntityRequestsProofs.
```

### EcsState, with KvMap, EntityIds and EcsComponents

One State and all its Systems.  A collection is the set of its keys
(`comps[c]`), a `compMask` a set of types, the Existence component of an entity
its `componentsPresent`.  `nextId` and `freedIds` are the code's; an `entityId`
has values up to `MaxId`, which stands for `numeric_limits<entityId>::max()`.
A `System` has some of the `Listeners` (its `IdRegistry` objects), each with a
`Likeness`.

| Code | Model |
|---|---|
| `createEntity` | `createEntity`; `outOfIds` is the condition with the increment in it |
| `add<Comp>`, `insert<Comp>` | `addComp`; store, `discover` on the old mask, turn the flag on |
| `rem<Comp>` | `remComp`, through `remCompNoChecks` |
| `clearEntity`, `deleteEntity`, `clear` | one step per component removed, because delegates run between them: `beginClearing`, `clearLoopBody`, `clearEntityReturns`, `deleteEntityReturns`, `clearNext`, `clearReturns` |
| `listenForLikeEntities` and the System constructor | `listenForLikeEntities` |
| `IdRegistry` with its handlers | `discover`, `forget`; a handler that may answer no belongs to a registry in `PickyDiscover` or `PickyForget` |

Values of components are left out, since no property tells them apart, and so
are the arguments of constructors.  `ret` is the return value, kept because the
failures are part of what is checked.  The order of the hash map in `clear`'s
second loop is any order.  Handlers only answer here; those that call State are
the subject of EcsReentrant.

### EntityStore and EcsStateRefinement

What a State promises, in the words of the method comments of `ecsState.hpp`:
every method changes the entities at once, completely or not at all.
`EntityStore` says it with one action per method over `EntityMachine`.
`EcsStateRefinement` maps a State to such a store: a clearing call takes effect
when it begins, so `clearEntity`'s entity counts as empty and `deleteEntity`'s
as gone, with its id on the stack, while the loop has still components to
remove.  `clear` is a series of deletions.  Two things follow: the many steps of
a clearing call amount to one change, and the operators of `EntityMachine`, on
which the networked modules rest, do what the methods of EcsState do.

### EcsReentrant

State with handlers that may call any of its methods before they return, from
inside a notification that a call is in the middle of.  The variable `stack`
holds the running calls and handlers.  A frame has what the C++ call holds on to
while others run:

| In the code | In the frame |
|---|---|
| the id, a `const entityId&` that may be a place in a registry's vector | `id`, read again through `ref` whenever that vector changes |
| the pointer to the Existence component (`ecsState.cpp:276-300`) | `entity`, whose component it points to |
| the range-for over the callbacks of a type | `c`, `pos`, `last` |
| the position `forget` has found before it calls its handler (`ecsSystem.hpp:52`) | `l`, `at` |

`stale` is set when what the frame points into is erased or moves.  The
code survives reentrance only if handlers keep to rules that are
written nowhere, and which the model found one at a time.  The constant `Rules`
names those a run assumes:

| Rule | Without it |
|---|---|
| "others": a handler calls nothing for an entity a running call is about | `StoreMatchesMask` fails |
| "pinned": nothing makes a registry grow or shrink while its forgetHandler runs or a call has its id from there by reference | `HoldsWhatItTook` fails |
| "systems": handlers construct no System | `HoldsWhatItTook` fails |
| "clear": handlers inside `clear` create no entities and add no persistent component | `ClearSparesPersistent` fails |

With all four `CallsAtomic` says that nested calls are still one change of
`EntityStore` each, at the moment they return.  Where a rule is broken a
program has undefined behaviour, and nothing is said of how it goes on.

### EntityMachine, ComponentStream, EntityRequests, ReplicatedStore

Several States side by side, alone, as a server and as its clients.
`EntityMachine` is
EcsState as a value: each method is an operator on a record of counter, stack
and masks, built on the same `EntityIds` and `EcsComponents`.
`ComponentStream` is the component part of a message, token by token where the
code writes a bit or a component's fields.  A reader that comes to a token it
does not expect gets arbitrary bits from there on, so `readInto` is the *set*
of States it may lead to.

`EntityRequests` has an action for every call a game makes and one for every
kind of packet.  `toServer` and `toClient` are FIFO queues because everything
goes on `CH_ECS_UPDATE`, sent `RELIABLE_ORDERED`.  The code that takes a packet
off the wire and calls `serializeEntityCreationRequest` belongs to the game and
is not in the repository; `receiveRequest` and `receiveUpdate` do what the
comments at `ecsState.cpp:118-139` say it does, with the first message of a
packet.

A program begins alone (role NONE), where an entity request is fulfilled at
once by its own State; `host` and `join` give it a role, `leave` takes a client's
away, with the packets under way to it and some of those it has sent.

`request<Comp>` does something else in each role.  Connected, it writes the
constructor's arguments to the component's stream, and the order in which a game
asks does not matter.  Alone, it adds the component at once, and one that is asked
for before its prerequisite is refused, which is only logged.  `RequestsFulfilled`
says both: a server makes what was asked for if that includes the prerequisites, and
a program alone makes nothing that was not asked for, and all of it if each
component was asked for after its prerequisites.  The auxiliary variable `early`
remembers the programs that asked for one too early.  Nothing in `request<Comp>`
looks whether a request is open: `requestUnopened` is the call when none is, which
alone changes the entity of the last request, and connected a stream that the next
`openEntityRequest` resets.  (The repository itself nowhere fills `compStreams`;
that is left to the game, and `StreamsFit` says how many streams it takes.)

Five constants say what a game promises.  The first two are FALSE in the runs of
section 4; each of them is needed:

| Promise | Without it |
|---|---|
| `ManualInOrder`: an entity made by hand on the server is broadcast before anything else creates or deletes an entity there | `ExactlyOneIteration` and `ClientsInStep` fail |
| `QuietWhileOpen`: nothing else is sent while a request is open | `ExactlyOneIteration` and `RequestsFulfilled` fail |
| `JoinsFresh`: programs host and join with an untouched State, and before the server has created anything | `ClientsInStep` fails |
| `RoleKept`: no role changes while a request is open | `RequestsFulfilled` fails |
| `AsksOnce`: a component is asked for once in a request | `RequestsFulfilled` fails: the stream has the arguments twice |

`ReplicatedStore` is what all of it is for: there is one order of creations and
deletions, and every client performs it from the beginning, at its own pace.
A creation in it has no id; that the ids in the messages are those a client
would have given the entities by itself is part of `OneHistory`.

### Generator, ArgLists, GeneratorMain

`Generator` is the algorithm in the middle of `main`, from the parsed macros on:
`readDependencies` (exit code -13), `fillDependentComps`, then the
`while (compsRemain)` loop, a step for every type of every pass (`orderComp`,
exit code -20) and one for the end of a pass (`orderPassEnds`).

`GeneratorMain` is the whole of `main` around it, one stage after another:
the arguments, the files, the sections of each configuration, the macros, the
constructors, the order, the four outputs.  `given` is what a run is started
with, faults included; every fault has its exit code, and the dependencies are
chosen in Init, so that a run covers all of them.  The static counter that
numbers the streams of the types is `idxCnt`.  `ArgLists` is what the code does
to a constructor's argument list, word by word; it goes wrong for `const`, an
asterisk between blanks, and types of several words (the FIXME at
`ecsGenerator.cpp:761` mentions the first), so the lists of the instance have
none of these.  What regular expressions accept and the wording of the C++ are
left out.  The four outputs are opened and written one after another.  A run that
cannot open the second, third or fourth (codes -17 to -19) has already replaced the
ones before it, which `OutputsTogether` does not exclude: it says that a configuration
that is turned down leaves all four alone, and that 0 means all four are new.
`DiskHolds` says that what is written to an open file gets there: nothing in the
code asks, and without it `OutputsTogether` fails.

### NetInterface and DiscordContext

Roles, peers and buffers.  `allocated` counts the packets the *present* peer
has handed out; a packet given back to another peer, or twice, shows in it.
The peer (SLikeNet) is external: `connects`, `leaves` and `sends` let machines
and messages come at any time.  A new peer starts or does not (`starts`): another
process may hold the port, and then the peer stays as it is ("failed"), with the
role.  A server that is made while the old one still has the port cannot start
whatever the world does ("blocked"); that it happens only to a game that asks for
the role of server while it has it is the last part of `RoleMatchesPeer`.
`DiscardsFirst` is what a game promises (it discards all packets before
changing the role); without it `PacketsAccounted` fails.  No document asks for
it, so this is a hazard and not a finding.

`DiscordContext` is extended by `NetInterface`: `assumeRole(SERVER)` calls
`host` there, `tick` calls its `tick`, `list` and `frnd` are passed on.  The SDK
is external: `connect` makes a core or not, and any relationship may change to any
other while callbacks run.  `ConnectsFirst` (Discord, and with it the role of
server, is used only if the last `connect` returned true) is what keeps a null core
from being used.  `AnswersRight` says what `frnd` can be relied on for: it answers
only for someone of that name who is or was a friend and has a relationship with
the user still, and it finds a friend who is the only one it has heard of under the
name.  It does not promise more, because the code does not do more: `friends`
only grows, so someone who was blocked is still answered for, and
`std::map::count` is never more than 1, so of several friends of one name the
first is taken, whatever number was given (section 4).  Two of the three users of the
instance have the same name.

## 3. The runs

| Run | Checks | Instance |
|---|---|---|
| `ecs_state` | `TypeOK`, `StoreMatchesMask`, `IdsAccounted`, `PrerequisitesHeld`, `NothingReallyBad`, `RegistrySound`, `RegistryFollows`, `ClearSparesPersistent`, `ImplementsStore` | the types of `tests/basic` (Bar needs Foo, Meh needs both, Empty is persistent here), ids 1 and 2, two Systems |
| `ecs_reentrant` | `TypeOK`, `HoldsWhatItTook`, `StoreMatchesMask`, `RegistrySound`, `ClearSparesPersistent`, `RegistryFollows`, `CallsAtomic` | two types, one of them persistent and needing the other, three ids, two Systems with a registry each, handlers two deep |
| `generator` | `MainTypeOK`, `PrerequisitesFirst`, `WrittenOnce`, `ExitCodeRight`, `CyclesLoop`, `ReturnsFirstFault`, `OutputsTogether`, `ArgumentsPassedOn`, `StreamsFit`, `MainTerminates` | all configurations of three types (4096 dependency tables with every choice of `noserialize`) with nothing else wrong; every other fault alone and every pair, with a few of them |
| `entity_requests` | `TypeOK`, `ExactlyOneIteration`, `ClientsInStep`, `MasksClosed`, `RequestsFulfilled`, `OneHistory`, `EventuallyTheSame` | a server, two clients, two types, two ids, three calls |
| `net_interface` | `TypeOK`, `PacketsAccounted`, `ClientSumTellsClients`, `ListsUpToDate`, `RoleMatchesPeer`, `NoNullCore`, `AnswersRight` | two machines, a two-bit `clientSum`, three messages in the peer, two packets in a buffer, three users of Discord, two of one name |

**What they show.**  `ecs_state`: after any sequence of public calls, also
between two removals of a clearing call, masks and collections agree, no id is
lost or aliased, prerequisites hold except for the entity being cleared, and
registries follow the likenesses; each call as a whole is one change of
EntityStore.  `ecs_reentrant`: the same survives handlers that call State, in
nested calls as well, as long as they keep to the four rules.  `generator`: the
serialization order is safe and complete exactly for the configurations the
generator accepts, and it fails to end exactly when there is a cycle it does not
turn down first; whatever is wrong beside that, it returns the code of the first
fault, and leaves the old outputs alone unless the fault is that one of the four
cannot be opened.
`entity_requests`: with a game that keeps its promises a client *is* the
server minus the packets it has not handled - ids, masks, counter and stack -
so reused ids mean the same entity everywhere, and once the game stops it gets
there.  `net_interface`: packets, sum, lists and role stay right for a disciplined
game, whatever the machines and Discord do.

**Why the bounds are enough.**

- `MaxId = 3` gives two ids: the counter reaches its maximum, ids are freed and
  handed out again in both orders, and createEntity fails.  Four types have a
  chain of two prerequisites, a type with two of them and one independent
  persistent type.  One registry has handlers that always agree, the other
  handlers that may refuse; the likenesses overlap without either containing
  the other.  `MaxCopies = 2` lets an id be in a registry twice, which only a
  handler that refuses to forget can cause: `RegistrySound` says the other
  never has it twice.
- Two types, three ids and handlers two deep are enough for each rule of
  EcsReentrant to be needed: a call inside a call for another entity, an id that
  moves into the place of a forgotten one, a third that is there to be moved.
- Three types are the fewest with a cycle beside a type outside it, a chain
  declared backwards that needs three passes, and an unserializable type in
  the middle of a chain.  Two configuration files let a fault be in either.
  Faults come in pairs because the order of two checks is what could be wrong;
  lists of up to two arguments, one of them a pointer, show an odd word.
- `MaxCalls = 3` with two ids: create, delete, create again on the same id,
  from two clients and the server at once, a request when no id is left, a
  client that leaves and joins again.
  What the bound counts is stated at `counted`.  The queues are bounded by it.
- A two-bit `clientSum` with GUIDs 2 and 3 wraps around on the second
  connection and below zero in one tick; three messages in the inbox are enough
  for a machine to come, go and come back before a tick.  GUIDs below 2 are
  the ones `assumeRole` reserves.  `OneAtATime` keeps either Discord or the
  network still, since they share only `assumeRole` and `tick`.  Of the
  two users of one name either may be heard of first, and either may leave.

Deadlock is checked where the program must always be able to go on
(`ecs_state`, `ecs_reentrant`).  In the other runs it may stop: a generator
exits, a game has used up `MaxCalls`.  Symmetry is not used: the runs of
interchangeable nodes check liveness.

Every property has a mutant: the name of a variant definition, a plausible bug
in the code it stands for (`leaveFlagsOn`, `firesOnSoleComponent`,
`onlyOnUnserializable`, `pickedEven`, ...), under which TLC finds that property violated.

## 4. Findings

Each is a run that TLC ends with a counterexample against a sentence of the
repository.

| Run | The code | The sentence |
|---|---|---|
| `ecs_any_likeness` | a likeness without a user-declared type is stored in no list and its delegates are never called (`ecsGenerator.cpp:505`) | `ecsState.hpp:148` |
| `ecs_clear_order` | `clearEntity` removes prerequisites before dependents, and removal delegates see that (`ecsGenerator.cpp:495`) | `ecsComponents.hpp:40` |
| `entity_requests_manual` | a manual entity sent late carries an id the clients have used or have not come to (`ecsState.cpp:79`) | `ecsState.cpp:126` |
| `entity_requests_shared` | a broadcast or deletion leaves its message in the stream an open request is sent in (`ecsState.cpp:82`) | `ecsState.cpp:127` |
| `entity_requests_no_args` | requesting a type without constructor arguments writes one bit more than is read (`ecsGenerator.cpp:721`) | `ecsState.cpp:136` |
| `ecs_by_reference` | `deleteEntity` of an element of a registry erases another entity's Existence component, because `forget` moves another id into its place (`ecsState.cpp:230`) | `ecsState.hpp:141-142` |
| `net_reserved_guid` | after a reserved GUID the role is given up, not retried (`netInterface.cpp:18`) | the comment on that line |

Two more were read and are no runs.  `frnd` asks for the number when several friends
have the name (`discord.cpp:133`), or would: it counts the entries of that name
in a `std::map` (`discord.cpp:128`), which is never more than 1, so the message is
never printed and the first of them is answered for, also when a number is given.
`idToGet` says so in the model.  And `numCompTypes` is one too large, because the
counter behind it also counts `MAX_COMPONENT_ENUM` (`ecsGenerator.cpp:392`);
nothing in the repository reads it.

## 5. Fairness

Only two specifications have any.

- `MCGenerator!MCSpec`, `WF_allVars(MainNext)`: the generator is one thread that
  runs until it exits.  `MainTerminates` needs it.
- `EntityRequests!FairSpec`: weak fairness of taking a packet, for every
  client in both directions.  The channel is reliable, and a program calls
  `NetInterface::tick` in its loop.  A server that is not through with a manual
  entity takes no request, so fairness does not force it to; the property then
  asks for nothing until the entity is broadcast.  Nothing obliges a game to
  call anything.

## 6. What is proved

The theorems hold for every set of component types, every dependency relation,
every width of ids and every set of Systems (`EcsStateProofs`,
`EcsRefinementProofs`), for handlers that call State to any depth
(`EcsReentrantProofs`), for every configuration and everything else the
generator may be started with (`GeneratorProofs`, `GeneratorMainProofs`), for
any machines, users and buffer sizes (`NetInterfaceProofs`), and for any number
of clients, calls and packets under way (`EntityRequestsProofs`).  They assume
the named ASSUMEs of the modules: `CompsAssumption` (the types are listed in
`CompOrder`, prerequisites are declared types), `MaxIdAssumption`,
`ListenersAssumption`, `NamesAssumption` (every type is declared once),
`MainAssumption` (there is a configuration file), `NodesAssumption` (the server
is none of the clients), `SerialAssumption` and `OrderAssumption` (a type is
serialized once, and after its prerequisites: what `WrittenOnce` and
`PrerequisitesFirst` say of the generator).  Dependencies need not be acyclic,
except where that order excludes it.

**EcsState.**  `TypeCorrect` carries the rest.  It includes that ids stay
between 1 and `MaxId - 1`: the successor of the counter is used only below the
maximum.

- `StoreCorrect`: mask and collections agree.  Inductive with the type
  invariant, because every method changes both in one step and the clearing
  loop changes both at once, for one component.
- `NothingReallyBadHappens` needs `ClearingOK`: while a victim is being
  cleared it is alive, and has none of the components the loop has passed.
  At the end of the loop `CompOrder` has been passed, so Existence is left.
- `PrerequisitesCorrect` needs that as well, for the step in which the victim
  stops being the exception the invariant makes.
- `IdsCorrect` is inductive with `StoreCorrect` and `ClearingOK`: an id is
  pushed only when it was alive and popped only when it was not, and
  the lemmas `FreshId`, `PoppedId` and `PushedId` say what that does to the
  stack.
- `RegistryCorrect` and `RegistryFollowsLikeness` need `CallbacksOK` - a
  listener is in the lists of exactly the types of its likeness, and only once
  its System is constructed - and `RegistryCases`, which splits a change of
  mask into the ways a listener can enter or leave its likeness.
- `ClearCorrect` needs `DoomedOK`: during `clear` an entity that is alive and
  not doomed is persistent, and no doomed one is.

**EcsState implements EntityStore** (`StateImplementsStore`, in
`EcsRefinementProofs`).  `StoreByPhase` says what the mapped store is between
calls, while an entity is emptied and while it is deleted; then there is one
lemma per action: the beginning of a clearing call is the store's action, the
steps of its loop and its end are stutters.  That the end is one needs
`ClearingOK`, that an entity which is created has no components from before
needs `PrerequisitesCorrect` and `IdsCorrect`.

**EcsReentrant.**  All theorems have `Disciplined` as their hypothesis: the game
keeps to the four rules of section 2, each of which TLC shows to be needed.
The invariants speak of the whole stack, whatever its height.

- `IInv` is `Typed`, `Good(stack)` and `Stored(stack)`.  `Good` says of the
  frames that they are fresh (`AllFresh`: the entity is alive, a loop over
  callbacks ends where the list does, `forget` finds the id where it found it),
  which frame may stand on which (`Shape`), that two running calls are about
  different entities except a clearing call and the removal it waits for, and
  `clear` has nothing to delete that a call below it is about (`Apart`), and
  that a registry in which a frame has a place is changed by nothing above
  it (`PinsSpared`).  The properties speak of the top frame; the invariant is
  about all of them because every frame comes to the top again.  `Stored` is
  `StoreMatchesMask` with the components that running `add` frames have put into
  their collection.  From these follow `TypeCorrect`, `NothingGoesStale` and
  `MasksFollowCollections`.
- `Known` adds what registries know: a registry that a loop has passed has
  heard (`Told`), what it holds has the likeness or is about to get it
  (`Justified`), and holds nothing twice (`Distinct`).  `RegistriesAreSound` and
  `RegistriesFollow` follow from it; the latter also needs `Alive`, that a mask
  which is not empty has Existence.
- `PersistentSpared` needs `Lasting`: what a running `clear` has still to delete
  has no persistent component, and no frame above is adding one.
- `CallsAreAtomic` needs `Checked` (what `addComp` and `remComp` tested before
  delegates ran is true when they return, and a clearing call has removed what it
  has passed), `Handed` (no id is freed twice or while it is used) and
  `StoreMask`, which says what the abstract store has for an entity a clearing
  call is in the middle of: the mask it came with.

**Induction.**  The library's induction theorems cannot be used, but its least
element of a well-founded relation can.  `NatMin`, `SetInduction`,
`RecursionExists` and `AlikeUpTo` in the module `Induction` state induction for
*sets* of numbers, so that a recursive function, whose definition only says that it
is *some* solution of an equation, is shown to have one and to be it.  What
`interested`, `among`, `sumOf` and the conversions of `ArgLists` compute for every
list is proved with them.

**Generator.**  One inductive invariant, `IInv`.  `Progress` ties the tables to
the loop position: before the second phase the types already passed have their
prerequisites read, after it all have and none is unknown; in a pass, a type
that was passed and should be written is written or has set `compsRemain`, and
what was written never depends on an unserializable type.  From it follow `OrderSafe`,
`OrderComplete` (with `NoDoubles`) and `ExitCodeCorrect`.  `CyclesNeverPass`
follows too: of a cycle whose types are all written, the one written first would
have had a prerequisite before it.

**GeneratorMain.**  Whatever is around the algorithm leaves its variables alone
(`CoreStep`), so `MainRunsGenerator` and with it all theorems above hold of
`main`.  `MainTypes` rests on `TypesInv`, which says for each stage where "at"
may be.  `StreamsEnough` rests on `StreamInv`: types that have a number are
those the loop has been at, and a number is less than the counter and the
counter less than the loop's position.  `OutputsWhole`, with `DiskHolds` as its
hypothesis, rests on `OutputInv`: nothing is written before the last stage, no
code of an earlier stage is 0, and in the last stage all files before "at" are
new.  `FirstFaultReturned` rests on `ChecksInv`: a stage is reached only when
what the stages before it look for is not wrong, and "at" only past what is in
order.  `ArgumentsArrive` is about lists of any length: each conversion walks
over two words for every argument, and is where it should be after each.  Its
hypothesis `TwoWordArguments` is what the conversions count on (no `const`, no
asterisk between blanks); for other lists they do something else, as
section 2 says.

**NetInterface.**  `RoleCorrect` needs no hypothesis.  Only `assumeRole` touches the
role and the peers (`PeersStay`), and `PeersFitRole` is inductive: a server that is
made finds the port free of the program's own, unless the role was the
server's already.  `ListsCorrect` rests on `ListInv`: what a server's
list lacks, `connectionListsDirty` or a notification in the inbox tells.
`CoreCorrect` has `ConnectsFirst`; its invariant
`CoreInv` adds that what the last `connect` returned is the truth.

- `PacketsKept` and `NetTypesCorrect` have `DiscardsFirst`.  Their invariant is
  `PacketInv`: with the types and the account, that a program without a role has
  no peer, nothing in the inbox and nothing in the buffers (`Idle`), since packets
  discarded then would go back to nobody.  `AmongCounts` says that what
  `tick` puts into the buffers is as much as the inbox has of it.
- `SumTellsClients` needs no hypothesis.  `SumInv` says that there is a number
  `x` of which `clientSum` is the remainder, and which the notifications still in
  the inbox turn into the sum over a list of the connected machines.  A machine
  that connects is appended to the list (`SumAppend`), one that leaves is taken
  out of its middle (`SumWithout`), and a tick wraps around earlier or later than
  the sum would (`WrapsAnyTime`).
- `FriendsFound` needs no hypothesis but that a name and a number are one user
  (`TagAssumption`): the first of the users of a name is one of them.

**EntityRequests.**  Four hypotheses; each is there because a property
fails without it:

| Hypothesis | Why |
|---|---|
| `Promises` | the first four promises of section 2; without one of them a property fails |
| `AsksOnce` | a component that is asked for twice has its arguments in the stream twice, and the reader is out of step after the first |
| `EveryTypeSerialized` | a component marked `noserialize` never leaves the program that has it, so a client's masks lack it and `ClientsInStep` fails |
| `NoArgs = {}` | a type without constructor arguments breaks the requests it is in (`entity_requests_no_args`), and has no fields in a message from which the history could know it |

`PrerequisitesEverywhere` and `RequestTypesCorrect` have none of them,
`OneIterationSuffices` and `ClientsFollow` only the promises and that every type
is serialized, `OneHistoryForAll` everything but `AsksOnce`, and only
`EveryRequestFulfilled` all four.
The argument has five parts.

- *One State.*  `Sound` is what the counter, the freed ids and the masks of a
  State are after any calls.  Every operator of `EntityMachine` keeps it, and
  `Reached` says what reading may make of a State whatever the bits are: another
  sound one, in which at most the components of the entity being read differ.
  So `TypeInv` is inductive without any promise.
- *Streams.*  `ReadBack`: reading into a new entity what `writtenFromEntity`
  wrote of an entity with a closed mask ends in exactly one State, in which the
  new entity has that mask.  It goes from type to type in the order of
  serialization, where each finds its piece and leaves the rest unread, and it
  needs that order for every insert to find the prerequisites there.
- *Clients.*  `Behind(m, q, b)` says that handling the packets `q` one after the
  other leads from `m` to `b`.  The invariant `StepInv` has `InStep`: there is a
  State `b` of the server, as it was before the entities it has not broadcast
  yet, such that every client is behind `b` by the packets under way to it.
  `ClientsInStep` alone is not inductive: it says nothing while an entity is not
  broadcast, and only of the end of the queue.  All steps in which the server
  tells its clients something are instances of one lemma, `Publishes`: `b` moves
  on by the packet that is appended to every queue.  The promises are needed as
  invariants too, `Quiet` and `Separate` (`QuietKept`, `SeparateKept`).
- *Requests.*  `RequestInv` adds to the types that every request under way is
  written from the streams of what the game asked for (`Asked`), and that the
  entity of an open request of a program that is alone has nothing that was not
  asked for, and all of it unless the game asked for something too early
  (`MadeAlone`).  `AskedAsEntity` says that such a request reads like the
  entity it asks for; it is false with types without arguments.
- *The history.*  Under the refinement mapping a join is `History!Join`, a publishing
  step `History!Publish` of the operation its message stands for, taking a packet
  on a client `History!Deliver`, and everything else a stutter
  (`PublishesHistory`, `JoinsHistory`, `LeavesHistory`, `DeliversHistory`,
  `HistoryFrame`).  `LeadsPerform`: handling a message and performing its
  operation, which has no id, come to the same State.  That a join
  begins at the beginning follows from `BehindEmpty`.

**Only model-checked.**  `MainTerminates` and `EventuallyTheSame` are liveness
under fairness, which is beyond the provers used here.  Every other property of
a passing run is stated by a theorem.

## 7. Not modelled, and the plan

Not modelled:

- of State and System: component values, `pause`/`resume` and `clean` (they
  change nothing another part reads; `clean` works on copies of the
  registries), and destruction of a System, which leaves its delegates behind
  as the TODO at `ecsSystem.hpp:95` says;
- of the generator: what the regular expressions accept and the text of the
  output.  Several traits of these were noticed on reading: a macro that
  is commented out still counts, a greedy `(.*)` takes an initializer list for
  arguments, `$` in the user's code means something to `regex_replace`, and
  `1 << n` limits the number of types;
- of the network: the game's own packets and its greeting of
  `freshConnections`, a client that finds no server, a server that deletes
  entities without `requestEntityDeletion`;
- of Discord: lobbies (which outlive the role), the current user, `statusList`
  and what callbacks print, friends who are renamed; `join` and `ovrl` are
  empty;
- the example programs, the build files, and the emptied submodules beyond what
  the code expects of them.

What is left:

1. **Destruction of a System**, with delegates that outlive it
   (`ecsSystem.hpp:95`): the one hazard of State that no property covers.
2. **Types that are not serialized**: what a client knows of an entity is then the
   serialized part of its mask, and `ClientsInStep` should be stated and
   proved of that part.  `ExactlyOneIteration` holds with such types too on a small
   instance; its theorem has the hypothesis only because the invariant does.
