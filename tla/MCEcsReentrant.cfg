SPECIFICATION Spec
CONSTANTS
    Foo = Foo
    Bar = Bar
    Graph = Graph
    Sprite = Sprite
    mover = mover
    drawer = drawer
    EXISTENCE = EXISTENCE
    MaxId = 4
    MaxNesting = 2
    Systems = {Graph, Sprite}
    Listeners = {mover, drawer}
    Comps = {Foo, Bar}
    CompOrder <- MCOrder
    Prereqs <- MCPrereqs
    Persistent = {Bar}
    Registries <- MCRegistries
    Likeness <- MCLikeness
    Rules = {"others", "pinned", "systems", "clear"}
INVARIANTS
    TypeOK
    HoldsWhatItTook
    StoreMatchesMask
    RegistrySound
    ClearSparesPersistent
PROPERTIES
    RegistryFollows
    CallsAtomic
