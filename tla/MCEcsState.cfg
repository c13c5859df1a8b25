SPECIFICATION Spec
CONSTANTS
    Foo = Foo
    Bar = Bar
    Meh = Meh
    Empty = Empty
    Graph = Graph
    Sprite = Sprite
    mover = mover
    drawer = drawer
    EXISTENCE = EXISTENCE
    MaxId = 3
    MaxCopies = 2
    Systems = {Graph, Sprite}
    Listeners = {mover, drawer}
    PickyDiscover = {drawer}
    PickyForget = {drawer}
    Persistent = {Empty}
    Comps <- MCComps
    CompOrder <- MCOrder
    Prereqs <- MCPrereqs
    Owner <- MCOwner
    Likeness <- MCLikeness
INVARIANTS
    TypeOK
    StoreMatchesMask
    IdsAccounted
    PrerequisitesHeld
    NothingReallyBad
    RegistrySound
PROPERTIES
    RegistryFollows
    ClearSparesPersistent
    ImplementsStore
