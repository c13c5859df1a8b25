SPECIFICATION FairSpec
CONSTANTS
    Foo = Foo
    Bar = Bar
    Empty = Empty
    server = server
    c1 = c1
    c2 = c2
    EXISTENCE = EXISTENCE
    Clients = {c1, c2}
    Comps = {Foo, Bar}
    CompOrder <- TwoOrder
    SerialOrder <- TwoOrder
    Prereqs <- TwoPrereqs
    Persistent = {}
    NoArgs = {}
    MaxId = 3
    MaxCalls = 3
    ManualInOrder = TRUE
    QuietWhileOpen = TRUE
    JoinsFresh = TRUE
    RoleKept = TRUE
    AsksOnce = TRUE
CHECK_DEADLOCK FALSE
INVARIANTS
    TypeOK
    ExactlyOneIteration
    ClientsInStep
    MasksClosed
PROPERTIES
    RequestsFulfilled
    OneHistory
    EventuallyTheSame
