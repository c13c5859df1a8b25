SPECIFICATION Spec
CONSTANTS
    Foo = Foo
    Bar = Bar
    Empty = Empty
    server = server
    c1 = c1
    c2 = c2
    EXISTENCE = EXISTENCE
    Clients = {c1}
    Comps = {Foo, Bar, Empty}
    CompOrder <- EmptyFirst
    SerialOrder <- EmptyFirst
    Prereqs <- ThreePrereqs
    Persistent = {}
    NoArgs = {Empty}
    MaxId = 3
    MaxCalls = 3
    ManualInOrder = TRUE
    QuietWhileOpen = TRUE
    JoinsFresh = TRUE
    RoleKept = TRUE
    AsksOnce = TRUE
CHECK_DEADLOCK FALSE
PROPERTIES
    RequestsFulfilled
