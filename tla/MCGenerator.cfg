SPECIFICATION MCSpec
CONSTANTS
    Foo = Foo
    Bar = Bar
    Meh = Meh
    Unknown = Unknown
    Comps = {Foo, Bar, Meh}
    compTypeNames <- MCNames
    NumConfigs = 2
    CtorArgs <- MCCtorArgs
    DiskHolds = TRUE
CHECK_DEADLOCK FALSE
INVARIANTS
    MainTypeOK
    PrerequisitesFirst
    WrittenOnce
    ExitCodeRight
    CyclesLoop
    ReturnsFirstFault
    OutputsTogether
    ArgumentsPassedOn
    StreamsFit
PROPERTIES
    MainTerminates
