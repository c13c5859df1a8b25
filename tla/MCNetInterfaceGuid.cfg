SPECIFICATION Spec
CONSTANTS
    Guids = {2, 3}
    Modulus = 4
    MaxInbox = 3
    MaxPackets = 2
    DiscardsFirst = TRUE
    ana = ana
    al = al
    bo = bo
    Users = {ana, al, bo}
    tag <- MCTags
    NoOne = NoOne
    ConnectsFirst = TRUE
CONSTRAINT
    OneAtATime
CHECK_DEADLOCK FALSE
INVARIANTS
    RoleAssumed
