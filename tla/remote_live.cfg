\* The thread may stop or the simulation may; the client may be silent.
SPECIFICATION Spec
CONSTANTS
    own = own
    foreign = foreign
    rest = rest
    go = go
    turn = turn
    Entities <- MCEntities
    Own = own
    Commands <- MCCommands
    NoCommand = rest
    MaxActionAge = 2
    Steps = 3
    Room = 1
    MayDie = TRUE
    Replies <- MCRefused
    MaxLead = 1
PROPERTIES NeverWaits ThreadEnds
