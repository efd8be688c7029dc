\* Answers for two entities, on time or late or never given, and enough steps for
\* three reads to time out and for the client to be prompt again.
SPECIFICATION Spec
CONSTANTS
    own = own
    foreign = foreign
    rest = rest
    go = go
    turn = turn
    Entities <- MCEntities
    Own = own
    Commands <- MCCommands
    NoCommand = rest
    MaxActionAge = 2
    Steps = 5
    Room = 2
    MayDie = TRUE
    Replies <- MCForeign
    MaxLead = 0
INVARIANTS TypeOK IInv DebtKept MutedByDebt
PROPERTIES KeepsFresh NewestWins
