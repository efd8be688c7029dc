\* One reconnection attempt is given up before its resume frame arrives.
\* Nothing else goes wrong: no silent loss, no visitor, no stray frame.
SPECIFICATION Spec
CONSTANTS
    stay = stay
    go = go
    Moves <- MCMoves
    NoMove = stay
    Answers <- MCAnswers
    MaxConnections = 3
    MaxVisitors = 0
    MaxStray = 0
    SilentLoss = FALSE
    LossPoints <- GivenUp
    PhysicsTicksPerDecision = 2
    Decisions = 2
    MayDie = FALSE
    MaxBirths = 0
INVARIANT PausedUntilAnswered
