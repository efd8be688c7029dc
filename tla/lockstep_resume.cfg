\* An established connection is lost without a FIN reaching the server, and the
\* agent reconnects once.
SPECIFICATION FairSpec
CONSTANTS
    stay = stay
    go = go
    Moves <- MCMoves
    NoMove = stay
    Answers <- MCAnswers
    MaxConnections = 2
    MaxVisitors = 0
    MaxStray = 0
    SilentLoss = TRUE
    LossPoints <- Established
    PhysicsTicksPerDecision = 2
    Decisions = 2
    MayDie = FALSE
    MaxBirths = 0
PROPERTY ResumeAnswered
CHECK_DEADLOCK FALSE
