\* Established connections are lost and resumed; a visitor and a stray frame.
SPECIFICATION FairSpec
CONSTANTS
    stay = stay
    go = go
    Moves <- MCMoves
    NoMove = stay
    Answers <- MCAnswers
    MaxConnections = 4
    MaxVisitors = 1
    MaxStray = 1
    SilentLoss = FALSE
    LossPoints <- Established
    PhysicsTicksPerDecision = 2
    Decisions = 3
    MayDie = TRUE
    MaxBirths = 1
INVARIANTS SessionEventsAlternate
PROPERTIES KeepsTurns DeltasChain WorldTerminates
