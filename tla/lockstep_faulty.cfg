\* Connections are lost at any point, silently or not; the process may fail to
\* start or wait for ever, so it really may stop.
SPECIFICATION Spec
CONSTANTS
    stay = stay
    go = go
    Moves <- MCMoves
    NoMove = stay
    Answers <- MCAnswers
    MaxConnections = 4
    MaxVisitors = 1
    MaxStray = 1
    SilentLoss = TRUE
    LossPoints <- Anywhere
    PhysicsTicksPerDecision = 2
    Decisions = 2
    MayDie = FALSE
    MaxBirths = 1
INVARIANTS TypeOK AppliedWasAnswered OnlyCredentialedAttach LifecycleInOrder NoProtocolError IInv
CHECK_DEADLOCK FALSE
