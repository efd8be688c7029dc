\* One founder, births, losses and one restore in three ticks of streaming.
SPECIFICATION Spec
CONSTANTS
  MaxAgents = 3
  MaxControllers = 3
  Width = 1
  Period = 2
  Founders = {1}
  Grounds <- MCGrounds
  MaxTicks = 3
  MaxRestores = 1
INVARIANTS TypeOK EveryAgentControlled OutcomesComplete TerrainOnce
CHECK_DEADLOCK FALSE
