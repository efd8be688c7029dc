\* Two ticks on either side of a restore.
SPECIFICATION Spec
CONSTANTS
  MaxBodies = 4
  MaxJoints = 2
  Crowds <- MCCrowds
  MaxTicks = 2
  MaxLosses = 1
  CooldownTicks = 2
  Arrivals = {"inert"}
  Embedded = FALSE
  MaxId = 4
  ExplicitIds = {2}
  MaxRestores = 1
PROPERTY RestoresActiveClamps
CHECK_DEADLOCK FALSE
