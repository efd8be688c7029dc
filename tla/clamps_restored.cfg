\* Three ticks, a restore between any two; the embedding program may interfere.
SPECIFICATION Spec
CONSTANTS
  MaxBodies = 4
  MaxJoints = 2
  Crowds <- MCCrowds
  MaxTicks = 3
  MaxLosses = 1
  CooldownTicks = 2
  Arrivals = {"inert"}
  Embedded = TRUE
  MaxId = 4
  ExplicitIds = {2}
  MaxRestores = 1
INVARIANTS TypeOK ClampsAgree IdentitiesDistinct
PROPERTIES EndpointsOutliveJoints IdentitiesNotReused RecapturesTheSame
CHECK_DEADLOCK FALSE
