SPECIFICATION Spec
CONSTANTS
  MaxNodes = 7
  Populations <- KillPopulations
  Commands <- Idle
  Thermal = {0}
  Rates = {0, 1728}
  Parts = 3
  Impulses = {8}
  MaxContacts = 2
  MaxTicks = 2
  Mutations = {"VOLATILE_TRAP"}
  NonFinite = NonFinite
  BaseDrain = 1728
  VentGain = 1728
  ClampDrain = 1728
  FabricateEnergy = 3456
  FabricateMass = 36
  FabricateYield = 4
  FabricateTicks = 2
  BirthThreshold = 10368
  BirthEnergy = 3456
  BirthMass = 36
  MassMargin = 12
  BirthYield = 4
  SurplusTicks = 2
  RestTicks = 2
  MinMass = 6
  MinYield = 2
INVARIANT SharesFunded
PROPERTY KeepsBudget
CHECK_DEADLOCK FALSE
