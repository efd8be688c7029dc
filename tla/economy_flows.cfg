SPECIFICATION Spec
CONSTANTS
  MaxNodes = 7
  Populations <- MCPopulations
  Commands <- FlowCommands
  Thermal = {0, 2}
  Rates <- FlowRates
  Parts = 3
  Impulses = {8}
  MaxContacts = 0
  MaxTicks = 1
  Mutations = {}
  NonFinite = NonFinite
  BaseDrain = 1728
  VentGain = 1728
  ClampDrain = 1728
  FabricateEnergy = 3456
  FabricateMass = 36
  FabricateYield = 4
  FabricateTicks = 2
  BirthThreshold = 10368
  BirthEnergy = 3456
  BirthMass = 36
  MassMargin = 12
  BirthYield = 4
  SurplusTicks = 1
  RestTicks = 2
  MinMass = 6
  MinYield = 2
INVARIANTS TypeOK EveryNodeBalanced OverdrawnAreDead
PROPERTIES KeepsBudget OnlyDrainOverdraws
CHECK_DEADLOCK FALSE
