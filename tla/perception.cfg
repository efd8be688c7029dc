\* Two agents and two other bodies; four places to sample, two neighbours shown.
SPECIFICATION Spec
CONSTANTS
  MaxNeighbors = 2
  FieldSamples = 4
  Chunk = 2
  Exact = 4
  Word = 3
  Unit = 2
  Turn = 8
  Grain = 2
  Root = 4
  NonFinite = NonFinite
  Bodies = {1, 2, 3, 4}
  Agents = {1, 2}
  Places <- MCPlaces
  Arrangements <- MCArrangements
  TagsOf <- MCTagsOf
  Radius <- MCRadius
  Reach = 4
  CellSize = 2
  Answers <- MCAnswers
  Starts = {2, 7}
  MaxTicks = 2
  Circle = 12
  Slope <- MCSlope
INVARIANTS TypeOK ViewFaithful FieldsFaithful SeizesWhatWasShown CommandsSound
CHECK_DEADLOCK FALSE
