CONSTANTS
  MaxRound <- MC_MaxRound
  MaxGen <- MC_MaxGen
  Period <- MC_WidePeriod
  PipeCap <- MC_PipeCap
  WordBits <- MC_WordBits
SPECIFICATION Spec
PROPERTY
  ReplacedOnlyWhenExpired
