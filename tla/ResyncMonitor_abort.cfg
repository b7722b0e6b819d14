CONSTANTS
  MaxRound <- MC_MaxRound
  MaxGen <- MC_MaxGen
  Period <- MC_Period
  PipeCap <- MC_PipeCap
  WordBits <- MC_WordBits
SPECIFICATION Spec
INVARIANT
  SupersededTaskSilent
