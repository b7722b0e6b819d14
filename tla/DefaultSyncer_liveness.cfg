CONSTANTS
  MaxRound <- MC_MaxRound
  NumPeers <- MC_NumPeers
  ChanCap <- MC_ChanCap
SPECIFICATION Spec
PROPERTIES
  Termination
