CONSTANTS
  MaxRound <- MC_MaxRound
  NumPeers <- MC_NumPeers
  PipeCap <- MC_PipeCap
SPECIFICATION Spec
INVARIANTS
  TypeOK
  ForwardedContiguous
  NeverPastUpTo
  CompletesWithCorrectPeer
