CONSTANTS
  MaxRound <- MC_MaxRound
  NumPeers <- MC_NumPeers
  ChanCap <- MC_ChanCap
SPECIFICATION Spec
INVARIANTS
  TypeOK
  NoInvalidPersisted
  StoreContiguous
  NeverPastTarget
  CursorBelowTarget
  ProgressMatchesStore
  CompletesWithCorrectPeer
