CONSTANTS
  NumNodes <- MC_NumNodes
SPECIFICATION Spec
INVARIANTS
  TypeOK
  SyncerTrustsPacket
