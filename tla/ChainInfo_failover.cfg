CONSTANTS
  NumNodes <- MC_NumNodes
SPECIFICATION Spec
INVARIANT
  GenuinePeerSuffices
