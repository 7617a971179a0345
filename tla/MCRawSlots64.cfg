SPECIFICATION Spec
CONSTANTS
  ByteValues = 4
  WordBytes = 8
  Signatures <- AllSignatures
  Ints <- Edges
INVARIANTS ArgumentsArrive ResultsArrive
