SPECIFICATION Spec
CONSTANTS
  BlockBytes = 64
  LengthBytes = 8
  Pieces = {0, 8, 55, 64, 128}
  MaxBytes = 128
  Messages = 2
  Digests <- MCDigests
INVARIANTS Sha256TypeOK
PROPERTIES HasherSpec
