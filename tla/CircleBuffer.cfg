SPECIFICATION Spec
CONSTANTS
  Bytes = {a, b}
  Size = 4
  MaxChunk = 3
  Modulus = 8
PROPERTIES ImplementsFifo
SYMMETRY ByteSymmetry
