SPECIFICATION Spec
CONSTANTS
  Byte = {0, 1}
  Capacity = 3
  MaxChunk = 4
INVARIANT TypeOK
PROPERTY ImplementsFifo
