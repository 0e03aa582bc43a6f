SPECIFICATION Spec
CONSTANTS
  ChunkSize = 3
  MaxSize = 7
  Zero = 0
  Byte = {0, 1}
INVARIANTS NoTail Mirror ReadsBack
