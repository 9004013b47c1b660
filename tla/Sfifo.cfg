\* audio/sfifo.v with a memory of four words: the pointers wrap at 8.
CONSTANTS
  Data = {w1, w2}
  Depth = 4
SPECIFICATION Spec
INVARIANTS TypeOK
PROPERTY ImplementsQueue
