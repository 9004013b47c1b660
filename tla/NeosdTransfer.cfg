\* A block of four words of four bits; the answers come as early as they may,
\* the response always before the first word of data is complete.
CONSTANTS
  CmdBits = 2
  RespBits = 5
  ShortFirst = 5
  ShortWords = 2
  LongFirst = 4
  LongWords = 3
  TailBits = 2
  WordBits = 4
  BlockWords = 4
  CrcBits = 2
  TokenBits = 3
  DatTailBits = 2
  Operations = {"silent", "command", "long", "busy", "read", "write"}
  Divs = {0, 1}
  MaxRespDelay = 4
  MaxDataDelay = 4
  MaxBusy = 2
SPECIFICATION Spec
INVARIANTS TypeOK CleanBetween NoContention BlockWritten
PROPERTIES DataInOrder ResponseInOrder NoFlagLost AllMoved BusyWaited Returns
