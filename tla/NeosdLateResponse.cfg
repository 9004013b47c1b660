\* The response may come after the first word of data is complete.
CONSTANTS
  CmdBits = 2
  RespBits = 5
  ShortFirst = 5
  ShortWords = 2
  LongFirst = 4
  LongWords = 3
  TailBits = 2
  WordBits = 4
  BlockWords = 4
  CrcBits = 2
  TokenBits = 3
  DatTailBits = 2
  Operations = {"read"}
  Divs = {0, 1}
  MaxRespDelay = 5
  MaxDataDelay = 4
  MaxBusy = 2
SPECIFICATION Spec
PROPERTY ResponseInOrder
