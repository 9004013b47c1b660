----------------------------- MODULE FlashProofs -----------------------------
(***************************************************************************)
(* For every size of the flash, its sectors, pages and chunks, every image *)
(* and every failure of the power: the bootloader never sends the flash a  *)
(* program or an erase command that it would ignore, whatever the user     *)
(* does; and if the user is careful and the board answers within a second, *)
(* the client never sends while anything is under way, every request that  *)
(* is a command is answered in full, all variables keep their types and,   *)
(* for aligned images, the flash holds what flash_write was given.         *)
(* The second part rests on an invariant of the session, SInv: where the   *)
(* bytes of the request being served are, how much of it the bootloader    *)
(* has heard, and how many replies are still to come.  The third adds      *)
(* WInv: every cell of the flash as a function of the requests answered.   *)
(***************************************************************************)
EXTENDS FlashSession, SequenceTheorems, TLAPS

Waits == {"erasing", "writing"}
Commands == {"erase_command", "write_command"}

(* The flash is at work only while the bootloader waits for it, and before *)
(* a command the latch is set.                                             *)
IInv == /\ ~refused
        /\ WIP => mode \in Waits
        /\ mode \in Commands => WEL /\ ~WIP

-----------------------------------------------------------------------------
(* Steps of the flash.                                                     *)

LEMMA IdleIsIdle == DOMAIN Idle = {}
  BY DEF Idle

(* Setting the latch of a flash at rest.                                   *)
LEMMA Enabled ==
  ASSUME IInv, mode = "erase" \/ mode = "write", WriteEnable, mode' \in Commands
  PROVE  IInv'
  BY DEF IInv, WriteEnable, WIP, Waits, Commands

(* A command with the latch set is taken.                                  *)
LEMMA Taken ==
  ASSUME IInv, mode \in Commands, NEW new, Change(new), mode' \in Waits
  PROVE  IInv'
  BY DEF IInv, Change, WIP, Waits, Commands

(* What leaves the flash alone and goes on to no command keeps the         *)
(* invariant, if the flash rests or the bootloader stays where it is.      *)
LEMMA Untouched ==
  ASSUME IInv, UNCHANGED flash_vars, ~WIP, mode' \notin Commands
  PROVE  IInv'
  BY DEF IInv, flash_vars, WIP

LEMMA Stays ==
  ASSUME IInv, UNCHANGED flash_vars, UNCHANGED mode
  PROVE  IInv'
  BY DEF IInv, flash_vars, WIP

-----------------------------------------------------------------------------
(* Every step of the bootloader.                                           *)
LEMMA BoardStep ==
  ASSUME IInv, Bootloader
  PROVE  IInv'
<1> USE DEF Waits, Commands
<1>1. ASSUME mode \notin Waits PROVE ~WIP
  BY <1>1 DEF IInv
<1>2. CASE Poked
  <2>1. mode = "auto" /\ mode' = "main" /\ UNCHANGED flash_vars
    BY <1>2 DEF Poked
  <2> QED
    BY <1>1, <2>1, Untouched
<1>3. CASE Command
  <2>1. mode = "main" /\ UNCHANGED flash_vars
    BY <1>3 DEF Command
  <2>2. mode' \in {"auto", "application", "addr", "main"}
    BY <1>3, Zenon DEF Command
  <2>3. mode' \notin Commands
    BY <2>2
  <2> QED
    BY <1>1, <2>1, <2>3, Untouched
<1>4. CASE GetAddr
  <2>1. mode = "addr" /\ mode' \in {"erase", "len"} /\ UNCHANGED flash_vars
    BY <1>4 DEF GetAddr
  <2> QED
    BY <1>1, <2>1, Untouched
<1>5. CASE GetLen
  <2>1. mode = "len" /\ mode' \in {"main", "read", "write", "data"} /\ UNCHANGED flash_vars
    BY <1>5 DEF GetLen
  <2> QED
    BY <1>1, <2>1, Untouched
<1>6. CASE GetData
  <2>1. mode = "data" /\ mode' \in {"write", "data"} /\ UNCHANGED flash_vars
    BY <1>6 DEF GetData
  <2> QED
    BY <1>1, <2>1, Untouched
<1>7. CASE EraseEnable
  BY <1>7, Enabled DEF EraseEnable
<1>8. CASE EraseCommand
  BY <1>8, Taken DEF EraseCommand, SectorErase
<1>9. CASE Erasing
  BY <1>9, Untouched DEF Erasing
<1>10. CASE WriteNext
  BY <1>10, Enabled DEF WriteNext
<1>11. CASE WriteCommand
  BY <1>11, Taken DEF WriteCommand, PageProgram
<1>12. CASE Writing
  BY <1>12, Untouched DEF Writing
<1>13. CASE Written
  <2>1. mode = "write" /\ mode' = "main" /\ UNCHANGED flash_vars
    BY <1>13 DEF Written
  <2> QED
    BY <1>1, <2>1, Untouched
<1>14. CASE Read
  <2>1. mode = "read" /\ mode' \in {"main", "read"} /\ UNCHANGED flash_vars
    BY <1>14 DEF Read
  <2> QED
    BY <1>1, <2>1, Untouched
<1> QED
  BY <1>2, <1>3, <1>4, <1>5, <1>6, <1>7, <1>8, <1>9, <1>10, <1>11, <1>12, <1>13, <1>14
     DEF Bootloader

(* What client, user and line do leaves the bootloader and the flash alone.*)
LEMMA ClientStep ==
  ASSUME Client \/ Deliver \/ User
  PROVE  UNCHANGED mode /\ UNCHANGED flash_vars
<1>1. CASE Write
  BY <1>1 DEF Write, boot_vars, main_vars
<1>2. CASE ReadReply
  BY <1>2 DEF ReadReply, main_vars
<1>3. CASE ReadTimeout
  BY <1>3 DEF ReadTimeout, boot_vars, main_vars
<1>4. CASE Finished
  BY <1>4 DEF Finished, boot_vars, main_vars
<1>5. CASE Deliver
  BY <1>5 DEF Deliver, Arrive, main_vars
<1>6. CASE StartClient
  BY <1>6 DEF StartClient, main_vars
<1>7. CASE Exit
  BY <1>7 DEF Exit, boot_vars, main_vars
<1>8. CASE UseFlashWrite
  BY <1>8 DEF UseFlashWrite, Use, boot_vars, main_vars
<1>9. CASE UseOther
  BY <1>9 DEF UseOther, Use, boot_vars, main_vars
<1>10. CASE UseErase
  BY <1>10 DEF UseErase, Use, boot_vars, main_vars
<1>11. CASE UsePoke
  BY <1>11 DEF UsePoke, boot_vars, main_vars
<1> QED
  BY <1>1, <1>2, <1>3, <1>4, <1>5, <1>6, <1>7, <1>8, <1>9, <1>10, <1>11 DEF Client, User

-----------------------------------------------------------------------------
(* The flash never ignores a program or an erase command of flash_write    *)
(* and flash_erase_sector: the latch is set anew for each, and each waits  *)
(* for the end of the one before.                                          *)
THEOREM NeverRefused == Spec => []NothingRefused
<1>1. Init => IInv
  BY StartAssumption, IdleIsIdle
     DEF Init, BootInit, FlashInit, IInv, WIP, Waits, Commands
<1>2. IInv /\ [Next]_vars => IInv'
  <2> SUFFICES ASSUME IInv, [Next]_vars PROVE IInv'
    OBVIOUS
  <2>1. CASE Client \/ Deliver \/ User
    BY <2>1, ClientStep, Stays
  <2>2. CASE Board
    BY <2>2, BoardStep DEF Board
  <2>3. CASE FlashFinish
    BY <2>3, IdleIsIdle
       DEF FlashFinish, Finish, boot_vars, main_vars, IInv, WIP, Waits, Commands
  <2>4. CASE BoardTimeout
    <3>1. mode = "auto" /\ mode' = "application" /\ UNCHANGED flash_vars
      BY <2>4 DEF BoardTimeout, AutoBoot
    <3>2. ~WIP
      BY <3>1 DEF IInv, Waits
    <3> QED
      BY <3>1, <3>2, Untouched DEF Commands
  <2>5. CASE PowerFailure
    BY <2>5, IdleIsIdle DEF PowerFailure, Fail, Restart, IInv, WIP, Commands
  <2>6. CASE UNCHANGED vars
    BY <2>6, Stays DEF vars, boot_vars, main_vars
  <2> QED
    BY <2>1, <2>2, <2>3, <2>4, <2>5, <2>6 DEF Next
<1>3. IInv => NothingRefused
  BY DEF IInv, NothingRefused
<1> QED
  BY <1>1, <1>2, <1>3, PTL DEF Spec

-----------------------------------------------------------------------------
(* The session of a careful user.                                          *)

Listens == {"main", "addr", "len", "data"}
Works == {"erase", "erase_command", "erasing", "write", "write_command", "writing"}

(* The bytes on their way to the bootloader, the first n bytes of a        *)
(* request taken away, and how many the bootloader has taken.              *)
Pending == rx \o to_board
Rest(b, n) == SubSeq(b, n + 1, Len(b))
Heard == CASE mode = "main" -> 0 [] mode = "addr" -> 1 [] mode = "len" -> 2
           [] mode = "data" -> 3 + Len(data_page)

(* The requests that the client can send.                                  *)
IsRequest(r) ==
  LET b == r.bytes
  IN \/ /\ b[1] \in {POKE, STATUS_BYTE, RESET, EXECUTE, DEMO}
        /\ Len(b) = 1 /\ r.replies = 1
     \/ b[1] = ERASE_SECTOR /\ Len(b) = 2 /\ r.replies = 1
     \/ /\ b[1] = FLASH_READ /\ Len(b) = 3 /\ b[3] \in 1 .. FlashBytes /\ b[3] <= SecondBytes
        /\ r.replies = b[3]
     \/ /\ b[1] = FLASH_WRITE /\ b[3] \in 0 .. PageBytes /\ Len(b) = 3 + b[3]
        /\ b[2] + b[3] <= FlashBytes /\ r.replies = 1

Request == Head(requests)
Leaves(r) == r.bytes[1] \in {RESET, EXECUTE}
After == CASE Request.bytes[1] = RESET -> {"auto", "application"}
              [] Request.bytes[1] = EXECUTE -> {"application"}
              [] OTHER -> {"main"}

(* The bootloader takes the request in, works on it, sends what it reads,  *)
(* has answered it, or has found it to be no command.                      *)
Hearing ==
  /\ mode \in Listens /\ Heard < Len(Request.bytes) /\ Pending = Rest(Request.bytes, Heard)
  /\ to_client = <<>> /\ awaited = Request.replies
  /\ mode # "main" => /\ console_cmd = Request.bytes[1] /\ ~Leaves(Request)
                      /\ Request.bytes # <<DEMO>>
  /\ mode = "data" => len = Request.bytes[3] /\ Len(data_page) < len
Working ==
  /\ mode \in Works /\ Pending = <<>> /\ to_client = <<>> /\ awaited = 1
  /\ ~Leaves(Request) /\ Request.bytes # <<DEMO>>
  /\ mode \in {"write", "write_command", "writing"} => Len(data_page) = len
Sending ==
  /\ mode = "read" /\ Pending = <<>> /\ ~Leaves(Request) /\ Request.bytes # <<DEMO>>
  /\ data_idx < len /\ awaited = Len(to_client) + (len - data_idx)
Answered == /\ mode \in After /\ Pending = <<>> /\ awaited = Len(to_client)
            /\ Request.bytes # <<DEMO>>
Ignored == /\ mode = "main" /\ Pending = <<>> /\ to_client = <<>> /\ awaited = 1
           /\ Request.bytes = <<DEMO>>
Serving == /\ requests # <<>> /\ awaited <= Request.replies
           /\ Hearing \/ Working \/ Sending \/ Answered \/ Ignored

(* The requests of a client's purpose, and where everything is between     *)
(* two of them.                                                            *)
Leaving == client \in {"reset", "execute"}
Planned == /\ \A k \in DOMAIN requests : IsRequest(requests[k]) /\ (Leaves(requests[k]) <=> Leaving)
           /\ Leaving => Len(requests) <= 1
           /\ client = "ready" => requests = <<>>
           /\ client = "poke" => requests \in {<<>>, PokeRequest} /\ (requests # <<>> => ~poked)
           /\ client \notin {"poke", "ready"} => poked
Between == /\ Pending = <<>> /\ to_client = <<>>
           /\ IF Leaving /\ requests = <<>> THEN mode \in {"auto", "application"}
              ELSE mode = "main"

(* A client that was started while the bootloader waited for a command.    *)
InStep == Planned /\ (IF awaited = 0 THEN Between ELSE Serving)

(* A client that was not: it only pokes, and the poke may be answered, may *)
(* end the auto boot, or may be lost on the application.                   *)
Unsure ==
  /\ client \in {"poke", "ready"} /\ mode \in {"auto", "main", "application"}
  /\ \/ requests = <<>> /\ awaited = 0
     \/ requests = PokeRequest /\ client = "poke" /\ awaited \in {0, 1} /\ ~poked
  /\ mode # "application" => Pending \in {<<>>, <<POKE>>}
  /\ mode # "main" => ~poked /\ to_client = <<>>
  /\ requests # <<>> /\ awaited = 0 =>
       to_client = <<>> /\ (mode # "application" => Pending = <<>>)

Off == /\ requests = <<>> /\ awaited = 0 /\ to_board = <<>> /\ ~poked
       /\ mode \in {"auto", "main", "application"}
       /\ mode # "application" => rx = <<>>
       /\ trusted => mode = "main"
SInv == /\ client = "off" => Off
        /\ client # "off" => IF trusted THEN InStep ELSE Unsure

-----------------------------------------------------------------------------
(* The bytes under way.                                                    *)

LEMMA PartsOfRest ==
  ASSUME NEW b \in Seq(Nat), NEW n \in Nat, n < Len(b)
  PROVE  /\ Rest(b, n) # <<>> /\ Head(Rest(b, n)) = b[n + 1]
         /\ Tail(Rest(b, n)) = Rest(b, n + 1)
<1>1. Len(b) \in Nat
  BY LenProperties
<1>2. n + 1 \in 1 .. Len(b) /\ Len(b) \in n + 1 .. Len(b)
  BY <1>1
<1>3. Head(Rest(b, n)) = b[n + 1] /\ Tail(Rest(b, n)) = Rest(b, n + 1)
  BY <1>2, HeadTailOfSubSeq DEF Rest
<1>4. \A i \in n + 1 .. Len(b) : b[i] \in Nat
  <2> TAKE i \in n + 1 .. Len(b)
  <2>1. i \in 1 .. Len(b)
    BY <1>1
  <2> QED
    BY <2>1, ElementOfSeq
<1>5. Rest(b, n) \in Seq(Nat) /\ Len(Rest(b, n)) = Len(b) - (n + 1) + 1
  <2>1. n + 1 \in Int /\ Len(b) \in Int /\ n + 1 <= Len(b)
    BY <1>1
  <2> QED
    BY <1>4, <2>1, SubSeqProperties DEF Rest
<1>6. Rest(b, n) # <<>>
  BY <1>1, <1>5, EmptySeq
<1> QED
  BY <1>3, <1>6

LEMMA EndsOfRest ==
  ASSUME NEW b \in Seq(Nat)
  PROVE  Rest(b, 0) = b /\ Rest(b, Len(b)) = <<>>
<1>1. Len(b) \in Nat /\ Len(b) + 1 \in Int /\ Len(b) \in Int /\ Len(b) < Len(b) + 1
  BY LenProperties
<1>2. SubSeq(b, Len(b) + 1, Len(b)) = <<>>
  BY <1>1, SubSeqEmpty
<1> QED
  BY <1>2, SubSeqFull DEF Rest

Line == rx \in Seq(Nat) /\ Len(rx) <= 1 /\ to_board \in Seq(Nat)

LEMMA NonePending ==
  ASSUME Line
  PROVE  Pending = <<>> <=> rx = <<>> /\ to_board = <<>>
BY ConcatEqualIffEmpty DEF Line, Pending

(* A byte that the board takes is the first one pending.                   *)
LEMMA TakesFirst ==
  ASSUME Line, rx # <<>>, rx' = <<>>, UNCHANGED to_board
  PROVE  /\ Pending # <<>> /\ Head(Pending) = Head(rx) /\ Head(rx) \in Nat
         /\ Pending' = Tail(Pending)
<1>0. Pending' = to_board
  BY ConcatEmptySeq DEF Line, Pending
<1>1. Len(rx) = 1 /\ rx[1] \in Nat /\ Head(rx) = rx[1]
  <2>1. Len(rx) \in Nat \ {0} /\ Len(rx) <= 1
    BY EmptySeq DEF Line
  <2>2. Len(rx) = 1 /\ 1 \in 1 .. Len(rx)
    <3>1. \A n \in Nat \ {0} : n <= 1 => n = 1 /\ 1 \in 1 .. n
      OBVIOUS
    <3> QED
      BY <2>1, <3>1, Zenon
  <2> QED
    BY <2>2, ElementOfSeq DEF Line
<1>2. /\ Pending \in Seq(Nat) /\ Pending # <<>> /\ Len(Pending) = 1 + Len(to_board)
      /\ \A i \in 1 .. 1 + Len(to_board) : Pending[i] = IF i <= 1 THEN rx[i] ELSE to_board[i - 1]
  <2>1. Pending # <<>>
    BY NonePending
  <2>2. rx \in Seq(Nat) /\ to_board \in Seq(Nat)
    BY DEF Line
  <2>3. /\ rx \o to_board \in Seq(Nat) /\ Len(rx \o to_board) = Len(rx) + Len(to_board)
        /\ \A i \in 1 .. Len(rx) + Len(to_board) :
             (rx \o to_board)[i] = IF i <= Len(rx) THEN rx[i] ELSE to_board[i - Len(rx)]
    BY <2>2, ConcatProperties
  <2> QED
    BY <1>1, <2>1, <2>3 DEF Pending
<1>3. Head(Pending) = rx[1]
  BY <1>2
<1>4. /\ Tail(Pending) \in Seq(Nat) /\ Len(Tail(Pending)) = Len(to_board)
      /\ \A i \in 1 .. Len(to_board) : Tail(Pending)[i] = to_board[i]
  BY <1>2, HeadTailProperties, LenProperties DEF Line
<1>5. Tail(Pending) = to_board
  BY <1>4, SeqEqual DEF Line
<1> QED
  BY <1>0, <1>1, <1>2, <1>3, <1>5

(* What is delivered to an empty register stays pending.                   *)
LEMMA DeliveredStays ==
  ASSUME Line, rx = <<>>, to_board # <<>>,
         rx' = <<Head(to_board)>>, to_board' = Tail(to_board)
  PROVE  Pending' = Pending /\ Pending # <<>>
<1>1. Pending = to_board
  BY ConcatEmptySeq DEF Line, Pending
<1>2. /\ to_board \in Seq(Nat) /\ Head(to_board) \in Nat /\ Tail(to_board) \in Seq(Nat)
      /\ to_board = <<Head(to_board)>> \o Tail(to_board)
  BY DEF Line
<1> QED
  BY <1>1, <1>2 DEF Pending

-----------------------------------------------------------------------------
(* The request that is being served.                                       *)
LEMMA RequestIs ==
  ASSUME TypeOK, Planned, requests # <<>>
  PROVE  /\ Request = requests[1] /\ 1 \in DOMAIN requests
         /\ Request.bytes \in Seq(Nat) /\ Request.replies \in Nat
         /\ IsRequest(Request) /\ (Leaves(Request) <=> Leaving)
<1> DEFINE S == [bytes : Seq(Nat), replies : Nat]
<1>1. requests \in Seq(S)
  BY DEF TypeOK
<1>2. Request = requests[1] /\ 1 \in DOMAIN requests
  <2>1. Len(requests) \in Nat \ {0} /\ DOMAIN requests = 1 .. Len(requests)
    BY <1>1, EmptySeq, LenProperties
  <2>2. \A n \in Nat \ {0} : 1 \in 1 .. n
    OBVIOUS
  <2> QED
    BY <2>1, <2>2 DEF Request
<1>3. Request \in S
  BY <1>1, HeadTailProperties DEF Request
<1> QED
  BY <1>2, <1>3 DEF Planned

LEMMA KindsOfRequest ==
  ASSUME NEW r, IsRequest(r)
  PROVE  LET b == r.bytes
         IN /\ b[1] \in {POKE, STATUS_BYTE, RESET, EXECUTE, DEMO, ERASE_SECTOR, FLASH_READ,
                         FLASH_WRITE}
            /\ b[1] \in {POKE, STATUS_BYTE, RESET, EXECUTE, DEMO} => Len(b) = 1 /\ r.replies = 1
            /\ b[1] = ERASE_SECTOR => Len(b) = 2 /\ r.replies = 1
            /\ b[1] = FLASH_READ => /\ Len(b) = 3 /\ b[3] \in 1 .. FlashBytes
                                    /\ b[3] <= SecondBytes /\ r.replies = b[3]
            /\ b[1] = FLASH_WRITE => /\ Len(b) = 3 + b[3] /\ b[3] \in 0 .. PageBytes
                                     /\ b[2] + b[3] <= FlashBytes /\ r.replies = 1
            /\ Leaves(r) <=> b[1] \in {RESET, EXECUTE}
            /\ r.replies \in 1 .. FlashBytes /\ Len(b) \in Nat \ {0}
<1> DEFINE b == r.bytes
<1>1. 1 \in 1 .. FlashBytes
  BY FlashAssumption
<1>2. \A k \in 0 .. PageBytes : 3 + k \in Nat \ {0}
  BY FlashAssumption
<1>3. CASE b[1] \in {POKE, STATUS_BYTE, RESET, EXECUTE, DEMO} /\ Len(b) = 1 /\ r.replies = 1
  BY <1>1, <1>3
     DEF Leaves, POKE, STATUS_BYTE, RESET, EXECUTE, DEMO, ERASE_SECTOR, FLASH_READ, FLASH_WRITE
<1>4. CASE b[1] = ERASE_SECTOR /\ Len(b) = 2 /\ r.replies = 1
  BY <1>1, <1>4
     DEF Leaves, POKE, STATUS_BYTE, RESET, EXECUTE, DEMO, ERASE_SECTOR, FLASH_READ, FLASH_WRITE
<1>5. CASE /\ b[1] = FLASH_READ /\ Len(b) = 3 /\ b[3] \in 1 .. FlashBytes /\ b[3] <= SecondBytes
           /\ r.replies = b[3]
  BY <1>5
     DEF Leaves, POKE, STATUS_BYTE, RESET, EXECUTE, DEMO, ERASE_SECTOR, FLASH_READ, FLASH_WRITE
<1>6. CASE /\ b[1] = FLASH_WRITE /\ b[3] \in 0 .. PageBytes /\ Len(b) = 3 + b[3]
           /\ b[2] + b[3] <= FlashBytes /\ r.replies = 1
  BY <1>1, <1>2, <1>6
     DEF Leaves, POKE, STATUS_BYTE, RESET, EXECUTE, DEMO, ERASE_SECTOR, FLASH_READ, FLASH_WRITE
<1> QED
  BY <1>3, <1>4, <1>5, <1>6 DEF IsRequest

(* The longer a request, the fewer commands it may be of.                  *)
LEMMA LongRequest ==
  ASSUME NEW r, IsRequest(r)
  PROVE  LET b == r.bytes
         IN /\ 1 < Len(b) => b[1] \in {ERASE_SECTOR, FLASH_READ, FLASH_WRITE}
            /\ 2 < Len(b) => b[1] \in {FLASH_READ, FLASH_WRITE}
            /\ 3 < Len(b) => b[1] = FLASH_WRITE
<1> DEFINE b == r.bytes
           n == Len(b)
<1>1. /\ b[1] \in {POKE, STATUS_BYTE, RESET, EXECUTE, DEMO, ERASE_SECTOR, FLASH_READ,
                   FLASH_WRITE}
      /\ b[1] \in {POKE, STATUS_BYTE, RESET, EXECUTE, DEMO} => n = 1
      /\ b[1] = ERASE_SECTOR => n = 2
      /\ b[1] = FLASH_READ => n = 3
  BY KindsOfRequest
<1> HIDE DEF n
<1>2. 1 < n => b[1] \in {ERASE_SECTOR, FLASH_READ, FLASH_WRITE}
  BY <1>1
<1>3. (2 < n => b[1] \in {FLASH_READ, FLASH_WRITE}) /\ (3 < n => b[1] = FLASH_WRITE)
  BY <1>1
<1> QED
  BY <1>2, <1>3 DEF n

LEMMA SeqOfOne ==
  ASSUME NEW b \in Seq(Nat), Len(b) = 1
  PROVE  b = <<b[1]>>
<1>1. b[1] \in Nat /\ <<b[1]>> \in Seq(Nat) /\ Len(<<b[1]>>) = 1 /\ <<b[1]>>[1] = b[1]
  <2>1. 1 \in 1 .. Len(b)
    OBVIOUS
  <2>2. b[1] \in Nat
    BY <2>1, ElementOfSeq
  <2> QED
    BY <2>2
<1>2. \A i \in 1 .. 1 : b[i] = <<b[1]>>[i]
  BY <1>1
<1> QED
  BY <1>1, <1>2, SeqEqual

LEMMA LineOK == TypeOK => Line
BY DEF TypeOK, BootTypeOK, Line

(* The board takes a byte of the request it hears.                         *)
LEMMA HearsNext ==
  ASSUME TypeOK, Planned, Serving, mode \in Listens, getc, UNCHANGED to_board
  PROVE  /\ Hearing /\ Heard \in Nat /\ Head(rx) = Request.bytes[Heard + 1]
         /\ Head(rx) \in Nat /\ Pending' = Rest(Request.bytes, Heard + 1)
<1>1. /\ Pending # <<>> /\ Head(Pending) = Head(rx) /\ Head(rx) \in Nat
      /\ Pending' = Tail(Pending)
  BY LineOK, TakesFirst DEF getc
<1>2. Hearing
  BY <1>1, Zenon DEF Serving, Working, Sending, Answered, Ignored
<1>3. Request.bytes \in Seq(Nat)
  BY RequestIs DEF Serving
<1>4. Heard \in Nat
  <2>1. Len(data_page) \in Nat
    BY LenProperties DEF TypeOK, BootTypeOK
  <2> QED
    BY <2>1 DEF Heard, Listens
<1> QED
  BY <1>1, <1>2, <1>3, <1>4, PartsOfRest DEF Hearing

LEMMA CommandStep ==
  ASSUME TypeOK, Planned, Serving, Command, UNCHANGED <<requests, awaited, to_board>>
  PROVE  Serving'
<1> DEFINE b == Request.bytes
<1>1. /\ Hearing /\ Head(rx) = b[1] /\ Pending' = Rest(b, 1)
      /\ b[1] \in Nat
  BY HearsNext DEF Command, Listens, Heard
<1>2. /\ b \in Seq(Nat) /\ IsRequest(Request) /\ requests # <<>> /\ Request' = Request
      /\ awaited' = awaited /\ awaited = Request.replies /\ awaited' <= Request'.replies
      /\ to_client = <<>>
  BY <1>1, RequestIs DEF Serving, Hearing, Request
<1>3. CASE b[1] \in {POKE, STATUS_BYTE, RESET, EXECUTE}
  <2>1. Len(b) = 1 /\ awaited = 1 /\ Rest(b, 1) = <<>>
    BY <1>2, <1>3, KindsOfRequest, EndsOfRest
  <2>2. Len(to_client') = 1
    BY <1>1, <1>2, <1>3
       DEF Command, putc, POKE, STATUS_BYTE, RESET, EXECUTE
  <2>3. mode' \in After'
    BY <1>1, <1>2, <1>3
       DEF Command, After, POKE, STATUS_BYTE, RESET, EXECUTE, ERASE_SECTOR, FLASH_READ, FLASH_WRITE
  <2>4. b # <<DEMO>>
    BY <1>3 DEF POKE, STATUS_BYTE, RESET, EXECUTE, DEMO
  <2> QED
    BY <1>1, <1>2, <2>1, <2>2, <2>3, <2>4 DEF Serving, Answered
<1>4. CASE b[1] \in {ERASE_SECTOR, FLASH_READ, FLASH_WRITE}
  <2>1. 1 < Len(b)
    <3>1. /\ b[1] = ERASE_SECTOR => Len(b) = 2
          /\ b[1] = FLASH_READ => Len(b) = 3
          /\ b[1] = FLASH_WRITE => Len(b) = 3 + b[3] /\ b[3] \in 0 .. PageBytes
      BY <1>2, KindsOfRequest
    <3>2. b[1] = FLASH_WRITE => 1 < 3 + b[3]
      BY <3>1, FlashAssumption
    <3> HIDE DEF b
    <3> QED
      BY <1>4, <3>1, <3>2
  <2>2. ~Leaves(Request) /\ b # <<DEMO>>
    BY <1>4 DEF Leaves, RESET, EXECUTE, DEMO, ERASE_SECTOR, FLASH_READ, FLASH_WRITE
  <2>3. mode' = "addr" /\ to_client' = to_client /\ console_cmd' = b[1]
    BY <1>1, <1>4
       DEF Command, POKE, STATUS_BYTE, RESET, EXECUTE, ERASE_SECTOR, FLASH_READ, FLASH_WRITE
  <2>4. Heard' = 1
    BY <2>3 DEF Heard
  <2> QED
    BY <1>1, <1>2, <2>1, <2>2, <2>3, <2>4 DEF Serving, Hearing, Listens, Leaves
<1>5. CASE b[1] = DEMO
  <2>1. Len(b) = 1 /\ awaited = 1 /\ Rest(b, 1) = <<>>
    BY <1>2, <1>5, KindsOfRequest, EndsOfRest
  <2>2. mode' = "main" /\ to_client' = to_client
    BY <1>1, <1>5
       DEF Command, POKE, STATUS_BYTE, RESET, EXECUTE, DEMO, ERASE_SECTOR, FLASH_READ, FLASH_WRITE
  <2>3. b = <<DEMO>>
    BY <1>2, <1>5, <2>1, SeqOfOne
  <2> QED
    BY <1>1, <1>2, <2>1, <2>2, <2>3 DEF Serving, Ignored
<1> QED
  BY <1>2, <1>3, <1>4, <1>5, KindsOfRequest

LEMMA GetAddrStep ==
  ASSUME TypeOK, Planned, Serving, GetAddr, UNCHANGED <<requests, awaited, to_board>>
  PROVE  Serving'
<1> DEFINE b == Request.bytes
<1>1. Hearing /\ mode = "addr" /\ Heard = 1 /\ Pending' = Rest(b, 2)
  BY HearsNext DEF GetAddr, Listens, Heard
<1>2. /\ b \in Seq(Nat) /\ IsRequest(Request) /\ requests # <<>> /\ Request' = Request
      /\ awaited' = awaited /\ awaited = Request.replies /\ awaited' <= Request'.replies
      /\ to_client' = <<>> /\ console_cmd' = console_cmd /\ console_cmd = b[1]
      /\ ~Leaves(Request) /\ b # <<DEMO>>
  BY <1>1, RequestIs DEF Serving, Hearing, Request, GetAddr
<1>3. Heard < Len(b)
  BY <1>1 DEF Hearing
<1>4. CASE b[1] = ERASE_SECTOR
  <2>1. Len(b) = 2 /\ awaited = 1 /\ Rest(b, 2) = <<>>
    BY <1>2, <1>4, KindsOfRequest, EndsOfRest
  <2>2. mode' = "erase"
    BY <1>2, <1>4 DEF GetAddr
  <2> QED
    BY <1>1, <1>2, <2>1, <2>2 DEF Serving, Working, Works, Leaves
<1>5. CASE b[1] # ERASE_SECTOR
  <2>1. mode' = "len" /\ Heard' = 2
    BY <1>2, <1>5 DEF GetAddr, Heard
  <2>2. 2 < Len(b)
    <3>1. b[1] \in {FLASH_READ, FLASH_WRITE}
      <4>1. 1 < Len(b) => b[1] \in {ERASE_SECTOR, FLASH_READ, FLASH_WRITE}
        BY <1>2, LongRequest
      <4>2. 1 < Len(b)
        BY <1>1, <1>3
      <4> QED
        BY <1>5, <4>1, <4>2, Zenon
    <3>2. /\ b[1] = FLASH_READ => Len(b) = 3
          /\ b[1] = FLASH_WRITE => Len(b) = 3 + b[3] /\ b[3] \in 0 .. PageBytes
      BY <1>2, KindsOfRequest
    <3>3. b[1] = FLASH_WRITE => 2 < 3 + b[3]
      BY <3>2, FlashAssumption
    <3> HIDE DEF b
    <3> QED
      BY <3>1, <3>2, <3>3
  <2> QED
    BY <1>1, <1>2, <2>1, <2>2 DEF Serving, Hearing, Listens, Leaves
<1> QED
  BY <1>4, <1>5

LEMMA GetLenStep ==
  ASSUME TypeOK, Planned, Serving, GetLen, UNCHANGED <<requests, awaited, to_board>>
  PROVE  Serving'
<1> DEFINE b == Request.bytes
<1>1. /\ Hearing /\ mode = "len" /\ Heard = 2
      /\ Pending' = Rest(b, 3) /\ Head(rx) = b[3]
  BY HearsNext DEF GetLen, Listens, Heard
<1>2. /\ b \in Seq(Nat) /\ IsRequest(Request) /\ requests # <<>> /\ Request' = Request
      /\ awaited' = awaited /\ awaited = Request.replies /\ awaited' <= Request'.replies
      /\ to_client' = <<>> /\ console_cmd' = console_cmd /\ console_cmd = b[1]
      /\ ~Leaves(Request) /\ 2 < Len(b)
  BY <1>1, RequestIs DEF Serving, Hearing, Request, GetLen
<1>3. /\ len' = b[3] /\ data_page' = <<>> /\ data_idx' = 0
      /\ mode' = IF b[1] = FLASH_READ THEN IF b[3] = 0 THEN "main" ELSE "read"
                 ELSE IF b[3] = 0 THEN "write" ELSE "data"
  BY <1>1, <1>2 DEF GetLen
<1>4. CASE b[1] = FLASH_READ
  <2>1. Len(b) = 3 /\ awaited = b[3] /\ b[3] \in 1 .. FlashBytes /\ Rest(b, 3) = <<>>
    BY <1>2, <1>4, KindsOfRequest, EndsOfRest
  <2>2. mode' = "read" /\ 0 < b[3] /\ b[3] = 0 + (b[3] - 0)
    BY <1>3, <1>4, <2>1, FlashAssumption
  <2>3. Len(to_client') = 0
    BY <1>2
  <2> QED
    BY <1>1, <1>2, <1>3, <2>1, <2>2, <2>3 DEF Serving, Sending, Leaves
<1>5. CASE b[1] # FLASH_READ
  <2>1. b[1] = FLASH_WRITE
    <3>1. 2 < Len(b) => b[1] \in {FLASH_READ, FLASH_WRITE}
      BY <1>2, LongRequest
    <3> QED
      BY <1>2, <1>5, <3>1, Zenon
  <2>2. Len(b) = 3 + b[3] /\ b[3] \in 0 .. PageBytes /\ awaited = 1
    BY <1>2, <2>1, KindsOfRequest
  <2>3. Len(data_page') = 0
    BY <1>3
  <2>4. CASE b[3] = 0
    <3>1. mode' = "write" /\ Len(b) = 3
      BY <1>3, <1>5, <2>2, <2>4
    <3>2. Rest(b, 3) = <<>>
      BY <1>2, <3>1, EndsOfRest
    <3> QED
      BY <1>1, <1>2, <1>3, <2>2, <2>3, <2>4, <3>1, <3>2 DEF Serving, Working, Works, Leaves
  <2>5. CASE b[3] # 0
    <3>1. mode' = "data" /\ Heard' = 3 /\ 0 < b[3] /\ 3 < Len(b)
      BY <1>3, <1>5, <2>2, <2>3, <2>5, FlashAssumption DEF Heard
    <3> QED
      BY <1>1, <1>2, <1>3, <2>3, <3>1 DEF Serving, Hearing, Listens, Leaves
  <2> QED
    BY <2>4, <2>5
<1> QED
  BY <1>4, <1>5

LEMMA GetDataStep ==
  ASSUME TypeOK, Planned, Serving, GetData, UNCHANGED <<requests, awaited, to_board>>
  PROVE  Serving'
<1> DEFINE b == Request.bytes
           n == Len(data_page)
<1>0. data_page \in Seq(Nat) /\ n \in Nat
  BY LenProperties DEF TypeOK, BootTypeOK
<1>1. /\ Hearing /\ mode = "data" /\ Heard = 3 + n /\ Head(rx) \in Nat
      /\ Pending' = Rest(b, Heard + 1)
  BY HearsNext DEF GetData, Listens, Heard
<1>2. /\ b \in Seq(Nat) /\ IsRequest(Request) /\ requests # <<>> /\ Request' = Request
      /\ awaited' = awaited /\ awaited = Request.replies /\ awaited' <= Request'.replies
      /\ to_client' = <<>> /\ console_cmd' = console_cmd /\ console_cmd = b[1]
      /\ ~Leaves(Request) /\ 3 + n < Len(b) /\ len' = len /\ len = b[3] /\ n < len
  BY <1>1, RequestIs DEF Serving, Hearing, Request, GetData
<1>3. Len(data_page') = n + 1
  BY <1>0, <1>1, AppendProperties DEF GetData
<1>4. b[1] = FLASH_WRITE /\ Len(b) = 3 + b[3] /\ b[3] \in 0 .. PageBytes /\ awaited = 1
  <2>1. 3 < Len(b) /\ Len(b) \in Nat
    BY <1>0, <1>2, LenProperties
  <2>2. 3 < Len(b) => b[1] = FLASH_WRITE
    BY <1>2, LongRequest
  <2>3. b[1] = FLASH_WRITE
    BY <2>1, <2>2, Zenon
  <2> QED
    BY <1>2, <2>3, KindsOfRequest
<1>5. b[3] \in Nat
  BY <1>4, FlashAssumption
<1> HIDE DEF n
<1>6. CASE n + 1 = len
  <2>1. mode' = "write" /\ Heard + 1 = Len(b)
    <3>1. mode' = "write"
      BY <1>3, <1>6 DEF GetData
    <3>2. Heard = 3 + n /\ Len(b) = 3 + len
      BY <1>1, <1>2, <1>4
    <3>3. \A x, y \in Nat : x + 1 = y => 3 + x + 1 = 3 + y
      OBVIOUS
    <3>4. 3 + n + 1 = 3 + len
      BY <1>0, <1>2, <1>5, <1>6, <3>3
    <3> QED
      BY <3>1, <3>2, <3>4, Zenon
  <2>2. Rest(b, Heard + 1) = <<>>
    BY <1>2, <2>1, EndsOfRest
  <2> QED
    BY <1>1, <1>2, <1>3, <1>4, <1>6, <2>1, <2>2 DEF Serving, Working, Works, Leaves
<1>7. CASE n + 1 # len
  <2>1. mode' = "data" /\ Heard' = Heard + 1 /\ Heard' < Len(b) /\ n + 1 < len
    <3>1. mode' = "data" /\ Heard' = 3 + (n + 1)
      BY <1>3, <1>7 DEF GetData, Heard
    <3>2. n < len /\ len = b[3] /\ Len(b) = 3 + b[3] /\ Heard = 3 + n
      BY <1>1, <1>2, <1>4
    <3>3. len \in Nat
      BY <1>5, <3>2
    <3>4. n + 1 < len /\ 3 + n + 1 = 3 + (n + 1) /\ 3 + (n + 1) < 3 + len
      <4>1. \A x, y \in Nat : x < y /\ x + 1 # y =>
              x + 1 < y /\ 3 + x + 1 = 3 + (x + 1) /\ 3 + (x + 1) < 3 + y
        OBVIOUS
      <4> QED
        BY <1>0, <1>7, <3>2, <3>3, <4>1, Zenon
    <3> QED
      BY <3>1, <3>2, <3>4, Zenon
  <2> QED
    BY <1>1, <1>2, <1>3, <2>1 DEF Serving, Hearing, Listens, Leaves
<1> QED
  BY <1>6, <1>7

(* Where the bootloader is when it has answered.                           *)
LEMMA AfterIs ==
  /\ After \in {{"auto", "application"}, {"application"}, {"main"}}
  /\ ~Leaves(Request) => After = {"main"}
  /\ Leaves(Request) => After \subseteq {"auto", "application"}
  /\ "auto" \in After => After = {"auto", "application"}
BY DEF After, Leaves, RESET, EXECUTE

(* While the bootloader works at the flash it says nothing; in the end it  *)
(* answers once.                                                           *)
LEMMA WorkStep ==
  ASSUME TypeOK, Serving, Bootloader, mode \in Works,
         UNCHANGED <<requests, awaited, to_board>>
  PROVE  Serving'
<1>1. /\ Working /\ requests # <<>> /\ awaited <= Request.replies
      /\ mode \notin Listens /\ mode # "auto" /\ mode # "read"
  BY AfterIs, Zenon DEF Serving, Hearing, Sending, Answered, Ignored, Works, Listens
<1>2. /\ rx = <<>> /\ to_board = <<>> /\ to_client = <<>> /\ awaited = 1
      /\ ~Leaves(Request) /\ Request' = Request
  BY <1>1, LineOK, NonePending DEF Working, Request
<1>3. /\ UNCHANGED <<rx, data_page, len>>
      /\ \/ /\ mode' \in Works /\ UNCHANGED to_client
            /\ mode' \in {"write", "write_command", "writing"} =>
                 mode \in {"write", "write_command", "writing"}
         \/ mode' = "main" /\ Len(to_client') = 1
  <2>1. CASE EraseEnable
    BY <2>1 DEF EraseEnable, Works
  <2>2. CASE EraseCommand
    BY <2>2 DEF EraseCommand, Works
  <2>3. CASE Erasing
    BY <1>2, <2>3 DEF Erasing, putc
  <2>4. CASE WriteNext
    BY <2>4 DEF WriteNext, Works
  <2>5. CASE WriteCommand
    BY <2>5 DEF WriteCommand, Works
  <2>6. CASE Writing
    BY <2>6 DEF Writing, Works
  <2>7. CASE Written
    BY <1>2, <2>7 DEF Written, putc
  <2>8. ~(Poked \/ Command \/ GetAddr \/ GetLen \/ GetData \/ Read)
    BY <1>1 DEF Poked, Command, GetAddr, GetLen, GetData, Read, Listens
  <2> QED
    BY <2>1, <2>2, <2>3, <2>4, <2>5, <2>6, <2>7, <2>8 DEF Bootloader
<1>4. Pending' = <<>> /\ After' = After /\ After = {"main"}
  BY <1>1, <1>2, <1>3, AfterIs DEF Working, Pending, After
<1>5. CASE mode' \in Works /\ UNCHANGED to_client
  BY <1>1, <1>2, <1>3, <1>4, <1>5 DEF Serving, Working, Leaves, Works
<1>6. CASE mode' = "main" /\ Len(to_client') = 1
  BY <1>1, <1>2, <1>4, <1>6 DEF Serving, Working, Answered
<1> QED
  BY <1>3, <1>5, <1>6

(* A byte that is read is sent; with the last one the request is answered. *)
LEMMA ReadStep ==
  ASSUME TypeOK, Serving, Read, UNCHANGED <<requests, awaited, to_board>>
  PROVE  Serving'
<1>1. mode = "read" /\ Sending /\ requests # <<>> /\ awaited <= Request.replies
  BY AfterIs, Zenon DEF Read, Serving, Hearing, Working, Answered, Ignored, Works, Listens
<1>2. /\ Pending' = <<>> /\ ~Leaves(Request) /\ Request' = Request /\ After' = {"main"}
      /\ awaited' <= Request'.replies /\ requests' # <<>> /\ Request.bytes # <<DEMO>>
  BY <1>1, AfterIs DEF Sending, Read, Pending, Request, After
<1>3. /\ data_idx \in Nat /\ len \in Nat /\ Len(to_client) \in Nat
      /\ data_idx < len /\ awaited = Len(to_client) + (len - data_idx)
  BY <1>1, FlashAssumption, LenProperties DEF Sending, TypeOK, BootTypeOK
<1>4. Len(to_client') = Len(to_client) + 1
  BY AppendProperties DEF Read, putc, TypeOK, BootTypeOK
<1>5. /\ data_idx' = data_idx + 1 /\ len' = len /\ awaited' = awaited
      /\ mode' = IF data_idx + 1 < len THEN "read" ELSE "main"
  BY DEF Read
<1>6. CASE data_idx + 1 < len
  <2>1. mode' = "read" /\ data_idx' < len' /\ awaited' = Len(to_client') + (len' - data_idx')
    BY <1>3, <1>4, <1>5, <1>6
  <2> QED
    BY <1>2, <2>1 DEF Serving, Sending, Leaves
<1>7. CASE ~(data_idx + 1 < len)
  <2>1. mode' = "main" /\ awaited' = Len(to_client')
    BY <1>3, <1>4, <1>5, <1>7
  <2> QED
    BY <1>2, <2>1 DEF Serving, Answered
<1> QED
  BY <1>6, <1>7

(* Every step of the board keeps a request served.                         *)
LEMMA ServingStep ==
  ASSUME TypeOK, Planned, Serving, Bootloader \/ AutoBoot,
         UNCHANGED <<requests, awaited, to_board>>
  PROVE  Serving'
<1>1. ASSUME mode = "auto"
      PROVE  /\ Answered /\ rx = <<>> /\ After = {"auto", "application"}
             /\ requests # <<>> /\ awaited <= Request.replies
  BY <1>1, AfterIs, LineOK, NonePending, Zenon
     DEF Serving, Hearing, Working, Sending, Answered, Ignored, Works, Listens
<1>2. ~Poked
  BY <1>1 DEF Poked
<1>3. CASE AutoBoot
  <2>1. mode = "auto" /\ mode' = "application" /\ UNCHANGED <<rx, to_client>>
    BY <1>3 DEF AutoBoot
  <2> QED
    BY <1>1, <2>1 DEF Serving, Answered, Pending, After, Request
<1>4. CASE mode \in Works /\ Bootloader
  BY <1>4, WorkStep
<1>5. mode \notin Works => Command \/ GetAddr \/ GetLen \/ GetData \/ Read \/ AutoBoot
  BY <1>2 DEF Bootloader, Works, EraseEnable, EraseCommand, Erasing, WriteNext, WriteCommand,
              Writing, Written
<1> QED
  BY <1>3, <1>4, <1>5, CommandStep, GetAddrStep, GetLenStep, GetDataStep, ReadStep

-----------------------------------------------------------------------------
(* A client in step with the bootloader.                                   *)

LEMMA SamePlan ==
  ASSUME Planned, UNCHANGED <<requests, client, poked>>
  PROVE  Planned' /\ (Leaving' <=> Leaving)
BY DEF Planned, Leaving

LEMMA BoardInStep ==
  ASSUME TypeOK, InStep, Bootloader \/ AutoBoot, UNCHANGED <<user_vars, client_vars>>
  PROVE  InStep'
<1>1. Planned /\ Planned' /\ (Leaving' <=> Leaving) /\ UNCHANGED <<requests, awaited, to_board>>
  BY SamePlan DEF InStep, user_vars, client_vars
<1>2. CASE awaited = 0
  <2>1. Between /\ rx = <<>> /\ mode \in {"auto", "application", "main"}
    BY <1>2, LineOK, NonePending DEF InStep, Between
  <2>2. AutoBoot
    BY <2>1
       DEF Bootloader, Poked, Command, GetAddr, GetLen, GetData, EraseEnable, EraseCommand,
           Erasing, WriteNext, WriteCommand, Writing, Written, Read, getc
  <2>3. mode = "auto" /\ mode' = "application" /\ UNCHANGED <<rx, to_client>>
    BY <2>2 DEF AutoBoot
  <2>4. Between'
    BY <1>1, <2>1, <2>3 DEF Between, Pending
  <2> QED
    BY <1>1, <1>2, <2>4 DEF InStep
<1>3. CASE awaited # 0
  <2>1. Serving'
    BY <1>1, <1>3, ServingStep DEF InStep
  <2> QED
    BY <1>1, <1>3, <2>1 DEF InStep
<1> QED
  BY <1>2, <1>3

LEMMA WriteInStep ==
  ASSUME TypeOK, InStep, Write
  PROVE  InStep'
<1>1. /\ requests # <<>> /\ awaited = 0 /\ Planned
      /\ rx = <<>> /\ to_board = <<>> /\ to_client = <<>> /\ mode = "main"
  BY LineOK, NonePending DEF Write, InStep, Between
<1>2. /\ Request.bytes \in Seq(Nat) /\ IsRequest(Request)
      /\ Request.replies \in 1 .. FlashBytes /\ Len(Request.bytes) \in Nat \ {0}
  BY <1>1, RequestIs, KindsOfRequest
<1>3. awaited' = Request.replies /\ awaited' # 0 /\ requests' = requests /\ Request' = Request
  BY <1>2, FlashAssumption DEF Write, Request
<1>4. to_board' = Request.bytes /\ UNCHANGED <<mode, rx, to_client, client, poked>>
  BY <1>1, <1>2 DEF Write, Request, boot_vars, main_vars, user_vars
<1>5. Pending' = Rest(Request.bytes, 0)
  <2>1. Pending' = <<>> \o Request.bytes
    BY <1>1, <1>4 DEF Pending
  <2> QED
    BY <1>2, <2>1, EndsOfRest
<1>6. Heard' = 0 /\ 0 < Len(Request.bytes)
  BY <1>1, <1>2, <1>4 DEF Heard
<1>7. Hearing'
  BY <1>1, <1>3, <1>4, <1>5, <1>6 DEF Hearing, Listens
<1>8. Serving'
  <2>1. Request.replies <= Request.replies
    BY <1>2, FlashAssumption
  <2> QED
    BY <1>1, <1>3, <1>7, <2>1 DEF Serving
<1> QED
  BY <1>1, <1>3, <1>4, <1>8, SamePlan DEF InStep

(* A reply is there only when the bootloader sends or has answered.        *)
LEMMA Replies ==
  ASSUME TypeOK, InStep, awaited > 0, to_client # <<>>
  PROVE  /\ Planned /\ Serving /\ (Sending \/ Answered)
         /\ requests # <<>> /\ awaited <= Request.replies
BY FlashAssumption DEF InStep, Serving, Hearing, Working, Ignored, TypeOK

LEMMA TailPlanned ==
  ASSUME TypeOK, Planned, requests # <<>>, requests' = Tail(requests), UNCHANGED client,
         client # "poke" => UNCHANGED poked
  PROVE  Planned' /\ (Leaving' <=> Leaving) /\ (Leaving => requests' = <<>>)
<1> DEFINE S == [bytes : Seq(Nat), replies : Nat]
           n == Len(requests)
<1>1. /\ requests \in Seq(S) /\ n \in Nat \ {0} /\ Tail(requests) \in Seq(S)
      /\ Len(Tail(requests)) = n - 1
      /\ \A k \in 1 .. n - 1 : Tail(requests)[k] = requests[k + 1]
      /\ DOMAIN requests = 1 .. n /\ DOMAIN Tail(requests) = 1 .. n - 1
  BY HeadTailProperties, EmptySeq, LenProperties DEF TypeOK
<1> HIDE DEF n, S
<1>2. Leaving' <=> Leaving
  BY DEF Leaving
<1>3. n <= 1 => Tail(requests) = <<>>
  BY <1>1, EmptySeq
<1>4. Leaving => n <= 1
  BY DEF Planned, n
<1>5. client = "poke" => n = 1
  BY DEF Planned, PokeRequest, Simple, n
<1>6. \A k \in DOMAIN requests' : IsRequest(requests'[k]) /\ (Leaves(requests'[k]) <=> Leaving')
  <2> SUFFICES ASSUME NEW k \in 1 .. n - 1
               PROVE  /\ IsRequest(Tail(requests)[k])
                      /\ Leaves(Tail(requests)[k]) <=> Leaving
    BY <1>1, <1>2
  <2>1. k + 1 \in 1 .. n
    BY <1>1
  <2> QED
    BY <1>1, <2>1 DEF Planned
<1>7. Leaving' => Len(requests') <= 1
  BY <1>1, <1>2, <1>4
<1>8. client # "ready"
  BY DEF Planned
<1>9. client = "poke" => requests' = <<>>
  BY <1>1, <1>3, <1>5
<1> QED
  BY <1>2, <1>3, <1>4, <1>6, <1>7, <1>8, <1>9 DEF Planned

LEMMA ReadReplyInStep ==
  ASSUME TypeOK, InStep, ReadReply
  PROVE  InStep'
<1>1. /\ Planned /\ requests # <<>> /\ awaited <= Request.replies /\ awaited > 0
      /\ to_client # <<>> /\ (Sending \/ Answered)
      /\ Request = requests[1] /\ IsRequest(Request) /\ (Leaves(Request) <=> Leaving)
  <2>1. awaited > 0 /\ to_client # <<>>
    BY DEF ReadReply
  <2>2. Planned /\ (Sending \/ Answered) /\ requests # <<>> /\ awaited <= Request.replies
    BY <2>1, Replies
  <2> QED
    BY <2>1, <2>2, RequestIs
<1>2. /\ to_client' = Tail(to_client) /\ UNCHANGED <<rx, to_board, mode, len, data_idx, client>>
      /\ poked' = (poked \/ client = "poke")
  BY DEF ReadReply, main_vars
<1>3. /\ Pending = <<>> /\ Pending' = <<>>
  BY <1>1, <1>2 DEF Sending, Answered, Pending
<1>4. /\ to_client \in Seq(Nat) /\ Len(to_client) \in Nat \ {0}
      /\ Len(Tail(to_client)) = Len(to_client) - 1 /\ Tail(to_client) \in Seq(Nat)
      /\ awaited \in Nat \ {0} /\ data_idx \in Nat /\ len \in Nat
  <2>1. to_client \in Seq(Nat) /\ awaited \in Nat \ {0} /\ data_idx \in Nat /\ len \in Nat
    BY <1>1, FlashAssumption DEF TypeOK, BootTypeOK
  <2>2. Len(to_client) \in Nat \ {0}
    BY <1>1, <2>1, EmptySeq, LenProperties
  <2>3. Tail(to_client) \in Seq(Nat) /\ Len(Tail(to_client)) = Len(to_client) - 1
    BY <1>1, <2>1, HeadTailProperties
  <2> QED
    BY <2>1, <2>2, <2>3
<1>5. client # "poke" => UNCHANGED poked
  BY <1>2 DEF TypeOK
<1>6. CASE awaited = 1
  <2>1. awaited' = 0 /\ requests' = Tail(requests)
    BY <1>6 DEF ReadReply, Done
  <2>2. Planned' /\ (Leaving' <=> Leaving) /\ (Leaving => requests' = <<>>)
    BY <1>1, <1>2, <1>5, <2>1, TailPlanned
  <2>3. ~Sending
    <3>1. \A a \in Nat \ {0}, n, i \in Nat : i < n => 1 # a + (n - i)
      OBVIOUS
    <3> QED
      BY <1>4, <1>6, <3>1 DEF Sending
  <2>4. mode \in After /\ Len(to_client) = 1
    BY <1>1, <1>6, <2>3 DEF Answered
  <2>5. to_client' = <<>>
    <3>1. Len(Tail(to_client)) = 0
      BY <1>4, <2>4
    <3> QED
      BY <1>2, <1>4, <3>1, EmptySeq
  <2>6. IF Leaving' /\ requests' = <<>> THEN mode' \in {"auto", "application"} ELSE mode' = "main"
    BY <1>1, <1>2, <2>2, <2>4, AfterIs
  <2> QED
    BY <1>3, <2>1, <2>2, <2>5, <2>6 DEF InStep, Between
<1>7. CASE awaited # 1
  <2>1. awaited' = awaited - 1 /\ requests' = requests /\ Request' = Request
    BY <1>7 DEF ReadReply, Request
  <2>2. client # "poke"
    <3>1. client = "poke" => Request.replies = 1
      BY <1>1 DEF Planned, PokeRequest, Simple
    <3>2. 1 < awaited
      BY <1>4, <1>7
    <3> QED
      BY <1>1, <1>4, <3>1, <3>2
  <2>3. Planned'
    BY <1>1, <1>2, <1>5, <2>1, <2>2, SamePlan
  <2>4. awaited' # 0 /\ awaited' <= Request'.replies
    <3>1. Request.replies \in Nat
      BY <1>1, KindsOfRequest, FlashAssumption
    <3>2. \A r \in Nat, a \in Nat \ {0} : a # 1 /\ a <= r => a - 1 # 0 /\ a - 1 <= r
      OBVIOUS
    <3> QED
      BY <1>1, <1>4, <1>7, <2>1, <3>1, <3>2
  <2>5. CASE Sending
    <3>1. \A a, t, n, i \in Nat : a = t + (n - i) => a - 1 = (t - 1) + (n - i)
      OBVIOUS
    <3>2. awaited' = Len(to_client') + (len' - data_idx')
      BY <1>2, <1>4, <2>1, <2>5, <3>1 DEF Sending
    <3>3. Sending'
      BY <1>2, <1>3, <2>1, <2>5, <3>2 DEF Sending, Leaves
    <3> QED
      BY <1>1, <2>1, <2>3, <2>4, <3>3 DEF InStep, Serving
  <2>6. CASE Answered
    <3>1. Answered'
      BY <1>2, <1>3, <1>4, <2>1, <2>6 DEF Answered, After
    <3> QED
      BY <1>1, <2>1, <2>3, <2>4, <3>1 DEF InStep, Serving
  <2> QED
    BY <1>1, <2>5, <2>6
<1> QED
  BY <1>6, <1>7

(* The client waits in vain only for the answer to a request that is no    *)
(* command.                                                                *)
LEMMA NoTimeoutInStep ==
  ASSUME InTime, TypeOK, InStep, awaited > 0, Silence \/ LongRead \/ SlowErase
  PROVE  Planned /\ requests # <<>> /\ Ignored
<1>1. /\ Planned /\ Serving /\ requests # <<>> /\ awaited # 0 /\ awaited \in Nat
      /\ awaited <= Request.replies
  BY FlashAssumption DEF InStep, Serving, TypeOK
<1>2. ~SlowErase
  BY DEF SlowErase, InTime
<1>3. ~LongRead
  <2>1. Request.replies \in Nat /\ Request.replies <= SecondBytes
    <3>1. IsRequest(Request)
      BY <1>1, RequestIs
    <3> QED
      BY <3>1, FlashAssumption, SecondAssumption DEF IsRequest
  <2>2. \A x, a, m \in Nat : a > 0 /\ x <= m => ~(x - a >= m)
    OBVIOUS
  <2> QED
    BY <1>1, <2>1, <2>2, SecondAssumption DEF LongRead, Request
<1>4. /\ to_board = <<>> /\ to_client = <<>>
      /\ (mode \in Listens /\ rx = <<>>) \/ mode = "application"
  BY <1>2, <1>3 DEF Silence, Listens
<1>5. ~Answered
  BY <1>1, <1>4 DEF Answered
<1>6. ~Hearing
  <2> SUFFICES ASSUME Hearing PROVE FALSE
    OBVIOUS
  <2>1. Request.bytes \in Seq(Nat)
    BY <1>1, RequestIs
  <2>2. Heard \in Nat
    BY LenProperties DEF Hearing, Heard, Listens, TypeOK, BootTypeOK
  <2>3. Pending # <<>>
    BY <2>1, <2>2, PartsOfRest DEF Hearing
  <2>4. mode # "application"
    BY DEF Hearing, Listens
  <2> QED
    BY <1>4, <2>3, <2>4, LineOK, NonePending
<1>7. Ignored
  BY <1>1, <1>4, <1>5, <1>6 DEF Serving, Working, Sending, Works, Listens
<1> QED
  BY <1>1, <1>7

LEMMA ReadTimeoutInStep ==
  ASSUME InTime, TypeOK, InStep, ReadTimeout
  PROVE  InStep' /\ UNCHANGED <<client, poked, trusted>>
<1>1. Planned /\ requests # <<>> /\ Ignored
  BY NoTimeoutInStep DEF ReadTimeout
<1>2. Request.bytes[1] \notin {FLASH_READ, STATUS_BYTE} /\ ~Leaves(Request)
  BY <1>1 DEF Ignored, Leaves, DEMO, FLASH_READ, STATUS_BYTE, RESET, EXECUTE
<1>3. /\ awaited' = 0 /\ requests' = Tail(requests)
      /\ UNCHANGED <<client, poked, trusted, to_board, mode, rx, to_client>>
  BY <1>2 DEF ReadTimeout, Request, boot_vars, main_vars
<1>4. Planned' /\ (Leaving' <=> Leaving)
  BY <1>1, <1>3, TailPlanned
<1>5. ~Leaving
  BY <1>1, <1>2, RequestIs
<1>6. Between'
  BY <1>1, <1>3, <1>4, <1>5 DEF Between, Ignored, Pending
<1> QED
  BY <1>3, <1>4, <1>6 DEF InStep

LEMMA DeliverInStep ==
  ASSUME TypeOK, InStep, Deliver
  PROVE  InStep'
<1>1. /\ to_board # <<>> /\ to_board' = Tail(to_board)
      /\ UNCHANGED <<requests, client, poked, awaited, main_vars, to_client>>
      /\ Arrive(Head(to_board))
  BY DEF Deliver, Arrive, user_vars
<1>2. Pending # <<>>
  BY <1>1, LineOK, NonePending
<1>3. awaited # 0 /\ Planned /\ requests # <<>> /\ awaited <= Request.replies /\ Hearing
  BY <1>2 DEF InStep, Between, Serving, Working, Sending, Answered, Ignored
<1>4. rx = <<>> /\ rx' = <<Head(to_board)>>
  BY <1>1, <1>3 DEF Arrive, Deaf, Hearing, Listens
<1>5. Pending' = Pending
  BY <1>1, <1>4, LineOK, DeliveredStays
<1>6. Hearing' /\ requests' # <<>> /\ awaited' <= Request'.replies
  BY <1>1, <1>3, <1>5 DEF Hearing, Heard, Request, Leaves, main_vars
<1>7. Planned'
  BY <1>1, <1>3, SamePlan
<1> QED
  BY <1>1, <1>3, <1>6, <1>7 DEF InStep, Serving

LEMMA FinishedInStep ==
  ASSUME TypeOK, InStep, Finished
  PROVE  IF Leaving THEN ~trusted' /\ Unsure' ELSE InStep'
<1>1. /\ Planned /\ requests = <<>> /\ awaited = 0 /\ Between
      /\ client \notin {"off", "ready"} /\ client' = "ready"
      /\ poked' = (poked /\ ~Leaving) /\ trusted' = (trusted /\ ~Leaving)
      /\ UNCHANGED <<requests, awaited, rx, to_board, to_client, mode>>
  BY DEF Finished, InStep, Serving, Leaving, client_vars, boot_vars, main_vars
<1>2. CASE Leaving
  BY <1>1, <1>2 DEF Unsure, Between, Pending
<1>3. CASE ~Leaving
  <2>1. ~Leaving' /\ Planned' /\ Between'
    BY <1>1, <1>3 DEF Planned, Leaving, Between, Pending
  <2> QED
    BY <1>1, <1>3, <2>1 DEF InStep
<1> QED
  BY <1>2, <1>3

-----------------------------------------------------------------------------
(* What the user may ask for.                                              *)

Requests == [bytes : Seq(Nat), replies : Nat]

(* A plan of requests none of which sends the bootloader away.             *)
Plan(plan) == /\ plan \in Seq(Requests) /\ plan # <<>>
              /\ \A k \in DOMAIN plan : IsRequest(plan[k]) /\ ~Leaves(plan[k])

LEMMA Product ==
  ASSUME NEW a \in Nat, NEW b \in Nat, NEW c \in Nat
  PROVE  a * c \in Nat /\ (a <= b => a * c <= b * c)
OBVIOUS

LEMMA Quotient ==
  ASSUME NEW a \in Nat, NEW b \in Nat \ {0}
  PROVE  a \div b \in Nat /\ \A k \in Nat : k <= a \div b => k * b <= a
OBVIOUS

LEMMA SimplePlan ==
  ASSUME NEW c \in {POKE, STATUS_BYTE, RESET, EXECUTE, DEMO}
  PROVE  /\ Simple(c) \in Seq(Requests) /\ Simple(c) # <<>> /\ Len(Simple(c)) = 1
         /\ DOMAIN Simple(c) = {1} /\ IsRequest(Simple(c)[1])
         /\ Leaves(Simple(c)[1]) <=> c \in {RESET, EXECUTE}
<1>1. c \in Nat
  BY DEF POKE, STATUS_BYTE, RESET, EXECUTE, DEMO
<1> QED
  BY <1>1 DEF Simple, Requests, IsRequest, Leaves

LEMMA ReadPlan ==
  ASSUME NEW a \in Nat, NEW n \in 1 .. FlashBytes, n <= SecondBytes
  PROVE  Plan(ReadRequest(a, n))
<1>1. n \in Nat
  BY FlashAssumption
<1>2. ReadRequest(a, n) \in Seq(Requests) /\ ReadRequest(a, n) # <<>>
  BY <1>1 DEF ReadRequest, Requests, FLASH_READ
<1>3. /\ DOMAIN ReadRequest(a, n) = {1}
      /\ ReadRequest(a, n)[1] = [bytes |-> <<FLASH_READ, a, n>>, replies |-> n]
  BY DEF ReadRequest
<1>4. IsRequest(ReadRequest(a, n)[1]) /\ ~Leaves(ReadRequest(a, n)[1])
  BY <1>3 DEF IsRequest, Leaves, FLASH_READ, RESET, EXECUTE
<1> QED
  BY <1>2, <1>3, <1>4 DEF Plan

LEMMA SimpleErase ==
  ASSUME NEW a \in EraseAddrs
  PROVE  Plan(<<[bytes |-> <<ERASE_SECTOR, a>>, replies |-> 1]>>)
<1> DEFINE plan == <<[bytes |-> <<ERASE_SECTOR, a>>, replies |-> 1]>>
<1>1. a \in Nat
  BY EraseAssumption
<1>2. plan \in Seq(Requests) /\ plan # <<>>
  BY <1>1 DEF Requests, ERASE_SECTOR
<1>3. DOMAIN plan = {1} /\ plan[1] = [bytes |-> <<ERASE_SECTOR, a>>, replies |-> 1]
  OBVIOUS
<1>4. IsRequest(plan[1]) /\ ~Leaves(plan[1])
  BY <1>3 DEF IsRequest, Leaves, ERASE_SECTOR, RESET, EXECUTE
<1> QED
  BY <1>2, <1>3, <1>4 DEF Plan

LEMMA ImageIs ==
  ASSUME NEW img \in Images
  PROVE  img.addr \in Nat /\ img.data_len \in Nat \ {0} /\ img.addr + img.data_len <= FlashBytes
BY ImageAssumption DEF Images

LEMMA ErasePlan ==
  ASSUME NEW img \in Images
  PROVE  /\ EraseRequests(img) \in Seq(Requests)
         /\ \A k \in DOMAIN EraseRequests(img) :
              IsRequest(EraseRequests(img)[k]) /\ ~Leaves(EraseRequests(img)[k])
<1> DEFINE first == SectorOf(img.addr)
           n == SectorOf(img.addr + img.data_len) - first + 1
           Erase(k) == [bytes |-> <<ERASE_SECTOR, (first + k - 1) * SectorBytes>>, replies |-> 1]
<1>1. first \in Nat /\ n \in Int
  BY ImageIs, FlashAssumption, Quotient DEF SectorOf
<1>2. EraseRequests(img) = [k \in 1 .. n |-> Erase(k)]
  BY DEF EraseRequests
<1> HIDE DEF first, n
<1>3. ASSUME NEW k \in 1 .. n
      PROVE  Erase(k) \in Requests /\ IsRequest(Erase(k)) /\ ~Leaves(Erase(k))
  <2>1. first + k - 1 \in Nat
    BY <1>1
  <2>2. (first + k - 1) * SectorBytes \in Nat
    BY <2>1, Product, FlashAssumption
  <2> QED
    BY <2>2 DEF Requests, IsRequest, Leaves, ERASE_SECTOR, RESET, EXECUTE
<1> HIDE DEF Erase
<1>4. EraseRequests(img) \in Seq(Requests)
  <2>1. CASE n \in Nat
    BY <1>2, <1>3, <2>1, IsASeq
  <2>2. CASE n \notin Nat
    <3>1. 1 .. n = {}
      BY <1>1, <2>2
    <3>2. DOMAIN EraseRequests(img) = {}
      BY <1>2, <3>1
    <3>3. EraseRequests(img) = <<>>
      BY <1>2, <3>1, <3>2
    <3> QED
      BY <3>3
  <2> QED
    BY <2>1, <2>2
<1> QED
  BY <1>2, <1>3, <1>4

LEMMA PagePlan ==
  ASSUME NEW img \in Images
  PROVE  Plan(PageRequests(img))
<1> DEFINE q == img.data_len \div StepBytes
           Start(k) == (k - 1) * StepBytes
           Size(k) == IF Start(k) + StepBytes <= img.data_len THEN StepBytes
                      ELSE img.data_len - Start(k)
           Data(k) == [i \in 1 .. Size(k) |-> ImageByte(Start(k) + i - 1)]
           Bytes(k) == <<FLASH_WRITE, img.addr + Start(k), Size(k)>> \o Data(k)
           Page(k) == [bytes |-> Bytes(k), replies |-> 1]
<1>1. /\ img.addr \in Nat /\ img.data_len \in Nat /\ img.addr + img.data_len <= FlashBytes
      /\ StepBytes \in Nat \ {0} /\ StepBytes <= PageBytes /\ PageBytes \in Nat
      /\ FlashBytes \in Nat
  BY ImageIs, StepAssumption, FlashAssumption
<1>2. q \in Nat /\ \A k \in Nat : k <= q => k * StepBytes <= img.data_len
  BY <1>1, Quotient
<1>3. PageRequests(img) = [k \in 1 .. q + 1 |-> Page(k)]
  BY DEF PageRequests
<1>4. ASSUME NEW k \in 1 .. q + 1
      PROVE  Page(k) \in Requests /\ IsRequest(Page(k)) /\ ~Leaves(Page(k))
  <2>1. k - 1 \in Nat /\ k - 1 <= q
    BY <1>2
  <2>2. Start(k) \in Nat /\ Start(k) <= img.data_len
    BY <1>1, <1>2, <2>1, Product
  <2> HIDE DEF Start, q
  <2>3. /\ Size(k) \in 0 .. PageBytes
        /\ (img.addr + Start(k)) + Size(k) <= FlashBytes /\ img.addr + Start(k) \in Nat
    BY <1>1, <2>2
  <2>4. Size(k) \in Nat
    BY <1>1, <2>3
  <2> HIDE DEF Size
  <2>5. Data(k) \in Seq(Nat) /\ Len(Data(k)) = Size(k)
    <3>1. \A i \in 1 .. Size(k) : ImageByte(Start(k) + i - 1) \in Nat
      BY <2>2, <2>4 DEF ImageByte
    <3> QED
      BY <2>4, <3>1, IsASeq, LenProperties
  <2> HIDE DEF Data
  <2>6. <<FLASH_WRITE, img.addr + Start(k), Size(k)>> \in Seq(Nat)
    BY <2>3, <2>4 DEF FLASH_WRITE
  <2>7. /\ Bytes(k) \in Seq(Nat) /\ Len(Bytes(k)) = 3 + Size(k)
        /\ Bytes(k)[1] = FLASH_WRITE /\ Bytes(k)[2] = img.addr + Start(k)
        /\ Bytes(k)[3] = Size(k)
    <3> DEFINE head == <<FLASH_WRITE, img.addr + Start(k), Size(k)>>
    <3>1. /\ head \o Data(k) \in Seq(Nat) /\ Len(head \o Data(k)) = Len(head) + Size(k)
          /\ \A i \in 1 .. Len(head) + Size(k) :
               (head \o Data(k))[i] = IF i <= Len(head) THEN head[i] ELSE Data(k)[i - Len(head)]
      BY <2>5, <2>6, ConcatProperties
    <3>2. /\ Len(head) = 3 /\ head[1] = FLASH_WRITE /\ head[2] = img.addr + Start(k)
          /\ head[3] = Size(k)
      OBVIOUS
    <3> HIDE DEF head
    <3>3. \A i \in {1, 2, 3} : i \in 1 .. Len(head) + Size(k) /\ i <= Len(head)
      BY <2>4, <3>2
    <3> QED
      BY <3>1, <3>2, <3>3 DEF head
  <2> HIDE DEF Bytes
  <2> QED
    BY <2>3, <2>7 DEF Requests, IsRequest, Leaves, FLASH_WRITE, RESET, EXECUTE
<1> HIDE DEF Page, q
<1>5. q + 1 \in Nat /\ 1 \in 1 .. q + 1
  BY <1>2
<1>6. PageRequests(img) \in Seq(Requests)
  BY <1>3, <1>4, <1>5, IsASeq
<1>7. DOMAIN PageRequests(img) = 1 .. q + 1
  BY <1>3
<1>8. PageRequests(img) # <<>>
  BY <1>5, <1>7
<1> QED
  BY <1>3, <1>4, <1>6, <1>7, <1>8 DEF Plan

LEMMA WritePlan ==
  ASSUME NEW img \in Images
  PROVE  Plan(EraseRequests(img) \o PageRequests(img))
<1> DEFINE e == EraseRequests(img)
           p == PageRequests(img)
           Fine(r) == IsRequest(r) /\ ~Leaves(r)
<1>1. e \in Seq(Requests) /\ \A k \in DOMAIN e : Fine(e[k])
  BY ErasePlan
<1>2. p \in Seq(Requests) /\ p # <<>> /\ \A k \in DOMAIN p : Fine(p[k])
  BY PagePlan DEF Plan
<1> HIDE DEF e, p, Fine
<1>3. /\ e \o p \in Seq(Requests) /\ Len(e \o p) = Len(e) + Len(p)
      /\ \A i \in 1 .. Len(e) + Len(p) : (e \o p)[i] = IF i <= Len(e) THEN e[i] ELSE p[i - Len(e)]
      /\ Len(e) \in Nat /\ Len(p) \in Nat
      /\ DOMAIN e = 1 .. Len(e) /\ DOMAIN p = 1 .. Len(p)
      /\ DOMAIN (e \o p) = 1 .. Len(e) + Len(p)
  BY <1>1, <1>2, ConcatProperties, LenProperties
<1>4. e \o p # <<>>
  BY <1>1, <1>2, ConcatEqualIffEmpty
<1>5. ASSUME NEW i \in 1 .. Len(e) + Len(p) PROVE Fine((e \o p)[i])
  <2>1. CASE i <= Len(e)
    <3>1. i \in 1 .. Len(e)
      BY <1>3, <2>1
    <3> QED
      BY <1>1, <1>3, <2>1, <3>1
  <2>2. CASE ~(i <= Len(e))
    <3>1. i - Len(e) \in 1 .. Len(p)
      BY <1>3, <2>2
    <3> QED
      BY <1>2, <1>3, <2>2, <3>1
  <2> QED
    BY <2>1, <2>2
<1> QED
  BY <1>3, <1>4, <1>5 DEF Plan, Fine, e, p

(* What a use of the client sends.                                         *)
Uses(purpose, plan) ==
  \/ purpose \in {"write", "erase", "read", "status", "demo"} /\ Plan(plan)
  \/ purpose \in {"reset", "execute"} /\ plan \in {Simple(RESET), Simple(EXECUTE)}

LEMMA UseInStep ==
  ASSUME TypeOK, InStep, NEW purpose, NEW plan, Use(purpose, plan), Uses(purpose, plan)
  PROVE  InStep' /\ requests' \in Seq(Requests) /\ client' = purpose
<1>1. /\ client = "ready" /\ poked /\ poked' /\ client' = purpose /\ requests' = plan
      /\ UNCHANGED <<awaited, rx, to_board, to_client, mode>>
  BY DEF Use, boot_vars, main_vars, TypeOK
<1>2. Planned /\ requests = <<>> /\ awaited = 0 /\ Between /\ mode = "main"
  BY <1>1 DEF InStep, Planned, Serving, Between, Leaving
<1>3. /\ plan # <<>> /\ plan \in Seq(Requests)
      /\ purpose \notin {"off", "poke", "ready"}
  <2>1. CASE Plan(plan)
    BY <2>1 DEF Plan, Uses
  <2>2. CASE ~Plan(plan)
    BY <2>2, SimplePlan DEF Uses
  <2> QED
    BY <2>1, <2>2
<1>4. Planned'
  <2>1. CASE purpose \in {"write", "erase", "read", "status", "demo"} /\ Plan(plan)
    BY <1>1, <1>3, <2>1 DEF Planned, Leaving, Plan
  <2>2. CASE purpose \in {"reset", "execute"} /\ plan \in {Simple(RESET), Simple(EXECUTE)}
    <3>1. PICK c \in {RESET, EXECUTE} : plan = Simple(c)
      BY <2>2
    <3>2. Len(plan) = 1 /\ DOMAIN plan = {1} /\ IsRequest(plan[1]) /\ Leaves(plan[1])
      BY <3>1, SimplePlan
    <3> QED
      BY <1>1, <1>3, <2>2, <3>2 DEF Planned, Leaving
  <2> QED
    BY <2>1, <2>2 DEF Uses
<1>5. Between'
  BY <1>1, <1>2, <1>3 DEF Between, Pending
<1> QED
  BY <1>1, <1>2, <1>3, <1>4, <1>5 DEF InStep

LEMMA UserUses ==
  ASSUME InTime, TypeOK, UseFlashWrite \/ UseErase \/ UseOther
  PROVE  \E purpose, plan : Use(purpose, plan) /\ Uses(purpose, plan)
<1>1. CASE UseFlashWrite
  <2>1. PICK img \in Images : Use("write", EraseRequests(img) \o PageRequests(img))
    BY <1>1, Zenon DEF UseFlashWrite
  <2>2. Uses("write", EraseRequests(img) \o PageRequests(img))
    BY WritePlan DEF Uses
  <2> QED
    BY <2>1, <2>2, Zenon
<1>2. CASE UseOther
  <2>1. CASE image # NoImage /\ \E n \in ReadLengths : Use("read", ReadRequest(image.addr, n))
    <3>1. PICK n \in ReadLengths : Use("read", ReadRequest(image.addr, n))
      BY <2>1
    <3>2. image.addr \in Nat
      BY <2>1, ImageIs DEF TypeOK
    <3>3. n \in 1 .. FlashBytes /\ n <= SecondBytes
      BY ReadAssumption DEF InTime
    <3>4. Uses("read", ReadRequest(image.addr, n))
      BY <3>2, <3>3, ReadPlan DEF Uses
    <3> QED
      BY <3>1, <3>4, Zenon
  <2>2. CASE Use("status", Simple(STATUS_BYTE)) \/ Use("demo", Simple(DEMO))
    <3>1. Plan(Simple(STATUS_BYTE)) /\ Plan(Simple(DEMO))
      BY SimplePlan DEF Plan, STATUS_BYTE, DEMO, RESET, EXECUTE
    <3>2. Uses("status", Simple(STATUS_BYTE)) /\ Uses("demo", Simple(DEMO))
      BY <3>1 DEF Uses
    <3> QED
      BY <2>2, <3>2, Zenon
  <2>3. CASE Use("reset", Simple(RESET)) \/ Use("execute", Simple(EXECUTE))
    <3>1. Uses("reset", Simple(RESET)) /\ Uses("execute", Simple(EXECUTE))
      BY DEF Uses
    <3> QED
      BY <2>3, <3>1, Zenon
  <2> QED
    BY <1>2, <2>1, <2>2, <2>3, Zenon DEF UseOther
<1>3. CASE UseErase
  <2>1. PICK a \in EraseAddrs : Use("erase", <<[bytes |-> <<ERASE_SECTOR, a>>, replies |-> 1]>>)
    BY <1>3, Zenon DEF UseErase
  <2>2. Uses("erase", <<[bytes |-> <<ERASE_SECTOR, a>>, replies |-> 1]>>)
    BY SimpleErase DEF Uses
  <2> QED
    BY <2>1, <2>2, Zenon
<1> QED
  BY <1>1, <1>2, <1>3

-----------------------------------------------------------------------------
(* A client that has not been answered yet, and no client.                 *)

LEMMA PokePlan ==
  /\ PokeRequest \in Seq(Requests) /\ PokeRequest # <<>> /\ Tail(PokeRequest) = <<>>
  /\ Head(PokeRequest).bytes = <<POKE>> /\ Head(PokeRequest).replies = 1
  /\ DOMAIN PokeRequest = {1} /\ Len(PokeRequest) = 1 /\ IsRequest(PokeRequest[1])
  /\ ~Leaves(PokeRequest[1])
<1>1. /\ DOMAIN PokeRequest = {1} /\ Len(PokeRequest) = 1 /\ IsRequest(PokeRequest[1])
      /\ PokeRequest \in Seq(Requests) /\ PokeRequest # <<>> /\ ~Leaves(PokeRequest[1])
  BY SimplePlan DEF PokeRequest, POKE, RESET, EXECUTE
<1> QED
  BY <1>1 DEF PokeRequest, Simple

LEMMA UsePokeInStep ==
  ASSUME TypeOK, InStep, UsePoke
  PROVE  InStep' /\ requests' \in Seq(Requests) /\ client' = "poke"
<1>1. /\ client = "ready" /\ client' = "poke" /\ requests' = PokeRequest /\ poked' = FALSE
      /\ UNCHANGED <<awaited, rx, to_board, to_client, mode>>
  BY DEF UsePoke, boot_vars, main_vars
<1>2. requests = <<>> /\ awaited = 0 /\ Between /\ mode = "main"
  BY <1>1 DEF InStep, Planned, Serving, Between, Leaving
<1>3. Planned'
  BY <1>1, PokePlan DEF Planned, Leaving
<1>4. Between'
  BY <1>1, <1>2, PokePlan DEF Between, Pending
<1> QED
  BY <1>1, <1>2, <1>3, <1>4, PokePlan DEF InStep

LEMMA StartClientKeeps ==
  ASSUME TypeOK, SInv, StartClient
  PROVE  SInv' /\ requests' \in Seq(Requests)
<1>1. /\ Off /\ client' = "poke" /\ requests' = PokeRequest /\ poked' = FALSE
      /\ to_client' = <<>> /\ UNCHANGED <<trusted, awaited, to_board, mode, rx>>
  BY DEF SInv, StartClient, main_vars
<1>2. CASE trusted
  <2>1. mode' = "main" /\ awaited' = 0 /\ rx' = <<>> /\ to_board' = <<>>
    BY <1>1, <1>2 DEF Off
  <2>2. Pending' = <<>>
    BY <2>1 DEF Pending
  <2>3. Between'
    BY <1>1, <2>1, <2>2, PokePlan DEF Between
  <2>4. Planned'
    BY <1>1, PokePlan DEF Planned, Leaving
  <2>5. InStep'
    BY <2>1, <2>3, <2>4 DEF InStep
  <2>6. client' # "off" /\ trusted'
    BY <1>1, <1>2
  <2> QED
    BY <1>1, <2>5, <2>6, PokePlan DEF SInv
<1>3. CASE ~trusted
  <2>1. mode' # "application" => Pending' = <<>>
    BY <1>1 DEF Off, Pending
  <2>2. Unsure'
    BY <1>1, <2>1 DEF Off, Unsure
  <2> QED
    BY <1>1, <1>3, <2>2, PokePlan DEF SInv
<1> QED
  BY <1>2, <1>3

LEMMA ExitKeeps ==
  ASSUME TypeOK, SInv, Exit
  PROVE  SInv'
<1>1. /\ client = "ready" /\ to_board = <<>> /\ (rx = <<>> \/ mode = "application")
      /\ client' = "off" /\ trusted' = poked /\ poked' = FALSE
      /\ UNCHANGED <<requests, awaited, to_board, rx, mode>>
  BY DEF Exit, client_vars, boot_vars, main_vars
<1>2. /\ requests = <<>> /\ awaited = 0 /\ mode \in {"auto", "main", "application"}
      /\ poked => mode = "main"
  <2>1. CASE trusted
    BY <1>1, <2>1 DEF SInv, InStep, Planned, Serving, Between, Leaving
  <2>2. CASE ~trusted
    BY <1>1, <2>2 DEF SInv, Unsure
  <2> QED
    BY <2>1, <2>2
<1> QED
  BY <1>1, <1>2 DEF SInv, Off

LEMMA BoardOff ==
  ASSUME Off, client = "off", Bootloader \/ AutoBoot, UNCHANGED <<user_vars, client_vars>>
  PROVE  SInv'
<1>1. AutoBoot
  BY DEF Off, Bootloader, Poked, Command, GetAddr, GetLen, GetData, EraseEnable, EraseCommand,
         Erasing, WriteNext, WriteCommand, Writing, Written, Read, getc
<1>2. mode = "auto" /\ mode' = "application"
  BY <1>1 DEF AutoBoot
<1> QED
  BY <1>2 DEF Off, SInv, user_vars, client_vars

LEMMA BoardUnsure ==
  ASSUME TypeOK, Unsure, Bootloader \/ AutoBoot, UNCHANGED <<user_vars, client_vars>>
  PROVE  Unsure'
<1>1. UNCHANGED <<client, requests, awaited, poked, to_board>>
  BY DEF user_vars, client_vars
<1>2. Poked \/ AutoBoot \/ Command
  BY DEF Unsure, Bootloader, GetAddr, GetLen, GetData, EraseEnable, EraseCommand,
         Erasing, WriteNext, WriteCommand, Writing, Written, Read
<1>3. CASE Poked
  <2>1. mode' = "main" /\ UNCHANGED rx /\ mode = "auto" /\ rx # <<>>
    BY <1>3 DEF Poked
  <2>2. Pending # <<>> /\ Pending' = Pending
    BY <1>1, <2>1, LineOK, NonePending DEF Pending
  <2> QED
    BY <1>1, <2>1, <2>2 DEF Unsure
<1>4. CASE AutoBoot
  <2>1. mode = "auto" /\ mode' = "application" /\ UNCHANGED to_client
    BY <1>4 DEF AutoBoot
  <2> QED
    BY <1>1, <2>1 DEF Unsure
<1>5. CASE Command
  <2>1. mode = "main" /\ rx # <<>> /\ rx' = <<>>
    BY <1>5 DEF Command, getc
  <2>2. /\ Pending # <<>> /\ Head(Pending) = Head(rx) /\ Pending' = Tail(Pending)
    BY <1>1, <2>1, LineOK, TakesFirst
  <2>3. Pending = <<POKE>>
    BY <2>1, <2>2 DEF Unsure
  <2>4. Head(rx) = POKE /\ Pending' = <<>>
    BY <2>2, <2>3
  <2>5. mode' = "main"
    BY <1>5, <2>4
       DEF Command, POKE, RESET, EXECUTE, FLASH_WRITE, FLASH_READ, ERASE_SECTOR
  <2> QED
    BY <1>1, <2>1, <2>3, <2>4, <2>5 DEF Unsure
<1> QED
  BY <1>2, <1>3, <1>4, <1>5

LEMMA WriteUnsure ==
  ASSUME TypeOK, Unsure, Write
  PROVE  Unsure'
<1>1. /\ requests = PokeRequest /\ client = "poke" /\ awaited = 0 /\ ~poked
      /\ to_client = <<>> /\ (mode # "application" => rx = <<>> /\ to_board = <<>>)
  BY LineOK, NonePending DEF Write, Unsure
<1>2. /\ to_board' = to_board \o <<POKE>> /\ awaited' = 1 /\ requests' = requests
      /\ UNCHANGED <<mode, rx, to_client, client, poked>>
  <2>1. /\ to_board' = to_board \o Head(requests).bytes /\ awaited' = Head(requests).replies
        /\ requests' = IF awaited' = 0 THEN Tail(requests) ELSE requests
    BY DEF Write
  <2>2. Head(requests).bytes = <<POKE>> /\ Head(requests).replies = 1
    BY <1>1, PokePlan
  <2>3. UNCHANGED <<mode, rx, to_client, client, poked>>
    BY DEF Write, boot_vars, main_vars, user_vars
  <2>4. to_board' = to_board \o <<POKE>> /\ awaited' = 1
    BY <2>1, <2>2
  <2>5. requests' = requests
    BY <2>1, <2>4
  <2> QED
    BY <2>3, <2>4, <2>5
<1>3. mode # "application" => Pending' = <<POKE>>
  BY <1>1, <1>2 DEF Pending
<1> QED
  BY <1>1, <1>2, <1>3 DEF Unsure

LEMMA ReadReplyUnsure ==
  ASSUME TypeOK, Unsure, ReadReply
  PROVE  Unsure'
<1>1. /\ requests = PokeRequest /\ client = "poke" /\ awaited = 1 /\ mode = "main"
  BY DEF ReadReply, Unsure
<1>2. /\ awaited' = 0 /\ requests' = <<>> /\ UNCHANGED <<mode, rx, to_board, client>>
  BY <1>1, PokePlan DEF ReadReply, Done, main_vars
<1>3. Pending' = Pending
  BY <1>2 DEF Pending
<1> QED
  BY <1>1, <1>2, <1>3 DEF Unsure

LEMMA TimeoutUnsure ==
  ASSUME TypeOK, Unsure, ReadTimeout
  PROVE  Unsure' /\ UNCHANGED <<client, trusted>>
<1>1. /\ requests = PokeRequest /\ client = "poke" /\ awaited = 1
  BY FlashAssumption DEF ReadTimeout, Unsure, TypeOK
<1>2. /\ awaited' = 0 /\ requests' = <<>>
      /\ UNCHANGED <<mode, rx, to_board, to_client, client, poked, trusted>>
  <2>1. Head(requests).bytes[1] \notin {FLASH_READ, STATUS_BYTE}
    BY <1>1, PokePlan DEF POKE, FLASH_READ, STATUS_BYTE
  <2> QED
    BY <1>1, <2>1, PokePlan DEF ReadTimeout, boot_vars, main_vars
<1>3. Pending' = Pending
  BY <1>2 DEF Pending
<1> QED
  BY <1>1, <1>2, <1>3 DEF Unsure

LEMMA FinishedUnsure ==
  ASSUME TypeOK, Unsure, Finished
  PROVE  Unsure'
<1>1. /\ client = "poke" /\ client' = "ready" /\ requests = <<>> /\ awaited = 0
      /\ UNCHANGED <<requests, awaited, mode, rx, to_board, to_client>>
      /\ poked' = poked
  <2>1. client = "poke" /\ requests = <<>> /\ client' = "ready"
    BY DEF Finished, Unsure
  <2>2. awaited = 0
    BY <2>1, PokePlan DEF Unsure
  <2>3. UNCHANGED <<requests, awaited, mode, rx, to_board, to_client>>
    BY DEF Finished, client_vars, boot_vars, main_vars
  <2>4. poked' = poked
    BY <2>1 DEF Finished, TypeOK
  <2> QED
    BY <2>1, <2>2, <2>3, <2>4
<1>2. Pending' = Pending
  BY <1>1 DEF Pending
<1> QED
  BY <1>1, <1>2 DEF Unsure

LEMMA DeliverUnsure ==
  ASSUME TypeOK, Unsure, Deliver
  PROVE  Unsure'
<1>1. /\ to_board # <<>> /\ to_board' = Tail(to_board) /\ Arrive(Head(to_board))
      /\ UNCHANGED <<requests, awaited, client, poked, mode, to_client>>
  BY DEF Deliver, Arrive, main_vars, user_vars
<1>2. CASE mode = "application"
  BY <1>1, <1>2 DEF Unsure
<1>3. CASE mode # "application"
  <2>1. rx = <<>> /\ rx' = <<Head(to_board)>>
    BY <1>1, <1>3 DEF Arrive, Deaf, Unsure
  <2>2. Pending' = Pending
    BY <1>1, <2>1, LineOK, DeliveredStays
  <2> QED
    BY <1>1, <1>3, <2>2 DEF Unsure
<1> QED
  BY <1>2, <1>3

-----------------------------------------------------------------------------
(* Types.                                                                  *)

LEMMA Remainder ==
  ASSUME NEW a \in Nat, NEW b \in Nat \ {0}
  PROVE  /\ a % b \in 0 .. b - 1 /\ a % b \in Nat /\ a = (a \div b) * b + (a % b)
         /\ a \div b \in Nat /\ (\A k \in Nat : a < k * b => a \div b < k)
OBVIOUS

(* A page lies in the memory.                                              *)
LEMMA PageInFlash ==
  ASSUME NEW adr \in Nat, NEW i \in Nat
  PROVE  ((adr % FlashBytes) \div PageBytes) * PageBytes + ((adr + i) % PageBytes)
            \in FlashAddresses
<1> DEFINE a == adr % FlashBytes
           q == a \div PageBytes
           r == (adr + i) % PageBytes
           m == FlashBytes \div SectorBytes
           p == SectorBytes \div PageBytes
<1>1. /\ FlashBytes \in Nat \ {0} /\ SectorBytes \in Nat \ {0} /\ PageBytes \in Nat \ {0}
      /\ FlashBytes % SectorBytes = 0 /\ SectorBytes % PageBytes = 0
  BY FlashAssumption
<1>2. m \in Nat /\ p \in Nat /\ FlashBytes = m * SectorBytes /\ SectorBytes = p * PageBytes
  <2>1. FlashBytes = m * SectorBytes + (FlashBytes % SectorBytes) /\ m \in Nat
    BY <1>1, Remainder
  <2>2. SectorBytes = p * PageBytes + (SectorBytes % PageBytes) /\ p \in Nat
    BY <1>1, Remainder
  <2>3. m * SectorBytes \in Nat /\ p * PageBytes \in Nat
    BY <1>1, <2>1, <2>2, Product
  <2> QED
    BY <1>1, <2>1, <2>2, <2>3
<1>3. a \in Nat /\ a < FlashBytes
  BY <1>1, Remainder
<1>4. adr + i \in Nat /\ r \in 0 .. PageBytes - 1
  BY <1>1, Remainder
<1> HIDE DEF a, r, m, p
<1>5. m * p \in Nat /\ FlashBytes = (m * p) * PageBytes
  <2>1. \A x, y, z \in Nat : x * (y * z) = (x * y) * z
    OBVIOUS
  <2>2. m * p \in Nat
    BY <1>2, Product
  <2>3. m * (p * PageBytes) = (m * p) * PageBytes
    BY <1>1, <1>2, <2>1
  <2>4. FlashBytes = m * (p * PageBytes)
    BY <1>2
  <2> QED
    BY <2>2, <2>3, <2>4
<1>6. q \in Nat /\ q < m * p
  BY <1>1, <1>3, <1>5, Remainder
<1> HIDE DEF q
<1>7. (q + 1) * PageBytes <= FlashBytes /\ (q + 1) * PageBytes = q * PageBytes + PageBytes
  <2>1. q + 1 \in Nat /\ q + 1 <= m * p
    BY <1>5, <1>6
  <2>2. (q + 1) * PageBytes <= (m * p) * PageBytes
    BY <1>1, <1>5, <2>1, Product
  <2>3. \A x, y \in Nat : (x + 1) * y = x * y + y
    OBVIOUS
  <2> QED
    BY <1>1, <1>5, <1>6, <2>2, <2>3
<1>8. q * PageBytes \in Nat
  BY <1>1, <1>6, Product
<1>9. q * PageBytes + r \in 0 .. FlashBytes - 1
  <2> DEFINE x == q * PageBytes
  <2> HIDE DEF x
  <2>1. x + PageBytes <= FlashBytes /\ x \in Nat
    BY <1>7, <1>8 DEF x
  <2>2. x + r \in 0 .. FlashBytes - 1
    BY <1>1, <1>4, <2>1
  <2> QED
    BY <2>2 DEF x
<1> QED
  BY <1>9 DEF FlashAddresses, q, a, r

LEMMA EnableType ==
  ASSUME FlashTypeOK, WriteEnable
  PROVE  FlashTypeOK'
BY DEF FlashTypeOK, WriteEnable, WIP

LEMMA ChangeType ==
  ASSUME FlashTypeOK, NEW new, Change(new), DOMAIN new \subseteq FlashAddresses,
         \A a \in DOMAIN new : new[a] \in Nat
  PROVE  FlashTypeOK'
BY DEF FlashTypeOK, Change

LEMMA EraseType ==
  ASSUME FlashTypeOK, NEW adr \in Nat, SectorErase(adr)
  PROVE  FlashTypeOK'
<1> DEFINE D == {x \in FlashAddresses : SectorOf(x) = SectorOf(adr % FlashBytes)}
<1>1. Change([a \in D |-> Erased])
  BY DEF SectorErase
<1>2. D \subseteq FlashAddresses /\ Erased \in Nat
  BY DEF Erased
<1> HIDE DEF D
<1> QED
  BY <1>1, <1>2, ChangeType

LEMMA ProgramType ==
  ASSUME FlashTypeOK, NEW adr \in Nat, NEW n \in Nat, NEW byte,
         \A i \in 0 .. n - 1 : byte[i] \in Nat, PageProgram(adr, n, byte)
  PROVE  FlashTypeOK'
<1> DEFINE page == ((adr % FlashBytes) \div PageBytes) * PageBytes
           Place(i) == page + ((adr + i) % PageBytes)
           IndexAt(a) == CHOOSE i \in 0 .. n - 1 : Place(i) = a
           D == {Place(i) : i \in 0 .. n - 1}
           new == [a \in D |-> IF cells[a] = Erased THEN byte[IndexAt(a)] ELSE Junk]
<1>1. Change(new)
  BY DEF PageProgram
<1>2. D \subseteq FlashAddresses
  <2> SUFFICES ASSUME NEW i \in 0 .. n - 1 PROVE Place(i) \in FlashAddresses
    OBVIOUS
  <2>1. i \in Nat
    OBVIOUS
  <2> QED
    BY <2>1, PageInFlash
<1> HIDE DEF Place
<1>3. \A a \in D : IndexAt(a) \in 0 .. n - 1
  OBVIOUS
<1> HIDE DEF D, IndexAt
<1>4. \A a \in D : new[a] \in Nat
  BY <1>3 DEF Junk
<1> QED
  BY <1>1, <1>2, <1>4, ChangeType

LEMMA FinishType ==
  ASSUME FlashTypeOK, Finish \/ Fail
  PROVE  FlashTypeOK'
<1>1. DOMAIN Idle = {}
  BY IdleIsIdle
<1>2. changing' = Idle /\ WEL' = FALSE /\ refused' = refused
  BY DEF Finish, Fail
<1>3. cells' \in [FlashAddresses -> Nat]
  BY DEF FlashTypeOK, Finish, Fail, Junk
<1> QED
  BY <1>1, <1>2, <1>3 DEF FlashTypeOK

(* While the bootloader is busy there is a client, in step with it.        *)
LEMMA Busy ==
  ASSUME TypeOK, SInv, mode \notin {"auto", "main", "application"}
  PROVE  InStep /\ Planned /\ Serving /\ ~Answered /\ ~Ignored /\ requests # <<>>
<1>1. ~Unsure /\ ~Off
  BY DEF Unsure, Off
<1>2. InStep
  BY <1>1 DEF SInv
<1>3. ~Between /\ ~Answered /\ ~Ignored
  BY AfterIs DEF Between, Answered, Ignored
<1> QED
  BY <1>2, <1>3 DEF InStep, Serving

BootTypes ==
  /\ mode \in {"auto", "main", "application", "addr", "len", "data", "erase",
               "erase_command", "erasing", "write", "write_command", "writing", "read"}
  /\ rx \in Seq(Nat) /\ Len(rx) <= 1 /\ to_client \in Seq(Nat)
  /\ console_cmd \in Nat /\ addr \in Nat /\ len \in 0 .. FlashBytes
  /\ data_page \in Seq(Nat) /\ Len(data_page) <= PageBytes /\ data_idx \in 0 .. len

UserTypes ==
  /\ client \in {"off", "poke", "ready", "write", "erase", "read", "status", "demo", "reset",
                 "execute"}
  /\ poked \in BOOLEAN /\ trusted \in BOOLEAN /\ image \in Images \cup {NoImage}
  /\ before \in [FlashAddresses -> Nat]

ClientTypes ==
  /\ awaited \in 0 .. FlashBytes /\ to_board \in Seq(Nat)
  /\ requests \in Seq(Requests)
  /\ received \in Seq(Nat) /\ acked \subseteq FlashAddresses

LEMMA Types ==
  /\ TypeOK <=> /\ FlashTypeOK /\ BootTypes /\ UserTypes /\ ClientTypes
                /\ failures \in 0 .. MaxFailures
  /\ TypeOK' <=> /\ FlashTypeOK' /\ BootTypes' /\ UserTypes' /\ ClientTypes'
                 /\ failures' \in 0 .. MaxFailures
BY DEF TypeOK, BootTypeOK, BootTypes, UserTypes, ClientTypes, Requests

LEMMA HeadOfRx ==
  ASSUME BootTypes, getc
  PROVE  Head(rx) \in Nat /\ rx' = <<>> /\ rx' \in Seq(Nat) /\ Len(rx') = 0
<1>1. rx \in Seq(Nat) /\ rx # <<>> /\ rx' = <<>>
  BY DEF BootTypes, getc
<1> QED
  BY <1>1, HeadTailProperties

LEMMA Puts ==
  ASSUME BootTypes, NEW byte \in Nat, putc(byte)
  PROVE  to_client' \in Seq(Nat)
BY DEF BootTypes, putc

LEMMA LenTypes ==
  ASSUME TypeOK, SInv, GetLen, UNCHANGED to_board
  PROVE  len' \in 0 .. FlashBytes
<1> DEFINE b == Request.bytes
<1>1. mode = "len" /\ len' = Head(rx) /\ getc
  BY DEF GetLen
<1>2. Planned /\ Serving /\ requests # <<>>
  BY <1>1, Busy
<1>3. Hearing /\ Head(rx) = b[3] /\ 2 < Len(b)
  BY <1>1, <1>2, HearsNext DEF Listens, Heard, Hearing
<1>4. b \in Seq(Nat) /\ IsRequest(Request)
  BY <1>2, RequestIs
<1>6. CASE b[1] = FLASH_READ
  BY <1>1, <1>3, <1>4, <1>6, KindsOfRequest, FlashAssumption
<1>7. CASE b[1] # FLASH_READ
  <2>1. 2 < Len(b) => b[1] \in {FLASH_READ, FLASH_WRITE}
    BY <1>4, LongRequest
  <2>2. b[1] = FLASH_WRITE
    BY <1>3, <1>7, <2>1, Zenon
  <2>3. b[3] \in 0 .. PageBytes /\ b[2] + b[3] <= FlashBytes
    BY <1>4, <2>2, KindsOfRequest
  <2>4. b[2] \in Nat
    <3>1. 2 \in 1 .. Len(b)
      BY <1>3, <1>4, LenProperties
    <3> QED
      BY <1>4, <3>1, ElementOfSeq
  <2> QED
    BY <1>1, <1>3, <2>3, <2>4, FlashAssumption
<1> QED
  BY <1>6, <1>7

LEMMA BoardTypes ==
  ASSUME TypeOK, SInv, Bootloader \/ AutoBoot, UNCHANGED to_board
  PROVE  FlashTypeOK' /\ BootTypes'
<1>1. FlashTypeOK /\ BootTypes
  BY Types
<1>2. ASSUME UNCHANGED flash_vars PROVE FlashTypeOK'
  BY <1>1, <1>2 DEF FlashTypeOK, flash_vars
<1>3. CASE Poked
  BY <1>1, <1>2, <1>3, Puts DEF Poked, BootTypes
<1>4. CASE AutoBoot
  BY <1>1, <1>2, <1>4 DEF AutoBoot, BootTypes
<1>5. CASE Command
  <2>1. Head(rx) \in Nat /\ rx' \in Seq(Nat) /\ Len(rx') = 0
    BY <1>1, <1>5, HeadOfRx DEF Command
  <2>2. (IF WEL THEN 2 ELSE 0) + (IF WIP THEN 1 ELSE 0) \in Nat
    OBVIOUS
  <2>3. to_client' \in Seq(Nat)
    <3>1. \/ putc(Head(rx))
          \/ putc((IF WEL THEN 2 ELSE 0) + (IF WIP THEN 1 ELSE 0))
          \/ UNCHANGED to_client
      BY <1>5, Zenon DEF Command
    <3>2. CASE UNCHANGED to_client
      BY <1>1, <3>2 DEF BootTypes
    <3> QED
      BY <1>1, <2>1, <2>2, <3>1, <3>2, Puts
  <2>4. mode' \in {"auto", "application", "addr", "main"}
    BY <1>5, Zenon DEF Command
  <2>5. console_cmd' \in Nat /\ UNCHANGED <<addr, len, data_page, data_idx, flash_vars>>
    BY <1>5, <2>1 DEF Command
  <2> QED
    BY <1>1, <1>2, <2>1, <2>3, <2>4, <2>5 DEF BootTypes
<1>6. CASE GetAddr
  <2>1. Head(rx) \in Nat /\ rx' \in Seq(Nat) /\ Len(rx') = 0
    BY <1>1, <1>6, HeadOfRx DEF GetAddr
  <2> QED
    BY <1>1, <1>2, <1>6, <2>1 DEF GetAddr, BootTypes
<1>7. CASE GetLen
  <2>1. rx' \in Seq(Nat) /\ Len(rx') = 0 /\ len' \in 0 .. FlashBytes
    BY <1>1, <1>7, HeadOfRx, LenTypes DEF GetLen
  <2>2. data_page' = <<>> /\ data_idx' = 0 /\ mode' \in {"main", "read", "write", "data"}
    BY <1>7 DEF GetLen
  <2>3. data_idx' \in 0 .. len' /\ data_page' \in Seq(Nat) /\ Len(data_page') <= PageBytes
    BY <2>1, <2>2, FlashAssumption
  <2> QED
    BY <1>1, <1>2, <1>7, <2>1, <2>2, <2>3 DEF GetLen, BootTypes
<1>8. CASE GetData
  <2>1. Head(rx) \in Nat /\ rx' \in Seq(Nat) /\ Len(rx') = 0
    BY <1>1, <1>8, HeadOfRx DEF GetData
  <2>2. mode = "data" /\ rx # <<>> /\ data_page \in Seq(Nat) /\ rx \in Seq(Nat)
    BY <1>1, <1>8 DEF GetData, getc, BootTypes
  <2>3. Serving /\ Planned /\ Hearing /\ requests # <<>>
    BY <2>2, Busy DEF Serving, Working, Works, Sending
  <2>4. /\ Request.bytes \in Seq(Nat) /\ IsRequest(Request)
        /\ len = Request.bytes[3] /\ Len(data_page) < len
        /\ 3 + Len(data_page) < Len(Request.bytes)
    BY <2>2, <2>3, RequestIs DEF Hearing, Heard
  <2>5. Len(data_page) \in Nat /\ Len(Request.bytes) \in Nat
    BY <2>2, <2>4, LenProperties
  <2>6. len \in 0 .. PageBytes
    <3>1. 3 < Len(Request.bytes)
      BY <2>4, <2>5
    <3>2. 3 < Len(Request.bytes) => Request.bytes[1] = FLASH_WRITE
      BY <2>4, LongRequest
    <3>3. Request.bytes[1] = FLASH_WRITE
      BY <3>1, <3>2
    <3> QED
      BY <2>4, <3>3, KindsOfRequest
  <2>7. Append(data_page, Head(rx)) \in Seq(Nat) /\
        Len(Append(data_page, Head(rx))) = Len(data_page) + 1
    BY <2>1, <2>2, AppendProperties
  <2>8. data_page' \in Seq(Nat) /\ Len(data_page') <= PageBytes
    <3>1. \A l, n, p \in Nat : n < l /\ l <= p => n + 1 <= p
      OBVIOUS
    <3>2. len \in Nat /\ PageBytes \in Nat /\ len <= PageBytes
      BY <2>6, FlashAssumption
    <3>3. Len(data_page) + 1 <= PageBytes
      BY <2>4, <2>5, <3>1, <3>2
    <3> QED
      BY <1>8, <2>7, <3>3 DEF GetData
  <2>9. mode' \in {"write", "data"} /\ UNCHANGED <<to_client, console_cmd, addr, len, data_idx, flash_vars>>
    BY <1>8 DEF GetData
  <2> QED
    BY <1>1, <1>2, <2>1, <2>8, <2>9 DEF BootTypes
<1>9. CASE EraseEnable
  BY <1>1, <1>9, EnableType DEF EraseEnable, BootTypes
<1>10. CASE EraseCommand
  BY <1>1, <1>10, EraseType DEF EraseCommand, BootTypes
<1>11. CASE Erasing
  BY <1>1, <1>2, <1>11, Puts DEF Erasing, BootTypes
<1>12. CASE WriteNext
  BY <1>1, <1>12, EnableType DEF WriteNext, BootTypes
<1>13. CASE WriteCommand
  <2> DEFINE byte == [i \in 0 .. ChunkBytes - 1 |->
                        IF data_idx + i < len THEN data_page[data_idx + i + 1] ELSE Junk]
  <2>1. mode = "write_command" /\ PageProgram(addr + data_idx, ChunkBytes, byte)
    BY <1>13 DEF WriteCommand
  <2>2. Serving /\ Working /\ Len(data_page) = len
    BY <2>1, Busy DEF Serving, Working, Hearing, Listens, Sending
  <2>3. /\ addr + data_idx \in Nat /\ ChunkBytes \in Nat /\ len \in Nat /\ data_idx \in 0 .. len
        /\ data_page \in Seq(Nat) /\ data_idx \in Nat
    BY <1>1, FlashAssumption, ChunkAssumption DEF BootTypes
  <2>4. \A i \in 0 .. ChunkBytes - 1 : byte[i] \in Nat
    <3> SUFFICES ASSUME NEW i \in 0 .. ChunkBytes - 1, data_idx + i < len
                 PROVE  data_page[data_idx + i + 1] \in Nat
      BY DEF Junk
    <3>1. data_idx + i + 1 \in 1 .. Len(data_page)
      BY <2>2, <2>3
    <3> QED
      BY <2>3, <3>1, ElementOfSeq
  <2> HIDE DEF byte
  <2>5. FlashTypeOK'
    BY <1>1, <2>1, <2>3, <2>4, ProgramType
  <2>6. data_idx' = (IF data_idx + ChunkBytes < len THEN data_idx + ChunkBytes ELSE len)
    BY <1>13 DEF WriteCommand
  <2>7. data_idx' \in 0 .. len
    BY <2>3, <2>6
  <2> QED
    BY <1>1, <1>13, <2>5, <2>7 DEF WriteCommand, BootTypes
<1>14. CASE Writing
  BY <1>1, <1>2, <1>14 DEF Writing, BootTypes
<1>15. CASE Written
  BY <1>1, <1>2, <1>15, Puts DEF Written, BootTypes
<1>16. CASE Read
  <2>1. mode = "read" /\ data_idx' = data_idx + 1
    BY <1>16 DEF Read
  <2>2. Serving /\ Sending /\ data_idx < len
    BY <2>1, Busy DEF Serving, Working, Works, Hearing, Listens, Sending
  <2>3. len \in Nat /\ data_idx \in Nat /\ addr \in Nat
    BY <1>1, FlashAssumption DEF BootTypes
  <2>4. data_idx' \in 0 .. len
    BY <2>1, <2>2, <2>3
  <2>5. cells[(addr + data_idx) % FlashBytes] \in Nat
    <3>1. (addr + data_idx) % FlashBytes \in FlashAddresses
      BY <2>3, FlashAssumption, Remainder DEF FlashAddresses
    <3> QED
      BY <1>1, <3>1 DEF FlashTypeOK
  <2>6. to_client' \in Seq(Nat)
    BY <1>1, <1>16, <2>5, Puts DEF Read
  <2>7. mode' \in {"read", "main"} /\ UNCHANGED <<rx, console_cmd, addr, len, data_page, flash_vars>>
    BY <1>16 DEF Read
  <2> QED
    BY <1>1, <1>2, <2>4, <2>6, <2>7 DEF BootTypes
<1> QED
  BY <1>3, <1>4, <1>5, <1>6, <1>7, <1>8, <1>9, <1>10, <1>11, <1>12, <1>13, <1>14, <1>15, <1>16
     DEF Bootloader

LEMMA Awaiting ==
  ASSUME TypeOK, SInv, awaited > 0
  PROVE  requests # <<>> /\ awaited # 0 /\ client # "off"
<1>1. awaited # 0
  BY FlashAssumption DEF TypeOK
<1>2. client # "off"
  BY <1>1 DEF SInv, Off
<1>3. CASE InStep
  BY <1>1, <1>2, <1>3 DEF InStep, Serving
<1>4. CASE Unsure
  BY <1>1, <1>2, <1>4, PokePlan DEF Unsure
<1>5. InStep \/ Unsure
  BY <1>2 DEF SInv
<1> QED
  BY <1>1, <1>2, <1>3, <1>4, <1>5

LEMMA NextRequest ==
  ASSUME TypeOK, SInv, requests # <<>>
  PROVE  /\ Head(requests).bytes \in Seq(Nat) /\ Head(requests).replies \in 1 .. FlashBytes
         /\ PageOf(Head(requests)) \subseteq FlashAddresses
         /\ Tail(requests) \in Seq(Requests)
<1> DEFINE r == Head(requests)
           b == r.bytes
<1>1. requests \in Seq(Requests)
  BY Types DEF ClientTypes
<1>2. r \in Requests /\ Tail(requests) \in Seq(Requests)
  BY <1>1, HeadTailProperties
<1>3. b \in Seq(Nat)
  BY <1>2 DEF Requests
<1>4. IsRequest(r)
  <2>1. ~Off /\ client # "off"
    BY DEF Off, SInv
  <2>2. CASE InStep
    BY <2>2, RequestIs DEF InStep, Request
  <2>3. CASE Unsure
    <3>1. requests = PokeRequest
      BY <2>3 DEF Unsure
    <3> QED
      BY <3>1, PokePlan DEF PokeRequest, Simple
  <2> QED
    BY <2>1, <2>2, <2>3 DEF SInv
<1>5. PageOf(r) \subseteq FlashAddresses
  <2>1. CASE b[1] = FLASH_WRITE
    <3>1. b[3] \in 0 .. PageBytes /\ b[2] + b[3] <= FlashBytes /\ Len(b) = 3 + b[3]
      BY <1>4, <2>1, KindsOfRequest
    <3>2. 2 \in 1 .. Len(b)
      BY <3>1, FlashAssumption
    <3>3. b[2] \in Nat
      BY <1>3, <3>2, ElementOfSeq
    <3>4. PageOf(r) = b[2] .. b[2] + b[3] - 1
      BY <2>1 DEF PageOf
    <3>5. b[3] \in Nat /\ FlashBytes \in Nat
      BY <3>1, FlashAssumption
    <3>6. \A x, y, z \in Nat : x + y <= z => x .. x + y - 1 \subseteq 0 .. z - 1
      OBVIOUS
    <3>7. b[2] .. b[2] + b[3] - 1 \subseteq 0 .. FlashBytes - 1
      BY <3>1, <3>3, <3>5, <3>6
    <3> QED
      BY <3>4, <3>7 DEF FlashAddresses
  <2>2. CASE b[1] # FLASH_WRITE
    BY <2>2 DEF PageOf
  <2> QED
    BY <2>1, <2>2
<1> QED
  BY <1>2, <1>3, <1>4, <1>5, KindsOfRequest

(* Steps of client, line and user keep the types.                          *)
LEMMA ClientTypesStep ==
  ASSUME TypeOK, SInv, Client \/ Deliver
  PROVE  TypeOK'
<1>1. /\ FlashTypeOK /\ BootTypes /\ UserTypes /\ ClientTypes /\ failures \in 0 .. MaxFailures
  BY Types
<1>2. ASSUME UNCHANGED flash_vars, UNCHANGED boot_vars PROVE FlashTypeOK' /\ BootTypes'
  BY <1>1, <1>2 DEF FlashTypeOK, flash_vars, BootTypes, boot_vars, main_vars
<1>3. CASE Write
  <2>1. requests # <<>>
    BY <1>3 DEF Write
  <2>2. to_board' \in Seq(Nat) /\ awaited' \in 0 .. FlashBytes /\ requests' \in Seq(Requests)
    <3>1. to_board' = to_board \o Head(requests).bytes /\ awaited' = Head(requests).replies
      BY <1>3 DEF Write
    <3>2. requests' \in {requests, Tail(requests)}
      BY <1>3 DEF Write
    <3>3. to_board \in Seq(Nat) /\ requests \in Seq(Requests)
      BY <1>1 DEF ClientTypes
    <3>4. to_board \o Head(requests).bytes \in Seq(Nat)
      BY <2>1, <3>3, NextRequest, ConcatProperties
    <3>5. Head(requests).replies \in 1 .. FlashBytes /\ Tail(requests) \in Seq(Requests)
      BY <2>1, NextRequest
    <3>6. \A n \in 1 .. FlashBytes : n \in 0 .. FlashBytes
      OBVIOUS
    <3> QED
      BY <3>1, <3>2, <3>3, <3>4, <3>5, <3>6
  <2>3. UNCHANGED <<received, acked, flash_vars, boot_vars, user_vars, failures>>
    BY <1>3 DEF Write
  <2> QED
    BY <1>1, <1>2, <2>2, <2>3, Types DEF ClientTypes, UserTypes, user_vars
<1>4. CASE ReadReply
  <2>1. /\ to_client # <<>> /\ awaited > 0 /\ to_client' = Tail(to_client)
        /\ received' = (IF client = "read" THEN Append(received, Head(to_client)) ELSE received)
        /\ poked' = (poked \/ client = "poke")
        /\ UNCHANGED <<to_board, main_vars, rx, flash_vars, client, trusted, image, before,
                       failures>>
    BY <1>4 DEF ReadReply
  <2>2. requests # <<>>
    BY <2>1, Awaiting
  <2>3. awaited' \in 0 .. FlashBytes /\ requests' \in Seq(Requests) /\ acked' \subseteq FlashAddresses
    <3>1. CASE awaited = 1
      <4>1. /\ awaited' = 0 /\ requests' = Tail(requests)
            /\ acked' = acked \cup PageOf(Head(requests))
        BY <1>4, <3>1 DEF ReadReply, Done
      <4> QED
        BY <1>1, <2>2, <4>1, NextRequest, FlashAssumption DEF ClientTypes
    <3>2. CASE awaited # 1
      <4>1. awaited' = awaited - 1 /\ UNCHANGED <<requests, acked>>
        BY <1>4, <3>2 DEF ReadReply
      <4> QED
        BY <1>1, <2>1, <4>1, FlashAssumption DEF ClientTypes
    <3> QED
      BY <3>1, <3>2
  <2>4. to_client \in Seq(Nat)
    BY <1>1 DEF BootTypes
  <2>5. to_client' \in Seq(Nat) /\ Head(to_client) \in Nat
    BY <2>1, <2>4, HeadTailProperties
  <2>6. received' \in Seq(Nat)
    BY <1>1, <2>1, <2>5 DEF ClientTypes
  <2>7. FlashTypeOK' /\ BootTypes'
    BY <1>1, <2>1, <2>5 DEF FlashTypeOK, flash_vars, BootTypes, main_vars
  <2>8. poked' \in BOOLEAN
    BY <2>1
  <2> QED
    BY <1>1, <2>1, <2>3, <2>6, <2>7, <2>8, Types DEF ClientTypes, UserTypes
<1>5. CASE ReadTimeout
  <2>1. /\ awaited > 0 /\ awaited' = 0 /\ requests' \in {Tail(requests), <<>>}
        /\ \/ UNCHANGED <<client, poked, trusted>>
           \/ client' = "off" /\ poked' = FALSE /\ trusted' = FALSE
        /\ UNCHANGED <<received, to_board, acked, image, before, flash_vars, boot_vars, failures>>
    BY <1>5 DEF ReadTimeout
  <2>2. requests # <<>>
    BY <2>1, Awaiting
  <2>3. <<>> \in Seq(Requests) /\ Tail(requests) \in Seq(Requests)
    BY <2>2, NextRequest
  <2>4. requests' \in Seq(Requests)
    BY <2>1, <2>3
  <2>5. ClientTypes'
    BY <1>1, <2>1, <2>4, FlashAssumption DEF ClientTypes
  <2>6. UserTypes'
    BY <1>1, <2>1 DEF UserTypes
  <2> QED
    BY <1>1, <1>2, <2>1, <2>5, <2>6, Types
<1>6. CASE Finished
  <2>1. UNCHANGED <<image, before, client_vars, flash_vars, boot_vars, failures>>
    BY <1>6 DEF Finished
  <2>2. client' = "ready" /\ poked' \in BOOLEAN /\ trusted' \in BOOLEAN
    BY <1>6 DEF Finished
  <2> QED
    BY <1>1, <1>2, <2>1, <2>2, Types DEF ClientTypes, UserTypes, client_vars
<1>7. CASE Deliver
  <2>1. /\ to_board # <<>> /\ to_board' = Tail(to_board)
        /\ rx' = (IF rx = <<>> THEN <<Head(to_board)>> ELSE rx)
        /\ UNCHANGED <<main_vars, to_client, requests, awaited, received, acked, flash_vars,
                       user_vars, failures>>
    BY <1>7 DEF Deliver, Arrive
  <2>2. to_board \in Seq(Nat)
    BY <1>1 DEF ClientTypes
  <2>3. Head(to_board) \in Nat /\ to_board' \in Seq(Nat)
    BY <2>1, <2>2, HeadTailProperties
  <2>4. rx' \in Seq(Nat) /\ Len(rx') <= 1
    <3>1. <<Head(to_board)>> \in Seq(Nat) /\ Len(<<Head(to_board)>>) = 1
      BY <2>3
    <3> QED
      BY <1>1, <2>1, <3>1 DEF BootTypes
  <2>5. FlashTypeOK' /\ BootTypes'
    BY <1>1, <2>1, <2>4 DEF FlashTypeOK, flash_vars, BootTypes, main_vars
  <2> QED
    BY <1>1, <2>1, <2>3, <2>5, Types DEF ClientTypes, UserTypes, user_vars
<1> QED
  BY <1>3, <1>4, <1>5, <1>6, <1>7 DEF Client

(* The steps of the user but StartClient, whose and whose uses' plan is    *)
(* for the lemmas above.                                                   *)
LEMMA UserTypesStep ==
  ASSUME TypeOK, User, requests' \in Seq(Requests)
  PROVE  TypeOK'
<1>1. /\ FlashTypeOK /\ BootTypes /\ UserTypes /\ ClientTypes /\ failures \in 0 .. MaxFailures
  BY Types
<1>2. ASSUME UNCHANGED flash_vars, UNCHANGED boot_vars PROVE FlashTypeOK' /\ BootTypes'
  BY <1>1, <1>2 DEF FlashTypeOK, flash_vars, BootTypes, boot_vars, main_vars
<1>3. CASE StartClient
  <2>1. /\ client' = "poke" /\ poked' = FALSE /\ to_client' = <<>> /\ received' = <<>>
        /\ UNCHANGED <<trusted, image, before, awaited, to_board, acked, main_vars, rx,
                       flash_vars, failures>>
    BY <1>3 DEF StartClient
  <2>2. FlashTypeOK' /\ BootTypes'
    BY <1>1, <2>1 DEF FlashTypeOK, flash_vars, BootTypes, main_vars
  <2>3. UserTypes'
    BY <1>1, <2>1 DEF UserTypes
  <2>4. ClientTypes'
    BY <1>1, <2>1 DEF ClientTypes
  <2> QED
    BY <1>1, <2>1, <2>2, <2>3, <2>4, Types
<1>4. CASE Exit
  <2>1. /\ client' = "off" /\ trusted' = poked /\ poked' = FALSE
        /\ UNCHANGED <<image, before, client_vars, flash_vars, boot_vars, failures>>
    BY <1>4 DEF Exit
  <2> QED
    BY <1>1, <1>2, <2>1, Types DEF ClientTypes, UserTypes, client_vars
<1>5. CASE UseFlashWrite \/ UseErase \/ UseOther
  <2>1. /\ client' \in {"write", "erase", "read", "status", "demo", "reset", "execute"}
        /\ received' = <<>>
        /\ UNCHANGED <<poked, trusted, awaited, to_board, flash_vars, boot_vars, failures>>
    BY <1>5, Zenon DEF UseFlashWrite, UseErase, UseOther, Use
  <2>2. image' \in Images \cup {NoImage} /\ before' \in [FlashAddresses -> Nat]
        /\ acked' \subseteq FlashAddresses
    BY <1>1, <1>5 DEF UseFlashWrite, UseErase, UseOther, UserTypes, ClientTypes, FlashTypeOK
  <2>3. FlashTypeOK' /\ BootTypes'
    BY <1>2, <2>1
  <2>4. UserTypes'
    BY <1>1, <2>1, <2>2 DEF UserTypes
  <2>5. ClientTypes'
    BY <1>1, <2>1, <2>2 DEF ClientTypes
  <2> QED
    BY <1>1, <2>1, <2>3, <2>4, <2>5, Types
<1>6. CASE UsePoke
  <2>1. /\ client' = "poke" /\ poked' = FALSE /\ received' = <<>>
        /\ UNCHANGED <<trusted, image, before, awaited, to_board, acked, flash_vars, boot_vars,
                       failures>>
    BY <1>6 DEF UsePoke
  <2>2. ClientTypes'
    BY <1>1, <2>1 DEF ClientTypes
  <2>3. UserTypes'
    BY <1>1, <2>1 DEF UserTypes
  <2> QED
    BY <1>1, <1>2, <2>1, <2>2, <2>3, Types
<1> QED
  BY <1>3, <1>4, <1>5, <1>6 DEF User

-----------------------------------------------------------------------------
(* The invariant of a careful user: types, the flash and the bootloader,   *)
(* and the session.                                                        *)
FInv == TypeOK /\ IInv /\ SInv

LEMMA FInit == Init => FInv
<1> SUFFICES ASSUME Init PROVE FInv
  OBVIOUS
<1>1. IInv
  BY StartAssumption, IdleIsIdle
     DEF Init, BootInit, FlashInit, IInv, WIP, Waits, Commands
<1>2. FlashTypeOK
  <2>1. FlashInit
    BY DEF Init, BootInit
  <2>2. cells \in [FlashAddresses -> Nat]
    BY <2>1 DEF FlashInit, Junk
  <2>3. changing = Idle /\ WEL = FALSE /\ refused = FALSE
    BY <2>1 DEF FlashInit
  <2> QED
    BY <2>2, <2>3, IdleIsIdle DEF FlashTypeOK
<1>3. BootTypes
  BY StartAssumption, FlashAssumption DEF Init, BootInit, BootTypes
<1>4. UserTypes
  BY <1>2 DEF Init, UserTypes, FlashTypeOK
<1>5. ClientTypes /\ failures \in 0 .. MaxFailures
  BY BoundAssumption, FlashAssumption DEF Init, ClientTypes
<1>6. TypeOK
  BY <1>2, <1>3, <1>4, <1>5, Types
<1>7. SInv
  BY StartAssumption DEF Init, BootInit, SInv, Off
<1> QED
  BY <1>1, <1>6, <1>7 DEF FInv

(* The client is out of step, in step, or off.                             *)
LEMMA SInvIs ==
  /\ SInv <=> \/ client = "off" /\ Off
              \/ client # "off" /\ trusted /\ InStep
              \/ client # "off" /\ ~trusted /\ Unsure
  /\ SInv' <=> \/ client' = "off" /\ Off'
               \/ client' # "off" /\ trusted' /\ InStep'
               \/ client' # "off" /\ ~trusted' /\ Unsure'
BY Zenon DEF SInv

(* What changes neither client nor trust has one of three cases.           *)
LEMMA SessionCases ==
  ASSUME SInv, UNCHANGED <<client, trusted>>,
         client = "off" => Off', InStep => InStep', Unsure => Unsure'
  PROVE  SInv'
BY SInvIs

LEMMA BoardSession ==
  ASSUME TypeOK, SInv, Bootloader \/ AutoBoot, UNCHANGED <<user_vars, client_vars>>
  PROVE  SInv'
<1>1. client = "off" => Off'
  <2> SUFFICES ASSUME client = "off" PROVE Off'
    OBVIOUS
  <2>1. SInv'
    BY BoardOff DEF SInv
  <2>2. client' = "off"
    BY DEF user_vars
  <2> QED
    BY <2>1, <2>2 DEF SInv
<1>2. InStep => InStep'
  BY BoardInStep
<1>3. Unsure => Unsure'
  BY BoardUnsure
<1>4. UNCHANGED <<client, trusted>>
  BY DEF user_vars
<1> QED
  BY <1>1, <1>2, <1>3, <1>4, SessionCases

LEMMA ClientSession ==
  ASSUME InTime, TypeOK, SInv, Client \/ Deliver
  PROVE  SInv'
<1>1. client # "off"
  <2>1. client = "off" => requests = <<>> /\ awaited = 0 /\ to_board = <<>>
    BY DEF SInv, Off
  <2>2. Write \/ ReadReply \/ ReadTimeout \/ Finished \/ Deliver
    BY DEF Client
  <2> QED
    BY <2>1, <2>2, Awaiting DEF Write, ReadReply, ReadTimeout, Finished, Deliver
<1>2. CASE Write
  <2>1. UNCHANGED <<client, trusted>>
    BY <1>2 DEF Write, user_vars
  <2> QED
    BY <1>1, <1>2, <2>1, WriteInStep, WriteUnsure, SessionCases
<1>3. CASE ReadReply
  <2>1. UNCHANGED <<client, trusted>>
    BY <1>3 DEF ReadReply
  <2> QED
    BY <1>1, <1>3, <2>1, ReadReplyInStep, ReadReplyUnsure, SessionCases
<1>4. CASE ReadTimeout
  <2>1. CASE trusted
    <3>1. InStep' /\ UNCHANGED <<client, trusted>>
      BY <1>1, <1>4, <2>1, SInvIs, ReadTimeoutInStep
    <3> QED
      BY <1>1, <2>1, <3>1, SInvIs
  <2>2. CASE ~trusted
    <3>1. Unsure' /\ UNCHANGED <<client, trusted>>
      BY <1>1, <1>4, <2>2, SInvIs, TimeoutUnsure
    <3> QED
      BY <1>1, <2>2, <3>1, SInvIs
  <2> QED
    BY <2>1, <2>2
<1>5. CASE Finished
  <2>1. client' = "ready" /\ trusted' = (trusted /\ ~Leaving)
    BY <1>5 DEF Finished, Leaving
  <2>2. CASE trusted
    <3>1. InStep
      BY <1>1, <2>2, SInvIs
    <3>2. IF Leaving THEN ~trusted' /\ Unsure' ELSE InStep'
      BY <1>5, <3>1, FinishedInStep
    <3> QED
      BY <2>1, <2>2, <3>2, SInvIs
  <2>3. CASE ~trusted
    <3>1. Unsure
      BY <1>1, <2>3, SInvIs
    <3> QED
      BY <1>5, <2>1, <2>3, <3>1, FinishedUnsure, SInvIs
  <2> QED
    BY <2>2, <2>3
<1>6. CASE Deliver
  <2>1. UNCHANGED <<client, trusted>>
    BY <1>6 DEF Deliver, user_vars
  <2> QED
    BY <1>1, <1>6, <2>1, DeliverInStep, DeliverUnsure, SessionCases
<1> QED
  BY <1>2, <1>3, <1>4, <1>5, <1>6 DEF Client

LEMMA UserSession ==
  ASSUME Careful, InTime, TypeOK, SInv, User
  PROVE  SInv' /\ requests' \in Seq(Requests)
<1>1. CASE StartClient
  BY <1>1, StartClientKeeps
<1>2. CASE Exit
  <2>1. requests' \in Seq(Requests)
    BY <1>2, Types DEF Exit, client_vars, ClientTypes
  <2> QED
    BY <1>2, <2>1, ExitKeeps
<1>3. CASE UseFlashWrite \/ UseErase \/ UseOther
  <2>1. PICK purpose, plan : Use(purpose, plan) /\ Uses(purpose, plan)
    BY <1>3, UserUses
  <2>2. client = "ready" /\ trusted /\ trusted' = trusted
    BY <2>1 DEF Use
  <2>3. InStep
    BY <2>2, SInvIs
  <2>4. InStep' /\ requests' \in Seq(Requests) /\ client' = purpose
    BY <2>1, <2>3, UseInStep
  <2>5. purpose # "off"
    BY <2>1 DEF Uses
  <2> QED
    BY <2>2, <2>4, <2>5, SInvIs
<1>4. CASE UsePoke
  <2>1. client = "ready" /\ trusted /\ trusted' = trusted
    BY <1>4 DEF UsePoke
  <2>2. InStep
    BY <2>1, SInvIs
  <2>3. InStep' /\ requests' \in Seq(Requests) /\ client' = "poke"
    BY <1>4, <2>2, UsePokeInStep
  <2> QED
    BY <2>1, <2>3, SInvIs
<1> QED
  BY <1>1, <1>2, <1>3, <1>4 DEF User

LEMMA FailKeeps ==
  ASSUME TypeOK, PowerFailure
  PROVE  TypeOK' /\ SInv'
<1>1. FlashTypeOK'
  BY Types, FinishType DEF PowerFailure
<1>2. BootTypes'
  BY FlashAssumption DEF PowerFailure, Restart, BootTypes
<1>3. UserTypes'
  BY Types DEF PowerFailure, UserTypes
<1>4. ClientTypes'
  BY Types, FlashAssumption DEF PowerFailure, ClientTypes
<1>5. failures' \in 0 .. MaxFailures
  <2>1. failures \in 0 .. MaxFailures /\ failures < MaxFailures /\ failures' = failures + 1
    BY Types DEF PowerFailure
  <2> QED
    BY <2>1, BoundAssumption
<1>6. SInv'
  BY DEF PowerFailure, Restart, SInv, Off
<1> QED
  BY <1>1, <1>2, <1>3, <1>4, <1>5, <1>6, Types

(* What changes the cells only, or nothing.                                *)
LEMMA SameSession ==
  ASSUME TypeOK, SInv, UNCHANGED <<boot_vars, user_vars, client_vars, failures>>, FlashTypeOK'
  PROVE  TypeOK' /\ SInv'
<1>1. BootTypes' /\ UserTypes' /\ ClientTypes' /\ failures' \in 0 .. MaxFailures
  BY Types DEF boot_vars, main_vars, user_vars, client_vars, BootTypes, UserTypes, ClientTypes
<1>2. UNCHANGED <<mode, rx, to_client, console_cmd, len, data_page, data_idx, client, poked,
                  trusted, requests, awaited, to_board>>
  BY DEF boot_vars, main_vars, user_vars, client_vars
<1>3. Off => Off'
  BY <1>2 DEF Off
<1>4. Unsure => Unsure'
  BY <1>2 DEF Unsure, Pending
<1>5. InStep => InStep'
  <2>1. /\ Planned => Planned'
        /\ Between => Between'
        /\ Answered => Answered'
    BY <1>2 DEF Planned, Leaving, Between, Pending, Answered, After, Request
  <2>2. Hearing => Hearing'
    BY <1>2 DEF Hearing, Pending, Heard, Request, Leaves
  <2>3. (Working => Working') /\ (Sending => Sending')
    BY <1>2 DEF Working, Sending, Pending, Request, Leaves
  <2>4. Ignored => Ignored'
    BY <1>2 DEF Ignored, Pending, Request
  <2>5. Serving => Serving'
    BY <1>2, <2>1, <2>2, <2>3, <2>4 DEF Serving, Request
  <2> QED
    BY <1>2, <2>1, <2>5 DEF InStep
<1> QED
  BY <1>1, <1>2, <1>3, <1>4, <1>5, SInvIs, Types

LEMMA FNext ==
  ASSUME Careful, InTime, FInv, [Next]_vars
  PROVE  FInv'
<1>1. TypeOK /\ IInv /\ SInv
  BY DEF FInv
<1>2. FlashTypeOK
  BY <1>1, Types
<1>3. CASE Client \/ Deliver
  BY <1>1, <1>3, ClientStep, Stays, ClientTypesStep, ClientSession DEF FInv
<1>4. CASE User
  BY <1>1, <1>4, ClientStep, Stays, UserTypesStep, UserSession DEF FInv
<1>5. CASE Board \/ BoardTimeout
  <2>1. (Bootloader \/ AutoBoot) /\ UNCHANGED <<user_vars, client_vars, failures>>
    BY <1>5 DEF Board, BoardTimeout
  <2>2. IInv'
    <3>1. CASE Bootloader
      BY <1>1, <3>1, BoardStep
    <3>2. CASE AutoBoot
      BY <1>1, <3>2, Untouched DEF AutoBoot, IInv, Waits, Commands
    <3> QED
      BY <2>1, <3>1, <3>2
  <2>3. UNCHANGED to_board /\ UNCHANGED <<user_vars, client_vars>>
    BY <2>1 DEF client_vars
  <2>4. FlashTypeOK' /\ BootTypes' /\ SInv'
    BY <1>1, <2>1, <2>3, BoardTypes, BoardSession
  <2>5. UserTypes' /\ ClientTypes' /\ failures' \in 0 .. MaxFailures
    BY <1>1, <2>1, Types DEF UserTypes, ClientTypes, user_vars, client_vars
  <2> QED
    BY <2>2, <2>4, <2>5, Types DEF FInv
<1>6. CASE FlashFinish
  <2>1. FlashTypeOK' /\ UNCHANGED <<boot_vars, user_vars, client_vars, failures>>
    BY <1>2, <1>6, FinishType DEF FlashFinish
  <2>2. IInv'
    BY <1>1, <1>6, IdleIsIdle
       DEF FlashFinish, Finish, boot_vars, main_vars, IInv, WIP, Waits, Commands
  <2> QED
    BY <1>1, <2>1, <2>2, SameSession DEF FInv
<1>7. CASE PowerFailure
  <2>1. IInv'
    BY <1>1, <1>7, IdleIsIdle DEF PowerFailure, Fail, Restart, IInv, WIP, Commands
  <2> QED
    BY <1>1, <1>7, <2>1, FailKeeps DEF FInv
<1>8. CASE UNCHANGED vars
  <2>1. UNCHANGED <<boot_vars, user_vars, client_vars, failures>> /\ UNCHANGED flash_vars
    BY <1>8 DEF vars
  <2>2. FlashTypeOK'
    BY <1>2, <2>1 DEF FlashTypeOK, flash_vars
  <2>3. IInv'
    BY <1>1, <2>1, Stays DEF boot_vars, main_vars
  <2> QED
    BY <1>1, <2>1, <2>2, <2>3, SameSession DEF FInv
<1> QED
  BY <1>3, <1>4, <1>5, <1>6, <1>7, <1>8 DEF Next

(* Every variable keeps its type, if the user is careful and the           *)
(* bootloader answers within a second what it answers at all.              *)
THEOREM TypeCorrect == ASSUME Careful, InTime PROVE Spec => []TypeOK
<1>1. FInv /\ [Next]_vars => FInv'
  BY FNext
<1>2. FInv => TypeOK
  BY DEF FInv
<1> QED
  BY FInit, <1>1, <1>2, PTL DEF Spec

(* The client sends a request only when nothing is under way in either     *)
(* direction, the bootloader waits for a command or for the poke that ends *)
(* the auto boot, and the flash is at rest: no byte finds the receive      *)
(* register full.                                                          *)
THEOREM OneRequestAtATime == ASSUME Careful, InTime PROVE Spec => []RequestResponse
<1>1. FInv /\ [Next]_vars => FInv'
  BY FNext
<1>2. FInv => RequestResponse
  <2> SUFFICES ASSUME FInv, client # "off", requests # <<>>, awaited = 0, mode # "application"
               PROVE  /\ to_board = <<>> /\ rx = <<>> /\ to_client = <<>>
                      /\ mode \in {"auto", "main"} /\ ~WIP
    BY DEF RequestResponse
  <2>1. TypeOK /\ SInv /\ IInv
    BY DEF FInv
  <2>2. Pending = <<>> /\ to_client = <<>> /\ mode \in {"auto", "main"}
    <3>1. CASE InStep
      BY <3>1 DEF InStep, Between
    <3>2. CASE Unsure
      BY <3>2 DEF Unsure
    <3> QED
      BY <2>1, <3>1, <3>2, SInvIs
  <2>3. ~WIP
    BY <2>1, <2>2 DEF IInv, Waits
  <2> QED
    BY <2>1, <2>2, <2>3, LineOK, NonePending
<1> QED
  BY FInit, <1>1, <1>2, PTL DEF Spec

(* When the byte of a demo has been taken, nothing is on its way to the    *)
(* client, not even a late reply to another request.                       *)
LEMMA DemoNotAnswered ==
  ASSUME FInv, ReadEnds, Head(requests).bytes = <<DEMO>>
  PROVE  ~LastReply
<1>1. SUFFICES ASSUME LastReply PROVE FALSE
  OBVIOUS
<1>2. TypeOK /\ SInv /\ poked /\ awaited = 1 /\ to_client # <<>>
  BY <1>1 DEF FInv, ReadEnds, LastReply
<1>3. requests # <<>> /\ client # "off"
  BY <1>2, Awaiting
<1>4. InStep
  <2>1. ~Unsure
    BY <1>2, <1>3 DEF Unsure
  <2> QED
    BY <1>2, <1>3, <2>1, SInvIs
<1>5. Sending
  BY <1>2, <1>4 DEF InStep, Serving, Hearing, Working, Answered, Ignored, Request
<1>6. Len(to_client) \in Nat \ {0} /\ len - data_idx \in Nat \ {0}
  <2>1. to_client \in Seq(Nat) /\ len \in Nat /\ data_idx \in Nat
    BY <1>2, Types, FlashAssumption DEF BootTypes
  <2>2. Len(to_client) \in Nat /\ Len(to_client) # 0
    BY <1>2, <2>1, EmptySeq, LenProperties
  <2> QED
    BY <1>5, <2>1, <2>2 DEF Sending
<1> QED
  BY <1>2, <1>5, <1>6 DEF Sending

(* From the answered poke on, a read of replies ends with the last of      *)
(* them, if they come within a second: each request that the bootloader    *)
(* has a command for is understood and answered in full; demo is not one.  *)
THEOREM EveryRequestAnswered == ASSUME Careful, InTime PROVE Spec => KnownAnswered
<1> DEFINE Answer == ReadEnds => (LastReply <=> Head(requests).bytes # <<DEMO>>)
<1>1. FInv /\ [Next]_vars => FInv'
  BY FNext
<1>2. FInv /\ [Next]_vars => [Answer]_vars
  <2> SUFFICES ASSUME FInv, [Next]_vars, ReadEnds, Head(requests).bytes # <<DEMO>>
               PROVE  LastReply
    BY DemoNotAnswered
  <2>1. TypeOK /\ SInv /\ poked /\ awaited > 0 /\ awaited' = 0 /\ failures' = failures
    BY DEF FInv, ReadEnds
  <2>2. awaited' # awaited /\ requests # <<>> /\ client # "off"
    BY <2>1, Awaiting
  <2>3. ~ReadTimeout
    <3>1. ~Unsure
      BY <2>1, <2>2 DEF Unsure
    <3>2. InStep
      BY <2>1, <2>2, <3>1, SInvIs
    <3> QED
      BY <2>1, <3>2, NoTimeoutInStep DEF ReadTimeout, Ignored, Request
  <2>4. CASE Client
    <3>1. CASE ReadReply
      <4>1. awaited = 1
        <5>1. awaited # 1 => awaited' = awaited - 1
          BY <3>1 DEF ReadReply
        <5>2. awaited \in 0 .. FlashBytes
          BY <2>1, Types DEF ClientTypes
        <5> QED
          BY <2>1, <5>1, <5>2, FlashAssumption
      <4> QED
        BY <3>1, <4>1 DEF ReadReply, LastReply
    <3>2. ~Write /\ ~Finished
      BY <2>1, <2>2 DEF Write, Finished, client_vars
    <3> QED
      BY <2>3, <2>4, <3>1, <3>2 DEF Client
  <2>5. ~Deliver /\ ~User
    <3>1. ~StartClient /\ ~Exit /\ ~Deliver /\ ~UsePoke
      BY <2>2 DEF StartClient, Exit, Deliver, UsePoke, client_vars
    <3>2. ~UseFlashWrite /\ ~UseErase /\ ~UseOther
      BY <2>2 DEF UseFlashWrite, UseErase, UseOther, Use
    <3> QED
      BY <3>1, <3>2 DEF User
  <2>6. ~PowerFailure
    <3>1. failures \in 0 .. MaxFailures
      BY <2>1, Types
    <3> QED
      BY <2>1, <3>1, BoundAssumption DEF PowerFailure
  <2>7. ~Board /\ ~BoardTimeout /\ ~FlashFinish /\ ~UNCHANGED vars
    BY <2>2 DEF Board, BoardTimeout, FlashFinish, vars, client_vars
  <2> QED
    BY <2>4, <2>5, <2>6, <2>7 DEF Next
<1> QED
  BY FInit, <1>1, <1>2, PTL DEF Spec, KnownAnswered

-----------------------------------------------------------------------------
(* What flash_write writes.                                                *)

(* The client reads the file as numbers of four bytes and sends 256 at a   *)
(* time; at an address that is not a multiple of four, a chunk may end in  *)
(* the next page of the flash, and the flash puts that end elsewhere.      *)
Aligned ==
  /\ PageBytes % ChunkBytes = 0 /\ StepBytes % ChunkBytes = 0
  /\ \A a \in ImageAddrs : a % ChunkBytes = 0
  /\ \A n \in ImageLengths : n % ChunkBytes = 0

(* Its requests, and the place in the image where page k begins.           *)
Erases(img) == SectorOf(img.addr + img.data_len) - SectorOf(img.addr) + 1
Steps(img) == img.data_len \div StepBytes + 1
Whole(img) == EraseRequests(img) \o PageRequests(img)
SectorAt(img, k) == SectorOf(((SectorOf(img.addr) + k - 1) * SectorBytes) % FlashBytes)
Start(img, k) == IF (k - 1) * StepBytes <= img.data_len THEN (k - 1) * StepBytes
                 ELSE img.data_len

Programs == {"write", "write_command", "writing"}
Clears == {"erase", "erase_command", "erasing"}

(* The bootloader has taken in what the request says.                      *)
Held ==
  /\ mode \in Clears => Request.bytes[1] = ERASE_SECTOR
  /\ mode = "read" => Request.bytes[1] = FLASH_READ
  /\ mode \in {"len", "data"} \cup Clears \cup Programs => addr = Request.bytes[2]
  /\ mode \in {"data"} \cup Programs =>
       /\ Request.bytes[1] = FLASH_WRITE /\ len = Request.bytes[3]
       /\ \A i \in 1 .. Len(data_page) : data_page[i] = Request.bytes[3 + i]
  /\ mode = "data" => data_idx = 0
  /\ mode = "write_command" => data_idx < len

(* A request that programs nothing, and erases none of these bytes.        *)
Spares(r, bytes) ==
  /\ r.bytes[1] # FLASH_WRITE
  /\ r.bytes[1] = ERASE_SECTOR =>
       \A a \in bytes : SectorOf(a) # SectorOf(r.bytes[2] % FlashBytes)

(* Nothing but flash_write has a page programmed, or what is acknowledged  *)
(* erased.                                                                 *)
Harmless == client # "write" => \A k \in DOMAIN requests : Spares(requests[k], acked)

(* The requests that are left are the last ones of the plan.               *)
done == Len(Whole(image)) - Len(requests)
Ordered == client = "write" =>
  /\ image \in Images /\ done \in Nat
  /\ \A k \in DOMAIN requests : requests[k] = Whole(image)[done + k]

(* The page at hand, how many sectors the flash has been told to erase and *)
(* how many bytes of the image to program: an answered request counts.     *)
step == done - Erases(image) + 1
erased == IF done >= Erases(image) THEN Erases(image)
          ELSE IF mode = "erasing" \/ to_client # <<>> THEN done + 1 ELSE done
written == IF done < Erases(image) THEN 0
           ELSE IF mode \in Programs THEN Start(image, step) + data_idx
           ELSE IF to_client # <<>> THEN Start(image, step + 1) ELSE Start(image, step)

(* The flash holds, or is about to, just what it has been told.            *)
Settled(a) == IF a \in DOMAIN changing THEN changing[a] ELSE cells[a]
Target(a, e, w) ==
  IF a \in image.addr .. image.addr + w - 1 THEN ImageByte(a - image.addr)
  ELSE IF \E k \in 1 .. e : SectorOf(a) = SectorAt(image, k) THEN Erased ELSE before[a]
Progress == client = "write" =>
  /\ mode \in Programs => data_idx % ChunkBytes = 0
  /\ \A a \in FlashAddresses : Settled(a) = Target(a, erased, written)

(* What was acknowledged is not touched again.                             *)
Kept ==
  /\ \A a \in acked : a \notin DOMAIN changing /\ cells[a] = ImageByte(a - image.addr)
  /\ client = "write" =>
       acked \subseteq (IF done < Erases(image) THEN {}
                        ELSE image.addr .. image.addr + Start(image, step) - 1)

WInv == Held /\ Harmless /\ Ordered /\ Progress /\ Kept

-----------------------------------------------------------------------------
(* Division.                                                               *)

LEMMA Divides ==
  ASSUME NEW q \in Nat, NEW c \in Nat \ {0}, NEW r \in Nat, r < c
  PROVE  (q * c + r) \div c = q /\ (q * c + r) % c = r
<1> DEFINE a == q * c + r
           p == a \div c
           s == a % c
<1>1. q * c \in Nat /\ a \in Nat
  BY Product
<1>2. s \in Nat /\ s < c /\ a = p * c + s /\ p \in Nat
  BY <1>1, Remainder
<1>3. a = q * c + r
  OBVIOUS
<1> HIDE DEF a, p, s
<1>4. \A x, y, u, v \in Nat : x < y /\ u < c => x * c + u < y * c + v
  <2> SUFFICES ASSUME NEW x \in Nat, NEW y \in Nat, NEW u \in Nat, NEW v \in Nat, x < y, u < c
               PROVE  x * c + u < y * c + v
    OBVIOUS
  <2>1. (x + 1) * c <= y * c /\ (x + 1) * c \in Nat /\ x * c \in Nat /\ y * c \in Nat
    BY Product
  <2>2. (x + 1) * c = x * c + c
    OBVIOUS
  <2> QED
    BY <2>1, <2>2
<1>5. ~(p < q)
  <2> SUFFICES ASSUME p < q PROVE FALSE
    OBVIOUS
  <2>1. p * c + s < q * c + r
    BY <1>2, <1>4
  <2> QED
    BY <1>1, <1>2, <1>3, <2>1
<1>6. ~(q < p)
  <2> SUFFICES ASSUME q < p PROVE FALSE
    OBVIOUS
  <2>1. q * c + r < p * c + s
    BY <1>2, <1>4
  <2> QED
    BY <1>1, <1>2, <1>3, <2>1
<1>7. p = q
  BY <1>2, <1>5, <1>6
<1>8. s = r
  <2>1. q * c + s = q * c + r
    BY <1>2, <1>3, <1>7
  <2>2. \A x, u, v \in Nat : x + u = x + v => u = v
    OBVIOUS
  <2> QED
    BY <1>1, <1>2, <2>1, <2>2
<1> QED
  BY <1>7, <1>8 DEF p, s, a

LEMMA Small ==
  ASSUME NEW c \in Nat \ {0}, NEW r \in Nat, r < c
  PROVE  r % c = r
<1>1. (0 * c + r) % c = r
  BY Divides
<1>2. 0 * c + r = r
  OBVIOUS
<1> QED
  BY <1>1, <1>2

LEMMA Exactly ==
  ASSUME NEW q \in Nat, NEW c \in Nat \ {0}
  PROVE  (q * c) \div c = q /\ (q * c) % c = 0
<1>1. (q * c + 0) \div c = q /\ (q * c + 0) % c = 0
  BY Divides
<1>2. q * c + 0 = q * c
  BY Product
<1> QED
  BY <1>1, <1>2

LEMMA Monotone ==
  ASSUME NEW a \in Nat, NEW b \in Nat, NEW c \in Nat \ {0}, a <= b
  PROVE  a \div c <= b \div c
<1>1. a \div c \in Nat /\ b \div c \in Nat /\ (a \div c) * c <= a
  BY Quotient
<1>2. (a \div c) * c \in Nat
  BY <1>1, Product
<1>3. ~(b < (a \div c) * c)
  BY <1>1, <1>2
<1> SUFFICES ASSUME b \div c < a \div c PROVE FALSE
  BY <1>1
<1> DEFINE k == b \div c + 1
<1>4. k \in Nat /\ k <= a \div c
  BY <1>1
<1>5. b < k * c
  <2>1. b = (b \div c) * c + (b % c) /\ b % c \in Nat /\ b % c < c
    BY Remainder
  <2>2. k * c = (b \div c) * c + c
    BY <1>1
  <2>3. (b \div c) * c \in Nat
    BY <1>1, Product
  <2> QED
    BY <2>1, <2>2, <2>3
<1>6. k * c <= (a \div c) * c /\ k * c \in Nat
  BY <1>1, <1>4, Product
<1> QED
  BY <1>2, <1>3, <1>5, <1>6

(* Multiples of c.                                                         *)
LEMMA Multiple ==
  ASSUME NEW a \in Nat, NEW c \in Nat \ {0}
  PROVE  a % c = 0 <=> \E q \in Nat : a = q * c
<1>1. ASSUME a % c = 0 PROVE \E q \in Nat : a = q * c
  <2>1. a = (a \div c) * c + (a % c) /\ a \div c \in Nat
    BY Remainder
  <2>2. (a \div c) * c \in Nat
    BY <2>1, Product
  <2>3. a = (a \div c) * c
    BY <1>1, <2>1, <2>2
  <2> QED
    BY <2>1, <2>3
<1>2. ASSUME NEW q \in Nat, a = q * c PROVE a % c = 0
  BY <1>2, Exactly
<1> QED
  BY <1>1, <1>2

LEMMA Multiples ==
  ASSUME NEW a \in Nat, NEW b \in Nat, NEW c \in Nat \ {0}, a % c = 0, b % c = 0
  PROVE  /\ (a + b) % c = 0
         /\ a <= b => (b - a) % c = 0
         /\ a < b => a + c <= b
<1>1. PICK p \in Nat : a = p * c
  BY Multiple
<1>2. PICK q \in Nat : b = q * c
  BY Multiple
<1>3. p * c \in Nat /\ q * c \in Nat
  BY Product
<1>4. (a + b) % c = 0
  <2>1. a + b = (p + q) * c /\ p + q \in Nat
    BY <1>1, <1>2
  <2> QED
    BY <2>1, Exactly
<1>5. ASSUME a < b PROVE p < q
  <2> SUFFICES ASSUME q <= p PROVE FALSE
    OBVIOUS
  <2>1. q * c <= p * c
    BY Product
  <2> QED
    BY <1>1, <1>2, <1>3, <1>5, <2>1
<1>6. ASSUME a < b PROVE a + c <= b
  <2>1. p + 1 \in Nat /\ p + 1 <= q
    BY <1>5, <1>6
  <2>2. (p + 1) * c <= q * c
    BY <2>1, Product
  <2>3. (p + 1) * c = p * c + c
    OBVIOUS
  <2> QED
    BY <1>1, <1>2, <1>3, <2>2, <2>3
<1>7. ASSUME a <= b PROVE (b - a) % c = 0
  <2>1. CASE a = b
    <3>1. b - a = 0 * c
      BY <2>1
    <3> QED
      BY <3>1, Exactly
  <2>2. CASE a < b
    <3>1. q - p \in Nat
      BY <1>5, <2>2
    <3>2. b - a = (q - p) * c
      BY <1>1, <1>2
    <3> QED
      BY <3>1, <3>2, Exactly
  <2> QED
    BY <1>7, <2>1, <2>2
<1> QED
  BY <1>4, <1>6, <1>7

-----------------------------------------------------------------------------
(* What flash_write plans.                                                 *)

LEMMA Numbers ==
  /\ FlashBytes \in Nat \ {0} /\ SectorBytes \in Nat \ {0} /\ PageBytes \in Nat \ {0}
  /\ StepBytes \in Nat \ {0} /\ StepBytes <= PageBytes
  /\ ChunkBytes \in Nat \ {0} /\ ChunkBytes <= PageBytes
BY FlashAssumption, StepAssumption, ChunkAssumption

LEMMA SectorsAre ==
  ASSUME NEW img \in Images
  PROVE  /\ SectorOf(img.addr) \in Nat /\ SectorOf(img.addr + img.data_len) \in Nat
         /\ SectorOf(img.addr) <= SectorOf(img.addr + img.data_len)
         /\ Erases(img) \in Nat \ {0}
<1>1. img.addr \in Nat /\ img.addr + img.data_len \in Nat /\ img.addr <= img.addr + img.data_len
  BY ImageIs
<1>2. /\ SectorOf(img.addr) \in Nat /\ SectorOf(img.addr + img.data_len) \in Nat
      /\ SectorOf(img.addr) <= SectorOf(img.addr + img.data_len)
  BY <1>1, Numbers, Quotient, Monotone DEF SectorOf
<1> QED
  BY <1>2 DEF Erases

(* Erases come first, and every page after its predecessor.                *)
LEMMA EraseAt ==
  ASSUME NEW img \in Images
  PROVE  /\ Len(EraseRequests(img)) = Erases(img)
         /\ \A k \in 1 .. Erases(img) :
              /\ EraseRequests(img)[k].bytes[1] = ERASE_SECTOR
              /\ EraseRequests(img)[k].bytes[2] = (SectorOf(img.addr) + k - 1) * SectorBytes
<1> DEFINE n == Erases(img)
           Erase(k) == [bytes |-> <<ERASE_SECTOR, (SectorOf(img.addr) + k - 1) * SectorBytes>>,
                        replies |-> 1]
<1>1. EraseRequests(img) = [k \in 1 .. n |-> Erase(k)]
  BY DEF EraseRequests, Erases
<1>2. n \in Nat
  BY SectorsAre
<1>3. EraseRequests(img) \in Seq(Requests)
  BY ErasePlan
<1> HIDE DEF n
<1>4. \A k \in 1 .. n : EraseRequests(img)[k] = Erase(k)
  BY <1>1
<1>5. Len(EraseRequests(img)) = n
  <2>1. DOMAIN EraseRequests(img) = 1 .. n
    BY <1>1
  <2> QED
    BY <1>2, <1>3, <2>1, LenProperties
<1> QED
  BY <1>4, <1>5 DEF n

LEMMA StartIs ==
  ASSUME NEW img \in Images, NEW k \in 1 .. Steps(img)
  PROVE  /\ Steps(img) \in Nat \ {0}
         /\ Start(img, k) = (k - 1) * StepBytes
         /\ Start(img, k) \in Nat /\ Start(img, k + 1) \in Nat
         /\ Start(img, k) <= Start(img, k + 1) /\ Start(img, k + 1) <= img.data_len
         /\ Start(img, k + 1) - Start(img, k) =
              IF (k - 1) * StepBytes + StepBytes <= img.data_len THEN StepBytes
              ELSE img.data_len - (k - 1) * StepBytes
<1> DEFINE q == img.data_len \div StepBytes
           x == (k - 1) * StepBytes
<1>1. img.data_len \in Nat /\ StepBytes \in Nat \ {0}
  BY ImageIs, Numbers
<1>2. q \in Nat /\ \A i \in Nat : i <= q => i * StepBytes <= img.data_len
  BY <1>1, Quotient
<1>3. Steps(img) = q + 1
  BY DEF Steps
<1> HIDE DEF q
<1>4. k - 1 \in Nat /\ k - 1 <= q /\ k \in Nat
  BY <1>2, <1>3
<1>5. x \in Nat /\ x <= img.data_len
  BY <1>1, <1>2, <1>4, Product
<1>6. ((k + 1) - 1) * StepBytes = x + StepBytes
  BY <1>1, <1>4
<1> HIDE DEF x
<1>7. Start(img, k) = x
  BY <1>5 DEF Start, x
<1>8. Start(img, k + 1) = IF x + StepBytes <= img.data_len THEN x + StepBytes ELSE img.data_len
  BY <1>6 DEF Start
<1>9. \A a, n \in Nat : \A s \in Nat \ {0} : a <= n =>
        LET b == IF a + s <= n THEN a + s ELSE n
        IN /\ b \in Nat /\ a <= b /\ b <= n
           /\ b - a = IF a + s <= n THEN s ELSE n - a
  OBVIOUS
<1>10. LET b == Start(img, k + 1)
       IN /\ b \in Nat /\ x <= b /\ b <= img.data_len
          /\ b - x = IF x + StepBytes <= img.data_len THEN StepBytes ELSE img.data_len - x
  BY <1>1, <1>5, <1>8, <1>9
<1> QED
  BY <1>2, <1>3, <1>5, <1>7, <1>10 DEF x

LEMMA StartEnds ==
  ASSUME NEW img \in Images
  PROVE  /\ Steps(img) \in Nat \ {0}
         /\ Start(img, 1) = 0 /\ Start(img, Steps(img) + 1) = img.data_len
<1> DEFINE q == img.data_len \div StepBytes
<1>1. img.data_len \in Nat /\ StepBytes \in Nat \ {0}
  BY ImageIs, Numbers
<1>2. q \in Nat /\ Steps(img) = q + 1
  BY <1>1, Quotient DEF Steps
<1>3. (1 - 1) * StepBytes = 0
  BY <1>1
<1>4. img.data_len < (q + 1) * StepBytes
  <2>1. /\ img.data_len = q * StepBytes + (img.data_len % StepBytes)
        /\ img.data_len % StepBytes \in 0 .. StepBytes - 1
    BY <1>1, Remainder
  <2>2. (q + 1) * StepBytes = q * StepBytes + StepBytes /\ q * StepBytes \in Nat
    BY <1>1, <1>2
  <2> QED
    BY <1>1, <2>1, <2>2
<1> HIDE DEF q
<1>5. (q + 1) * StepBytes \in Nat
  BY <1>1, <1>2, Product
<1> DEFINE m == Steps(img) + 1
<1>6. m - 1 = q + 1
  BY <1>2
<1> HIDE DEF m
<1>7. Start(img, m) = img.data_len
  <2>1. \A a, b \in Nat : a < b => ~(b <= a)
    OBVIOUS
  <2>2. ~((q + 1) * StepBytes <= img.data_len)
    BY <1>1, <1>4, <1>5, <2>1
  <2>3. (m - 1) * StepBytes = (q + 1) * StepBytes
    BY <1>6
  <2> QED
    BY <2>2, <2>3 DEF Start
<1> QED
  BY <1>1, <1>2, <1>3, <1>7 DEF Start, m

LEMMA PageAt ==
  ASSUME NEW img \in Images
  PROVE  /\ Len(PageRequests(img)) = Steps(img)
         /\ \A k \in 1 .. Steps(img) :
              LET b == PageRequests(img)[k].bytes
              IN /\ b[1] = FLASH_WRITE /\ b[2] = img.addr + Start(img, k)
                 /\ b[3] = Start(img, k + 1) - Start(img, k)
                 /\ \A i \in 1 .. b[3] : b[3 + i] = ImageByte(Start(img, k) + i - 1)
<1> DEFINE At(k) == (k - 1) * StepBytes
           Size(k) == IF At(k) + StepBytes <= img.data_len THEN StepBytes
                      ELSE img.data_len - At(k)
           Data(k) == [i \in 1 .. Size(k) |-> ImageByte(At(k) + i - 1)]
           Bytes(k) == <<FLASH_WRITE, img.addr + At(k), Size(k)>> \o Data(k)
           Page(k) == [bytes |-> Bytes(k), replies |-> 1]
<1>1. PageRequests(img) = [k \in 1 .. Steps(img) |-> Page(k)]
  BY DEF PageRequests, Steps
<1> HIDE DEF Bytes
<1>6. \A k \in 1 .. Steps(img) : PageRequests(img)[k].bytes = Bytes(k)
  BY <1>1
<1> USE DEF Bytes
<1>2. Steps(img) \in Nat
  BY StartEnds
<1>3. PageRequests(img) \in Seq(Requests)
  BY PagePlan DEF Plan
<1>4. Len(PageRequests(img)) = Steps(img)
  <2>1. DOMAIN PageRequests(img) = 1 .. Steps(img)
    BY <1>1
  <2> QED
    BY <1>2, <1>3, <2>1, LenProperties
<1>5. ASSUME NEW k \in 1 .. Steps(img)
      PROVE  LET b == PageRequests(img)[k].bytes
             IN /\ b[1] = FLASH_WRITE /\ b[2] = img.addr + Start(img, k)
                /\ b[3] = Start(img, k + 1) - Start(img, k)
                /\ \A i \in 1 .. b[3] : b[3 + i] = ImageByte(Start(img, k) + i - 1)
  <2>1. /\ Start(img, k) = At(k) /\ Start(img, k) \in Nat /\ Start(img, k + 1) \in Nat
        /\ Start(img, k + 1) - Start(img, k) = Size(k) /\ Start(img, k) <= Start(img, k + 1)
    BY StartIs
  <2>2. img.addr \in Nat
    BY ImageIs
  <2> HIDE DEF At, Size
  <2>3. Size(k) \in Nat /\ At(k) \in Nat
    BY <2>1
  <2>4. PageRequests(img)[k].bytes = Bytes(k)
    BY <1>6, Zenon
  <2>5. Data(k) \in Seq(Nat) /\ Len(Data(k)) = Size(k)
    <3>1. \A i \in 1 .. Size(k) : ImageByte(At(k) + i - 1) \in Nat
      BY <2>3 DEF ImageByte
    <3> QED
      BY <2>3, <3>1, IsASeq, LenProperties
  <2>6. \A i \in 1 .. Size(k) : Data(k)[i] = ImageByte(At(k) + i - 1)
    OBVIOUS
  <2> HIDE DEF Data
  <2> DEFINE head == <<FLASH_WRITE, img.addr + At(k), Size(k)>>
  <2>7. head \in Seq(Nat) /\ Len(head) = 3
    BY <2>2, <2>3 DEF FLASH_WRITE
  <2>8. \A i \in 1 .. 3 + Size(k) :
          Bytes(k)[i] = IF i <= 3 THEN head[i] ELSE Data(k)[i - 3]
    <3>1. \A i \in 1 .. Len(head) + Len(Data(k)) :
            (head \o Data(k))[i] = IF i <= Len(head) THEN head[i] ELSE Data(k)[i - Len(head)]
      BY <2>5, <2>7, ConcatProperties
    <3> QED
      BY <2>5, <2>7, <3>1
  <2>9. head[1] = FLASH_WRITE /\ head[2] = img.addr + At(k) /\ head[3] = Size(k)
    OBVIOUS
  <2> HIDE DEF head, Bytes
  <2>10. \A i \in {1, 2, 3} : i \in 1 .. 3 + Size(k) /\ i <= 3
    BY <2>3
  <2>11. /\ Bytes(k)[1] = FLASH_WRITE /\ Bytes(k)[2] = img.addr + At(k)
         /\ Bytes(k)[3] = Size(k)
    BY <2>8, <2>9, <2>10
  <2>12. \A i \in 1 .. Size(k) : Bytes(k)[3 + i] = ImageByte(At(k) + i - 1)
    <3>1. \A n \in Nat : \A i \in 1 .. n : 3 + i \in 1 .. 3 + n /\ ~(3 + i <= 3) /\ (3 + i) - 3 = i
      OBVIOUS
    <3> QED
      BY <2>3, <2>6, <2>8, <3>1
  <2> QED
    BY <2>1, <2>4, <2>11, <2>12
<1> QED
  BY <1>4, <1>5

LEMMA WholeIs ==
  ASSUME NEW img \in Images
  PROVE  /\ Whole(img) \in Seq(Requests)
         /\ Len(Whole(img)) = Erases(img) + Steps(img)
         /\ Erases(img) \in Nat \ {0} /\ Steps(img) \in Nat \ {0}
         /\ \A k \in 1 .. Erases(img) :
              /\ Whole(img)[k].bytes[1] = ERASE_SECTOR
              /\ Whole(img)[k].bytes[2] = (SectorOf(img.addr) + k - 1) * SectorBytes
         /\ \A k \in 1 .. Steps(img) :
              LET b == Whole(img)[Erases(img) + k].bytes
              IN /\ b[1] = FLASH_WRITE /\ b[2] = img.addr + Start(img, k)
                 /\ b[3] = Start(img, k + 1) - Start(img, k)
                 /\ \A i \in 1 .. b[3] : b[3 + i] = ImageByte(Start(img, k) + i - 1)
<1> DEFINE e == Erases(img)
           n == Steps(img)
<1>1. /\ e \in Nat \ {0} /\ n \in Nat \ {0}
      /\ EraseRequests(img) \in Seq(Requests) /\ Len(EraseRequests(img)) = e
      /\ PageRequests(img) \in Seq(Requests) /\ Len(PageRequests(img)) = n
  BY SectorsAre, StartEnds, EraseAt, PageAt, ErasePlan, PagePlan DEF Plan
<1> HIDE DEF e, n
<1>2. /\ Whole(img) \in Seq(Requests) /\ Len(Whole(img)) = e + n
      /\ \A k \in 1 .. e + n :
           Whole(img)[k] = IF k <= e THEN EraseRequests(img)[k] ELSE PageRequests(img)[k - e]
  <2>1. /\ EraseRequests(img) \o PageRequests(img) \in Seq(Requests)
        /\ Len(EraseRequests(img) \o PageRequests(img))
             = Len(EraseRequests(img)) + Len(PageRequests(img))
        /\ \A k \in 1 .. Len(EraseRequests(img)) + Len(PageRequests(img)) :
             (EraseRequests(img) \o PageRequests(img))[k] =
                IF k <= Len(EraseRequests(img)) THEN EraseRequests(img)[k]
                ELSE PageRequests(img)[k - Len(EraseRequests(img))]
    BY <1>1, ConcatProperties
  <2> QED
    BY <1>1, <2>1 DEF Whole
<1>3. \A k \in 1 .. e : Whole(img)[k] = EraseRequests(img)[k]
  <2>1. \A k \in 1 .. e : k \in 1 .. e + n /\ k <= e
    BY <1>1
  <2> QED
    BY <1>2, <2>1
<1>4. \A k \in 1 .. n : Whole(img)[e + k] = PageRequests(img)[k]
  <2>1. \A k \in 1 .. n : e + k \in 1 .. e + n /\ ~(e + k <= e) /\ (e + k) - e = k
    BY <1>1
  <2> QED
    BY <1>2, <2>1
<1>5. \A k \in 1 .. e :
        /\ EraseRequests(img)[k].bytes[1] = ERASE_SECTOR
        /\ EraseRequests(img)[k].bytes[2] = (SectorOf(img.addr) + k - 1) * SectorBytes
  BY EraseAt DEF e
<1>6. \A k \in 1 .. n :
        LET b == PageRequests(img)[k].bytes
        IN /\ b[1] = FLASH_WRITE /\ b[2] = img.addr + Start(img, k)
           /\ b[3] = Start(img, k + 1) - Start(img, k)
           /\ \A i \in 1 .. b[3] : b[3 + i] = ImageByte(Start(img, k) + i - 1)
  BY PageAt DEF n
<1>7. \A k \in 1 .. e :
        /\ Whole(img)[k].bytes[1] = ERASE_SECTOR
        /\ Whole(img)[k].bytes[2] = (SectorOf(img.addr) + k - 1) * SectorBytes
  BY <1>3, <1>5, Zenon
<1>8. \A k \in 1 .. n :
        LET b == Whole(img)[e + k].bytes
        IN /\ b[1] = FLASH_WRITE /\ b[2] = img.addr + Start(img, k)
           /\ b[3] = Start(img, k + 1) - Start(img, k)
           /\ \A i \in 1 .. b[3] : b[3 + i] = ImageByte(Start(img, k) + i - 1)
  BY <1>4, <1>6, Zenon
<1> QED
  BY <1>1, <1>2, <1>7, <1>8, Zenon DEF e, n

(* With aligned images a page request is a whole number of chunks.         *)
LEMMA StartAligned ==
  ASSUME Aligned, NEW img \in Images, NEW k \in 1 .. Steps(img)
  PROVE  /\ (img.addr + Start(img, k)) % ChunkBytes = 0
         /\ (Start(img, k + 1) - Start(img, k)) % ChunkBytes = 0
<1>1. /\ img.addr \in Nat /\ img.data_len \in Nat
      /\ ChunkBytes \in Nat \ {0} /\ StepBytes \in Nat \ {0}
      /\ img.addr % ChunkBytes = 0 /\ img.data_len % ChunkBytes = 0
      /\ StepBytes % ChunkBytes = 0
  BY ImageIs, Numbers DEF Aligned, Images
<1> DEFINE x == (k - 1) * StepBytes
           s == Start(img, k)
           t == Start(img, k + 1)
<1>2. /\ s = x /\ s \in Nat /\ t \in Nat /\ s <= t /\ t <= img.data_len
      /\ t - s = IF x + StepBytes <= img.data_len THEN StepBytes ELSE img.data_len - x
  BY StartIs
<1>3. k - 1 \in Nat
  OBVIOUS
<1>4. x % ChunkBytes = 0
  <2>1. PICK q \in Nat : StepBytes = q * ChunkBytes
    BY <1>1, Multiple
  <2>2. \A u, v, w \in Nat : u * (v * w) = (u * v) * w
    OBVIOUS
  <2>3. x = ((k - 1) * q) * ChunkBytes
    BY <1>1, <1>3, <2>1, <2>2
  <2>4. (k - 1) * q \in Nat
    BY <1>3, Product
  <2> QED
    BY <1>1, <2>3, <2>4, Multiple
<1> HIDE DEF x, s, t
<1>5. (img.addr + s) % ChunkBytes = 0
  BY <1>1, <1>2, <1>4, Multiples
<1>6. (t - s) % ChunkBytes = 0
  <2>1. x \in Nat /\ x <= img.data_len
    BY <1>1, <1>2
  <2>2. (img.data_len - x) % ChunkBytes = 0
    BY <1>1, <1>4, <2>1, Multiples
  <2> QED
    BY <1>1, <1>2, <2>2
<1> QED
  BY <1>5, <1>6 DEF s, t

(* The sector of an erase request, if its address is in the memory.        *)
LEMMA SectorAtIs ==
  ASSUME NEW img \in Images, NEW k \in 1 .. Erases(img),
         (SectorOf(img.addr) + k - 1) * SectorBytes < FlashBytes
  PROVE  SectorAt(img, k) = SectorOf(img.addr) + k - 1
<1> DEFINE n == SectorOf(img.addr) + k - 1
<1>1. n \in Nat
  BY SectorsAre
<1> HIDE DEF n
<1>2. n * SectorBytes \in Nat
  BY <1>1, Numbers, Product
<1>3. n * SectorBytes < FlashBytes
  BY DEF n
<1>4. (n * SectorBytes) % FlashBytes = n * SectorBytes
  BY <1>2, <1>3, Numbers, Small
<1>5. SectorOf(n * SectorBytes) = n
  BY <1>1, Numbers, Exactly DEF SectorOf
<1>6. SectorOf((n * SectorBytes) % FlashBytes) = n
  BY <1>4, <1>5
<1> QED
  BY <1>6 DEF SectorAt, n

(* Every address of an image is erased before.                             *)
LEMMA ImageErased ==
  ASSUME NEW img \in Images, NEW a \in Nat,
         img.addr <= a, a < img.addr + img.data_len
  PROVE  \E k \in 1 .. Erases(img) : SectorOf(a) = SectorAt(img, k)
<1> DEFINE f == SectorOf(img.addr)
           l == SectorOf(img.addr + img.data_len)
           n == SectorOf(a)
           k == n - f + 1
<1>1. /\ img.addr \in Nat /\ img.addr + img.data_len \in Nat
      /\ img.addr + img.data_len <= FlashBytes
  BY ImageIs
<1>2. /\ n \in Nat /\ f \in Nat /\ l \in Nat /\ f <= n /\ n <= l
      /\ n * SectorBytes <= a
  <2>1. a <= img.addr + img.data_len
    BY <1>1
  <2>2. a \div SectorBytes \in Nat /\ (a \div SectorBytes) * SectorBytes <= a
    BY Numbers, Quotient
  <2>3. /\ img.addr \div SectorBytes \in Nat
        /\ (img.addr + img.data_len) \div SectorBytes \in Nat
    BY <1>1, Numbers, Quotient
  <2>4. img.addr \div SectorBytes <= a \div SectorBytes
    BY <1>1, Numbers, Monotone
  <2>5. a \div SectorBytes <= (img.addr + img.data_len) \div SectorBytes
    BY <1>1, <2>1, Numbers, Monotone
  <2> QED
    BY <2>2, <2>3, <2>4, <2>5 DEF SectorOf
<1>3. Erases(img) = l - f + 1
  BY DEF Erases
<1> HIDE DEF f, l, n
<1>4. k \in 1 .. Erases(img) /\ f + k - 1 = n
  BY <1>2, <1>3
<1>5. n * SectorBytes < FlashBytes
  <2>1. n * SectorBytes \in Nat /\ FlashBytes \in Nat
    BY <1>2, Numbers, Product
  <2> QED
    BY <1>1, <1>2, <2>1
<1> HIDE DEF k
<1>6. SectorAt(img, k) = n
  <2>1. (f + k - 1) * SectorBytes < FlashBytes
    BY <1>4, <1>5
  <2>2. SectorAt(img, k) = f + k - 1
    BY <1>4, <2>1, SectorAtIs DEF f
  <2> QED
    BY <1>4, <2>2
<1> QED
  BY <1>4, <1>6 DEF n

(* What is erased is reached by the image or follows its last byte, unless *)
(* the image ends with the memory.                                         *)
LEMMA ErasedReached ==
  ASSUME NEW img \in Images, NEW k \in 1 .. Erases(img),
         img.addr + img.data_len < FlashBytes
  PROVE  \E i \in img.addr .. img.addr + img.data_len : SectorOf(i) = SectorAt(img, k)
<1> DEFINE f == SectorOf(img.addr)
           e == img.addr + img.data_len
           l == SectorOf(e)
           n == f + k - 1
<1>1. img.addr \in Nat /\ e \in Nat /\ img.addr <= e /\ e < FlashBytes
  BY ImageIs
<1>2. /\ f \in Nat /\ l \in Nat /\ f <= l /\ Erases(img) = l - f + 1
  BY SectorsAre DEF Erases
<1>3. l * SectorBytes <= e
  <2>1. (e \div SectorBytes) * SectorBytes <= e
    BY <1>1, Numbers, Quotient
  <2> QED
    BY <2>1 DEF SectorOf
<1> HIDE DEF e, f, l
<1>4. n \in Nat /\ n <= l /\ f <= n
  BY <1>2
<1>5. n * SectorBytes \in Nat /\ n * SectorBytes <= e
  <2>1. n * SectorBytes \in Nat /\ n * SectorBytes <= l * SectorBytes /\ l * SectorBytes \in Nat
    BY <1>2, <1>4, Numbers, Product
  <2> QED
    BY <1>1, <1>3, <2>1
<1>6. SectorAt(img, k) = n
  <2>1. n * SectorBytes < FlashBytes
    BY <1>1, <1>5, Numbers
  <2> QED
    BY <2>1, SectorAtIs DEF f
<1>7. CASE n = f
  <2>1. img.addr \in img.addr .. e
    BY <1>1
  <2> QED
    BY <1>6, <1>7, <2>1 DEF f, e
<1>8. CASE n # f
  <2>1. SectorOf(n * SectorBytes) = n
    BY <1>4, Numbers, Exactly DEF SectorOf
  <2>2. ~(n * SectorBytes <= img.addr)
    <3> SUFFICES ASSUME n * SectorBytes <= img.addr PROVE FALSE
      OBVIOUS
    <3>1. (n * SectorBytes) \div SectorBytes <= img.addr \div SectorBytes
      BY <1>1, <1>5, Numbers, Monotone
    <3>2. n <= f
      BY <2>1, <3>1 DEF SectorOf, f
    <3> QED
      BY <1>2, <1>4, <1>8, <3>2
  <2>3. n * SectorBytes \in img.addr .. e
    BY <1>1, <1>5, <2>2
  <2> QED
    BY <1>6, <2>1, <2>3 DEF e
<1> HIDE DEF n
<1> QED
  BY <1>7, <1>8

(* A chunk does not cross the end of a page.                               *)
LEMMA ChunkInPage ==
  ASSUME Aligned, NEW adr \in Nat, adr < FlashBytes, adr % ChunkBytes = 0,
         NEW i \in 0 .. ChunkBytes - 1
  PROVE  ((adr % FlashBytes) \div PageBytes) * PageBytes + ((adr + i) % PageBytes) = adr + i
<1> DEFINE p == adr \div PageBytes
           r == adr % PageBytes
<1>1. /\ PageBytes \in Nat \ {0} /\ ChunkBytes \in Nat \ {0} /\ FlashBytes \in Nat \ {0}
      /\ PageBytes % ChunkBytes = 0 /\ i \in Nat /\ i < ChunkBytes
  BY Numbers DEF Aligned
<1>2. adr % FlashBytes = adr
  BY <1>1, Small
<1>3. p \in Nat /\ r \in 0 .. PageBytes - 1 /\ adr = p * PageBytes + r
  BY <1>1, Remainder
<1> HIDE DEF p, r
<1>4. r \in Nat /\ r < PageBytes /\ p * PageBytes \in Nat
  BY <1>1, <1>3, Product
<1>5. r % ChunkBytes = 0
  <2>1. PICK q \in Nat : PageBytes = q * ChunkBytes
    BY <1>1, Multiple
  <2>2. \A u, v, w \in Nat : u * (v * w) = (u * v) * w
    OBVIOUS
  <2>3. p * PageBytes = (p * q) * ChunkBytes
    BY <1>1, <1>3, <2>1, <2>2
  <2>4. p * q \in Nat
    BY <1>3, Product
  <2>5. (p * PageBytes) % ChunkBytes = 0
    BY <1>1, <1>4, <2>3, <2>4, Multiple
  <2>6. p * PageBytes <= adr /\ adr - p * PageBytes = r
    BY <1>3, <1>4
  <2>7. (adr - p * PageBytes) % ChunkBytes = 0
    BY <1>1, <1>4, <2>5, <2>6, Multiples
  <2> QED
    BY <2>6, <2>7
<1>6. r + ChunkBytes <= PageBytes
  BY <1>1, <1>4, <1>5, Multiples
<1>7. r + i \in Nat /\ r + i < PageBytes
  BY <1>1, <1>4, <1>6
<1>8. (p * PageBytes + (r + i)) % PageBytes = r + i
  BY <1>1, <1>3, <1>7, Divides
<1>9. adr + i = p * PageBytes + (r + i)
  BY <1>1, <1>3, <1>4
<1>10. (adr + i) % PageBytes = r + i
  BY <1>8, <1>9
<1>11. ((adr % FlashBytes) \div PageBytes) * PageBytes = p * PageBytes
  BY <1>2 DEF p
<1> QED
  BY <1>9, <1>10, <1>11

-----------------------------------------------------------------------------
(* What the bootloader has taken in.                                       *)

Resting == {"auto", "main", "application"}

LEMMA HeldResting ==
  ASSUME mode' \in Resting
  PROVE  Held'
BY DEF Held, Resting, Clears, Programs

LEMMA HeldSame ==
  ASSUME Held, UNCHANGED <<mode, addr, len, data_page, data_idx, requests>>
  PROVE  Held'
BY DEF Held, Request

(* While it is at work, a client only reads what it sends.                 *)
LEMMA BusyStays ==
  ASSUME InTime, TypeOK, SInv, mode \notin Resting, Client \/ Deliver \/ User
  PROVE  UNCHANGED <<main_vars, flash_vars, client, image, before, requests, acked>>
<1>1. InStep /\ Planned /\ Serving /\ ~Answered /\ ~Ignored /\ requests # <<>>
  BY Busy DEF Resting
<1>2. client # "off" /\ client # "ready" /\ ~Between
  <2>1. ~Off /\ ~Between
    BY AfterIs DEF Off, Between, Resting
  <2> QED
    BY <1>1, <2>1 DEF SInv, Planned
<1>3. awaited # 0
  BY <1>1, <1>2 DEF InStep
<1>4. CASE Deliver
  BY <1>4 DEF Deliver, Arrive, user_vars
<1>5. ~Write /\ ~Finished /\ ~User
  BY <1>1, <1>2, <1>3
     DEF Write, Finished, User, StartClient, Exit, UseFlashWrite, UseErase, UsePoke, UseOther, Use
<1>6. ~ReadTimeout
  BY <1>1, NoTimeoutInStep DEF ReadTimeout
<1>7. CASE ReadReply
  <2>1. awaited > 0 /\ to_client # <<>>
    BY <1>7 DEF ReadReply
  <2>2. Sending
    BY <1>1, <2>1, Replies
  <2>3. awaited # 1
    <3>1. to_client \in Seq(Nat) /\ data_idx \in Nat /\ len \in Nat
      BY FlashAssumption DEF TypeOK, BootTypeOK
    <3>2. Len(to_client) \in Nat \ {0}
      BY <2>1, <3>1, EmptySeq, LenProperties
    <3>3. \A a \in Nat \ {0}, n, i \in Nat : i < n => a + (n - i) # 1
      OBVIOUS
    <3> QED
      BY <2>2, <3>1, <3>2, <3>3 DEF Sending
  <2> QED
    BY <1>7, <2>3 DEF ReadReply
<1> QED
  BY <1>4, <1>5, <1>6, <1>7 DEF Client

LEMMA HeldClient ==
  ASSUME InTime, TypeOK, SInv, Held, Client \/ Deliver \/ User
  PROVE  Held'
<1>1. CASE mode \in Resting
  BY <1>1, ClientStep, HeldResting
<1>2. CASE mode \notin Resting
  <2>1. UNCHANGED <<main_vars, requests>>
    BY <1>2, BusyStays
  <2> QED
    BY <2>1, HeldSame DEF main_vars
<1> QED
  BY <1>1, <1>2

LEMMA HeldBoard ==
  ASSUME TypeOK, SInv, Held, Bootloader \/ AutoBoot, UNCHANGED <<requests, awaited, to_board>>
  PROVE  Held'
<1>1. CASE mode' \in Resting
  BY <1>1, HeldResting
<1>2. CASE mode \in Resting /\ mode' \notin Resting
  <2>1. Command
    BY <1>2 DEF Bootloader, AutoBoot, Poked, Command, GetAddr, GetLen, GetData, EraseEnable,
                EraseCommand, Erasing, WriteNext, WriteCommand, Writing, Written, Read, Resting
  <2>2. mode' = "addr"
    BY <1>2, <2>1 DEF Command, Resting
  <2> QED
    BY <2>2 DEF Held, Clears, Programs
<1>3. CASE mode \notin Resting /\ mode' \notin Resting
  <2>1. InStep /\ Planned /\ Serving /\ ~Answered /\ requests # <<>>
    BY <1>3, Busy DEF Resting
  <2>2. Request' = Request
    BY DEF Request
  <2>3. CASE GetAddr
    <3>1. /\ mode = "addr" /\ getc /\ addr' = Head(rx) /\ UNCHANGED <<len, data_page, data_idx>>
          /\ mode' = IF console_cmd = ERASE_SECTOR THEN "erase" ELSE "len"
      BY <2>3 DEF GetAddr
    <3>2. Hearing /\ Head(rx) = Request.bytes[Heard + 1]
      BY <2>1, <3>1, HearsNext DEF Listens
    <3>3. Head(rx) = Request.bytes[2] /\ console_cmd = Request.bytes[1]
      BY <3>1, <3>2 DEF Heard, Hearing
    <3> QED
      BY <2>2, <3>1, <3>3 DEF Held, Clears, Programs
  <2>4. CASE GetLen
    <3>1. /\ mode = "len" /\ getc /\ len' = Head(rx) /\ UNCHANGED addr
          /\ data_page' = <<>> /\ data_idx' = 0
          /\ mode' \in {"main", "read"} \/ (console_cmd # FLASH_READ /\ mode' \in {"write", "data"})
          /\ mode' = "read" => console_cmd = FLASH_READ
      BY <2>4 DEF GetLen
    <3>2. Hearing /\ Head(rx) = Request.bytes[Heard + 1]
      BY <2>1, <3>1, HearsNext DEF Listens
    <3>3. Head(rx) = Request.bytes[3] /\ console_cmd = Request.bytes[1] /\ 2 < Len(Request.bytes)
      BY <3>1, <3>2 DEF Heard, Hearing
    <3>4. Request.bytes[1] \in {FLASH_READ, FLASH_WRITE}
      BY <2>1, <3>3, RequestIs, LongRequest
    <3>5. addr = Request.bytes[2]
      BY <3>1 DEF Held
    <3>6. Len(data_page') = 0 /\ 1 .. Len(data_page') = {}
      BY <3>1
    <3>7. mode' \notin Clears /\ mode' # "write_command"
      BY <3>1 DEF Clears
    <3> QED
      BY <2>2, <3>1, <3>3, <3>4, <3>5, <3>6, <3>7 DEF Held, Clears, Programs
  <2>5. CASE GetData
    <3>1. /\ mode = "data" /\ getc /\ data_page' = Append(data_page, Head(rx))
          /\ UNCHANGED <<addr, len, data_idx>> /\ mode' \in {"data", "write"}
      BY <2>5 DEF GetData
    <3>2. Hearing /\ Head(rx) = Request.bytes[Heard + 1] /\ Head(rx) \in Nat
      BY <2>1, <3>1, HearsNext DEF Listens
    <3>3. data_page \in Seq(Nat) /\ Len(data_page) \in Nat
      BY LenProperties DEF TypeOK, BootTypeOK
    <3>4. Heard + 1 = 3 + (Len(data_page) + 1)
      BY <3>1, <3>3 DEF Heard
    <3>5. Head(rx) = Request.bytes[3 + (Len(data_page) + 1)]
      BY <3>2, <3>4
    <3>6. /\ Len(data_page') = Len(data_page) + 1
          /\ \A i \in 1 .. Len(data_page) : data_page'[i] = data_page[i]
          /\ data_page'[Len(data_page) + 1] = Head(rx)
      BY <3>1, <3>2, <3>3, AppendProperties
    <3>7. /\ addr = Request.bytes[2] /\ Request.bytes[1] = FLASH_WRITE /\ len = Request.bytes[3]
          /\ \A i \in 1 .. Len(data_page) : data_page[i] = Request.bytes[3 + i]
          /\ data_idx = 0
      BY <3>1 DEF Held
    <3>8. \A i \in 1 .. Len(data_page') : data_page'[i] = Request.bytes[3 + i]
      <4>1. \A i \in 1 .. Len(data_page) + 1 : i \in 1 .. Len(data_page) \/ i = Len(data_page) + 1
        BY <3>3
      <4> QED
        BY <3>5, <3>6, <3>7, <4>1
    <3> QED
      BY <2>2, <3>1, <3>7, <3>8 DEF Held, Clears, Programs
  <2>6. CASE EraseEnable \/ EraseCommand
    <3>1. /\ mode \in {"erase", "erase_command"} /\ mode' \in {"erase_command", "erasing"}
          /\ UNCHANGED <<addr, len, data_page, data_idx>>
      BY <2>6 DEF EraseEnable, EraseCommand
    <3> QED
      BY <2>2, <3>1 DEF Held, Clears, Programs
  <2>7. CASE WriteNext \/ WriteCommand \/ Writing
    <3>1. /\ mode \in Programs /\ mode' \in Programs /\ UNCHANGED <<addr, len, data_page>>
          /\ mode' = "write_command" => data_idx' < len
      BY <2>7 DEF WriteNext, WriteCommand, Writing, Programs
    <3> QED
      BY <2>2, <3>1 DEF Held, Clears, Programs
  <2>8. CASE Read
    <3>1. mode = "read" /\ mode' \in {"read", "main"}
      BY <2>8 DEF Read
    <3> QED
      BY <2>2, <3>1 DEF Held, Clears, Programs
  <2>9. ~AutoBoot /\ ~Poked /\ ~Command /\ ~Erasing /\ ~Written
    BY <1>3 DEF AutoBoot, Poked, Command, Erasing, Written, Resting
  <2> QED
    BY <2>3, <2>4, <2>5, <2>6, <2>7, <2>8, <2>9 DEF Bootloader
<1> QED
  BY <1>1, <1>2, <1>3

-----------------------------------------------------------------------------
(* Where flash_write is.                                                   *)

(* A client that writes is in step, and the bootloader stays.              *)
LEMMA Writes ==
  ASSUME TypeOK, SInv, client = "write"
  PROVE  /\ InStep /\ Planned /\ ~Leaving
         /\ awaited = 0 => mode = "main" /\ Pending = <<>> /\ to_client = <<>>
         /\ awaited # 0 => Serving /\ requests # <<>>
         /\ mode \notin {"auto", "application"}
<1>1. ~Unsure /\ client # "off" /\ ~Leaving
  BY DEF Unsure, Leaving
<1>2. InStep /\ Planned
  BY <1>1, SInvIs DEF InStep
<1>3. awaited = 0 => mode = "main" /\ Pending = <<>> /\ to_client = <<>>
  BY <1>1, <1>2 DEF InStep, Between
<1>4. awaited # 0 => Serving /\ requests # <<>>
  BY <1>2 DEF InStep, Serving
<1>5. ASSUME Serving PROVE mode \notin {"auto", "application"}
  <2>1. requests # <<>>
    BY <1>5 DEF Serving
  <2>2. ~Leaves(Request)
    BY <1>1, <1>2, <2>1, RequestIs
  <2>3. After = {"main"}
    BY <2>2, AfterIs
  <2> QED
    BY <1>5, <2>3 DEF Serving, Hearing, Working, Sending, Answered, Ignored, Listens, Works
<1> QED
  BY <1>1, <1>2, <1>3, <1>4, <1>5

(* The request that the client has sent last, or sends next.               *)
LEMMA Current ==
  ASSUME TypeOK, Ordered, client = "write", requests # <<>>
  PROVE  /\ image \in Images /\ done \in Nat /\ Erases(image) \in Nat \ {0}
         /\ Steps(image) \in Nat \ {0}
         /\ Request = Whole(image)[done + 1]
         /\ done < Erases(image) =>
              /\ Request.bytes[1] = ERASE_SECTOR
              /\ Request.bytes[2] = (SectorOf(image.addr) + done) * SectorBytes
         /\ done >= Erases(image) =>
              /\ step \in 1 .. Steps(image)
              /\ Request.bytes[1] = FLASH_WRITE
              /\ Request.bytes[2] = image.addr + Start(image, step)
              /\ Request.bytes[3] = Start(image, step + 1) - Start(image, step)
              /\ \A i \in 1 .. Request.bytes[3] :
                    Request.bytes[3 + i] = ImageByte(Start(image, step) + i - 1)
<1> DEFINE e == Erases(image)
           n == Steps(image)
           d == done
<1>1. image \in Images /\ d \in Nat /\ \A k \in DOMAIN requests : requests[k] = Whole(image)[d + k]
  BY DEF Ordered
<1>2. e \in Nat \ {0} /\ n \in Nat \ {0} /\ Len(Whole(image)) = e + n
  BY <1>1, WholeIs
<1>3. Len(requests) \in Nat \ {0} /\ 1 \in DOMAIN requests /\ Request = requests[1]
  <2>1. requests \in Seq(Requests)
    BY Types DEF ClientTypes
  <2>2. Len(requests) \in Nat \ {0} /\ Head(requests) = requests[1]
    BY <2>1, EmptySeq, LenProperties, HeadTailProperties
  <2>3. 1 \in DOMAIN requests
    BY <2>1, <2>2, LenProperties
  <2> QED
    BY <2>2, <2>3 DEF Request
<1>4. d = (e + n) - Len(requests)
  BY <1>2 DEF done
<1>5. Request = Whole(image)[d + 1]
  BY <1>1, <1>3
<1> HIDE DEF d, e, n
<1>6. \A x, y \in Nat \ {0}, l \in Nat \ {0}, z \in Nat :
        z = (x + y) - l =>
          /\ z < x => z + 1 \in 1 .. x
          /\ z >= x => z - x + 1 \in 1 .. y /\ x + (z - x + 1) = z + 1
  OBVIOUS
<1>7. /\ d < e => d + 1 \in 1 .. e
      /\ d >= e => d - e + 1 \in 1 .. n /\ e + (d - e + 1) = d + 1
  BY <1>1, <1>2, <1>3, <1>4, <1>6
<1>8. ASSUME d < e
      PROVE  Request.bytes[1] = ERASE_SECTOR /\ Request.bytes[2] = (SectorOf(image.addr) + d) * SectorBytes
  <2>1. /\ Whole(image)[d + 1].bytes[1] = ERASE_SECTOR
        /\ Whole(image)[d + 1].bytes[2] = (SectorOf(image.addr) + (d + 1) - 1) * SectorBytes
    BY <1>1, <1>7, <1>8, WholeIs DEF e
  <2>2. SectorOf(image.addr) + (d + 1) - 1 = SectorOf(image.addr) + d
    BY <1>1, SectorsAre
  <2> QED
    BY <1>5, <2>1, <2>2
<1>9. ASSUME d >= e
      PROVE  /\ step \in 1 .. n
             /\ Request.bytes[1] = FLASH_WRITE
             /\ Request.bytes[2] = image.addr + Start(image, step)
             /\ Request.bytes[3] = Start(image, step + 1) - Start(image, step)
             /\ \A i \in 1 .. Request.bytes[3] :
                   Request.bytes[3 + i] = ImageByte(Start(image, step) + i - 1)
  <2>1. step = d - e + 1
    BY DEF step, d, e
  <2>2. step \in 1 .. n /\ Whole(image)[e + step] = Request
    BY <1>5, <1>7, <1>9, <2>1
  <2> HIDE DEF step
  <2>3. LET b == Whole(image)[e + step].bytes
        IN /\ b[1] = FLASH_WRITE /\ b[2] = image.addr + Start(image, step)
           /\ b[3] = Start(image, step + 1) - Start(image, step)
           /\ \A i \in 1 .. b[3] : b[3 + i] = ImageByte(Start(image, step) + i - 1)
    BY <1>1, <2>2, WholeIs DEF e, n
  <2> QED
    BY <2>2, <2>3
<1> QED
  BY <1>1, <1>2, <1>5, <1>8, <1>9 DEF d, e, n

(* A request that is answered.                                             *)
LEMMA Advances ==
  ASSUME TypeOK, Ordered, client = "write", requests # <<>>, requests' = Tail(requests),
         UNCHANGED <<client, image>>
  PROVE  Ordered' /\ done' = done + 1
<1> DEFINE w == Len(Whole(image))
<1>1. image \in Images /\ done \in Nat /\ \A k \in DOMAIN requests : requests[k] = Whole(image)[done + k]
  BY DEF Ordered
<1>2. w \in Nat
  BY <1>1, WholeIs
<1>3. requests \in Seq(Requests) /\ Len(requests) \in Nat \ {0}
  <2>1. requests \in Seq(Requests)
    BY Types DEF ClientTypes
  <2> QED
    BY <2>1, EmptySeq, LenProperties
<1>4. /\ requests' \in Seq(Requests) /\ Len(requests') = Len(requests) - 1
      /\ \A k \in 1 .. Len(requests') : requests'[k] = requests[k + 1]
  BY <1>3, HeadTailProperties
<1>5. done = w - Len(requests) /\ done' = w - Len(requests')
  BY DEF done
<1> HIDE DEF w
<1>6. done' = done + 1
  BY <1>2, <1>3, <1>4, <1>5
<1>7. \A k \in DOMAIN requests' : requests'[k] = Whole(image)[done' + k]
  <2> SUFFICES ASSUME NEW k \in DOMAIN requests' PROVE requests'[k] = Whole(image)[done' + k]
    OBVIOUS
  <2>1. k \in 1 .. Len(requests') /\ Len(requests') \in Nat /\ DOMAIN requests = 1 .. Len(requests)
    BY <1>3, <1>4, LenProperties
  <2>2. k + 1 \in DOMAIN requests /\ done + (k + 1) = done' + k
    <3>1. \A l \in Nat \ {0}, d \in Nat : \A i \in 1 .. l - 1 : i + 1 \in 1 .. l /\ d + (i + 1) = (d + 1) + i
      OBVIOUS
    <3> HIDE DEF done
    <3>2. k \in 1 .. Len(requests) - 1
      BY <1>4, <2>1
    <3> QED
      BY <1>1, <1>3, <1>6, <2>1, <3>1, <3>2
  <2> HIDE DEF done
  <2>3. requests[k + 1] = Whole(image)[done + (k + 1)]
    BY <1>1, <2>2
  <2> QED
    BY <1>4, <2>1, <2>2, <2>3
<1> QED
  BY <1>1, <1>6, <1>7 DEF Ordered

(* What a step does to the requests: none is added but by the user.        *)
LEMMA RequestsStep ==
  ASSUME TypeOK, SInv, Next
  PROVE  \/ UNCHANGED <<requests, client, image>>
         \/ /\ requests # <<>> /\ requests' = Tail(requests) /\ UNCHANGED <<client, image>>
            /\ ReadReply \/ ReadTimeout
         \/ client' \in {"ready", "off"} /\ (requests' = <<>> \/ (client # "write" /\ UNCHANGED requests))
         \/ client' = "poke" /\ requests' = PokeRequest
         \/ UseFlashWrite \/ UseErase \/ UseOther
<1>1. CASE Write
  <2>1. Head(requests).replies # 0
    BY <1>1, NextRequest, Numbers DEF Write
  <2> QED
    BY <1>1, <2>1 DEF Write, user_vars
<1>2. CASE ReadReply
  <2>1. requests # <<>>
    BY <1>2, Awaiting DEF ReadReply
  <2> QED
    BY <1>2, <2>1 DEF ReadReply, Done
<1>3. CASE ReadTimeout
  <2>1. requests # <<>>
    BY <1>3, Awaiting DEF ReadTimeout
  <2> QED
    BY <1>3, <2>1 DEF ReadTimeout
<1>4. CASE Finished
  BY <1>4 DEF Finished, client_vars
<1>5. CASE User
  BY <1>5 DEF User, StartClient, Exit, UsePoke, client_vars
<1>6. CASE PowerFailure
  BY <1>6 DEF PowerFailure
<1>7. CASE Deliver \/ Board \/ FlashFinish \/ BoardTimeout
  BY <1>7 DEF Deliver, Board, FlashFinish, BoardTimeout, user_vars, client_vars
<1> QED
  BY <1>1, <1>2, <1>3, <1>4, <1>5, <1>6, <1>7 DEF Next, Client

LEMMA TailOf ==
  ASSUME TypeOK, requests # <<>>, requests' = Tail(requests)
  PROVE  \A k \in DOMAIN requests' : k + 1 \in DOMAIN requests /\ requests'[k] = requests[k + 1]
<1>1. requests \in Seq(Requests)
  BY Types DEF ClientTypes
<1>2. Len(requests) \in Nat \ {0} /\ DOMAIN requests = 1 .. Len(requests)
  BY <1>1, EmptySeq, LenProperties
<1>3. /\ requests' \in Seq(Requests) /\ Len(requests') = Len(requests) - 1
      /\ \A k \in 1 .. Len(requests') : requests'[k] = requests[k + 1]
  BY <1>1, HeadTailProperties
<1>4. DOMAIN requests' = 1 .. Len(requests')
  BY <1>3, LenProperties
<1>5. \A l \in Nat \ {0} : \A k \in 1 .. l - 1 : k + 1 \in 1 .. l
  OBVIOUS
<1>6. \A k \in 1 .. Len(requests') : k + 1 \in 1 .. Len(requests)
  BY <1>2, <1>3, <1>5
<1> QED
  BY <1>2, <1>3, <1>4, <1>6

LEMMA OneRequest ==
  ASSUME NEW bytes
  PROVE  /\ \A c \in {POKE, STATUS_BYTE, RESET, EXECUTE, DEMO} : \A k \in DOMAIN Simple(c) :
              Spares(Simple(c)[k], bytes)
         /\ \A a, n : \A k \in DOMAIN ReadRequest(a, n) : Spares(ReadRequest(a, n)[k], bytes)
<1>1. \A r, k : k \in DOMAIN <<r>> => <<r>>[k] = r
  OBVIOUS
<1>2. ASSUME NEW c \in {POKE, STATUS_BYTE, RESET, EXECUTE, DEMO}, NEW k, k \in DOMAIN Simple(c)
      PROVE  Spares(Simple(c)[k], bytes)
  <2>1. Simple(c)[k] = [bytes |-> <<c>>, replies |-> 1]
    BY <1>1, <1>2 DEF Simple
  <2>2. Simple(c)[k].bytes[1] = c
    BY <2>1
  <2> QED
    BY <2>2 DEF Spares, POKE, STATUS_BYTE, RESET, EXECUTE, DEMO, ERASE_SECTOR, FLASH_WRITE
<1>3. ASSUME NEW a, NEW n, NEW k, k \in DOMAIN ReadRequest(a, n)
      PROVE  Spares(ReadRequest(a, n)[k], bytes)
  <2>1. ReadRequest(a, n)[k] = [bytes |-> <<FLASH_READ, a, n>>, replies |-> n]
    BY <1>1, <1>3 DEF ReadRequest
  <2>2. ReadRequest(a, n)[k].bytes[1] = FLASH_READ
    BY <2>1
  <2> QED
    BY <2>2 DEF Spares, FLASH_READ, ERASE_SECTOR, FLASH_WRITE
<1> QED
  BY <1>2, <1>3

(* Only flash_write acknowledges anything.                                 *)
LEMMA NoReplyAcks ==
  ASSUME TypeOK, Harmless, client # "write", requests # <<>>
  PROVE  PageOf(Request) = {}
<1>1. requests \in Seq(Requests)
  BY Types DEF ClientTypes
<1>2. Len(requests) \in Nat \ {0} /\ Head(requests) = requests[1]
  BY <1>1, EmptySeq, LenProperties, HeadTailProperties
<1>3. 1 \in DOMAIN requests /\ Request = requests[1]
  BY <1>1, <1>2, LenProperties DEF Request
<1> QED
  BY <1>3 DEF Harmless, Spares, PageOf

LEMMA AckedShrinks ==
  ASSUME TypeOK, SInv, Harmless, Next, client # "write", client' # "write"
  PROVE  acked' \subseteq acked
<1>1. CASE ReadReply
  <2>1. acked' \in {acked, acked \cup PageOf(Request)}
    BY <1>1 DEF ReadReply, Request
  <2>2. requests # <<>>
    BY <1>1, Awaiting DEF ReadReply
  <2> QED
    BY <2>1, <2>2, NoReplyAcks
<1>2. CASE Write \/ ReadTimeout \/ Finished \/ Deliver \/ PowerFailure
  BY <1>2 DEF Write, ReadTimeout, Finished, Deliver, PowerFailure, client_vars
<1>3. CASE User
  <2>1. CASE UseErase
    BY <2>1 DEF UseErase
  <2>2. CASE UseFlashWrite
    BY <2>2 DEF UseFlashWrite, Use
  <2>3. CASE StartClient \/ Exit \/ UsePoke \/ UseOther
    BY <2>3 DEF StartClient, Exit, UsePoke, UseOther, client_vars
  <2> QED
    BY <1>3, <2>1, <2>2, <2>3 DEF User
<1>4. CASE Board \/ FlashFinish \/ BoardTimeout
  BY <1>4 DEF Board, FlashFinish, BoardTimeout, client_vars
<1> QED
  BY <1>1, <1>2, <1>3, <1>4 DEF Next, Client

LEMMA HarmlessNext ==
  ASSUME TypeOK, SInv, Harmless, Next
  PROVE  Harmless'
<1> DEFINE Spared(r) == Spares(r, acked')
<1> SUFFICES ASSUME client' # "write", NEW k, k \in DOMAIN requests'
             PROVE  Spared(requests'[k])
  BY DEF Harmless, Spares
<1>1. client # "write" => \A j \in DOMAIN requests : Spared(requests[j])
  BY AckedShrinks DEF Harmless, Spares
<1> HIDE DEF Spared
<1>2. CASE UNCHANGED <<requests, client, image>>
  BY <1>1, <1>2
<1>3. CASE requests # <<>> /\ requests' = Tail(requests) /\ UNCHANGED client
  BY <1>1, <1>3, TailOf
<1>4. CASE requests' = <<>> \/ (client # "write" /\ UNCHANGED requests)
  BY <1>1, <1>4
<1>5. CASE requests' = PokeRequest
  BY <1>5, OneRequest DEF PokeRequest, Spared
<1>6. CASE UseFlashWrite
  BY <1>6 DEF UseFlashWrite, Use
<1>7. CASE UseOther
  <2>1. \/ \E c \in {POKE, STATUS_BYTE, RESET, EXECUTE, DEMO} : requests' = Simple(c)
        \/ \E a, n : requests' = ReadRequest(a, n)
    BY <1>7 DEF UseOther, Use
  <2> QED
    BY <2>1, OneRequest DEF Spared
<1>8. CASE UseErase
  <2>1. PICK a \in EraseAddrs :
          /\ requests' = <<[bytes |-> <<ERASE_SECTOR, a>>, replies |-> 1]>>
          /\ acked' = {b \in acked : SectorOf(b) # SectorOf(a % FlashBytes)}
    BY <1>8, Zenon DEF UseErase, Use
  <2>2. requests'[k] = [bytes |-> <<ERASE_SECTOR, a>>, replies |-> 1]
    BY <2>1
  <2>3. requests'[k].bytes[1] = ERASE_SECTOR /\ requests'[k].bytes[2] = a
    BY <2>2
  <2>4. ERASE_SECTOR # FLASH_WRITE
    BY DEF ERASE_SECTOR, FLASH_WRITE
  <2>5. \A b \in acked' : SectorOf(b) # SectorOf(a % FlashBytes)
    BY <2>1
  <2> QED
    BY <2>3, <2>4, <2>5 DEF Spares, Spared
<1> QED
  BY <1>2, <1>3, <1>4, <1>5, <1>6, <1>7, <1>8, RequestsStep

LEMMA OrderedNext ==
  ASSUME TypeOK, SInv, Ordered, Next
  PROVE  Ordered'
<1> SUFFICES ASSUME client' = "write" PROVE Ordered'
  BY DEF Ordered
<1>1. CASE UNCHANGED <<requests, client, image>>
  BY <1>1 DEF Ordered, done
<1>2. CASE requests # <<>> /\ requests' = Tail(requests) /\ UNCHANGED <<client, image>>
  BY <1>2, Advances
<1>3. CASE UseFlashWrite
  <2>1. image' \in Images /\ requests' = Whole(image')
    BY <1>3 DEF UseFlashWrite, Use, Whole
  <2>2. Len(Whole(image')) \in Nat
    BY <2>1, WholeIs
  <2>3. done' = 0
    <3>1. done' = Len(Whole(image')) - Len(requests')
      BY DEF done
    <3> QED
      BY <2>1, <2>2, <3>1
  <2>4. \A k \in DOMAIN requests' : 0 + k = k
    <3>1. DOMAIN Whole(image') = 1 .. Len(Whole(image'))
      BY <2>1, WholeIs, LenProperties
    <3> QED
      BY <2>1, <2>2, <3>1
  <2> QED
    BY <2>1, <2>3, <2>4 DEF Ordered
<1>4. CASE UseErase \/ UseOther
  BY <1>4 DEF UseErase, UseOther, Use
<1> QED
  BY <1>1, <1>2, <1>3, <1>4, RequestsStep

-----------------------------------------------------------------------------
(* What the flash is to hold.                                              *)

LEMMA SettledSame ==
  ASSUME UNCHANGED <<cells, changing>>
  PROVE  \A a \in FlashAddresses : Settled(a)' = Settled(a)
BY DEF Settled

LEMMA SettledFinish ==
  ASSUME Finish
  PROVE  \A a \in FlashAddresses : Settled(a)' = Settled(a)
BY IdleIsIdle DEF Finish, Settled

LEMMA EraseIs ==
  ASSUME WEL, ~WIP, NEW adr, SectorErase(adr)
  PROVE  /\ UNCHANGED cells
         /\ \A a \in FlashAddresses :
              Settled(a)' = IF SectorOf(a) = SectorOf(adr % FlashBytes) THEN Erased
                            ELSE Settled(a)
<1> DEFINE sector == {x \in FlashAddresses : SectorOf(x) = SectorOf(adr % FlashBytes)}
<1>1. changing' = [a \in sector |-> Erased] /\ UNCHANGED cells
  BY DEF SectorErase, Change
<1>2. DOMAIN changing = {}
  BY DEF WIP
<1>3. \A a \in FlashAddresses : a \in sector <=> SectorOf(a) = SectorOf(adr % FlashBytes)
  OBVIOUS
<1> HIDE DEF sector
<1>4. /\ DOMAIN changing' = sector
      /\ \A a \in sector : changing'[a] = Erased
  BY <1>1
<1> QED
  BY <1>1, <1>2, <1>3, <1>4 DEF Settled

LEMMA ProgramIs ==
  ASSUME Aligned, WEL, ~WIP,
         NEW adr \in Nat, adr % ChunkBytes = 0, adr + ChunkBytes <= FlashBytes,
         NEW byte, PageProgram(adr, ChunkBytes, byte)
  PROVE  /\ UNCHANGED cells
         /\ \A a \in FlashAddresses :
              IF a \in adr .. adr + ChunkBytes - 1
              THEN cells[a] = Erased => Settled(a)' = byte[a - adr]
              ELSE Settled(a)' = Settled(a)
         /\ DOMAIN changing' = adr .. adr + ChunkBytes - 1
<1> DEFINE page == ((adr % FlashBytes) \div PageBytes) * PageBytes
           Place(i) == page + ((adr + i) % PageBytes)
           IndexAt(a) == CHOOSE i \in 0 .. ChunkBytes - 1 : Place(i) = a
           places == {Place(i) : i \in 0 .. ChunkBytes - 1}
<1>1. /\ changing' = [a \in places |-> IF cells[a] = Erased THEN byte[IndexAt(a)] ELSE Junk]
      /\ UNCHANGED cells
  BY DEF PageProgram, Change
<1>2. DOMAIN changing = {}
  BY DEF WIP
<1>3. ChunkBytes \in Nat \ {0} /\ FlashBytes \in Nat \ {0} /\ adr < FlashBytes
  BY Numbers
<1>4. \A i \in 0 .. ChunkBytes - 1 : Place(i) = adr + i
  BY <1>3, ChunkInPage
<1> HIDE DEF Place
<1>5. places = adr .. adr + ChunkBytes - 1
  <2>1. \A n, c \in Nat : \A a \in n .. n + c - 1 : a - n \in 0 .. c - 1 /\ n + (a - n) = a
    OBVIOUS
  <2>2. \A a \in adr .. adr + ChunkBytes - 1 : \E i \in 0 .. ChunkBytes - 1 : a = adr + i
    BY <1>3, <2>1
  <2>3. \A i \in 0 .. ChunkBytes - 1 : adr + i \in adr .. adr + ChunkBytes - 1
    BY <1>3
  <2> QED
    BY <1>4, <2>2, <2>3
<1>6. \A a \in adr .. adr + ChunkBytes - 1 : IndexAt(a) = a - adr
  <2> SUFFICES ASSUME NEW a \in adr .. adr + ChunkBytes - 1 PROVE IndexAt(a) = a - adr
    OBVIOUS
  <2>1. \A n, c \in Nat : \A x \in n .. n + c - 1 : x - n \in 0 .. c - 1 /\ n + (x - n) = x
    OBVIOUS
  <2>2. a - adr \in 0 .. ChunkBytes - 1 /\ adr + (a - adr) = a
    BY <1>3, <2>1
  <2>3. Place(a - adr) = a
    BY <1>4, <2>2
  <2>4. IndexAt(a) \in 0 .. ChunkBytes - 1 /\ Place(IndexAt(a)) = a
    BY <2>2, <2>3
  <2> HIDE DEF IndexAt
  <2>5. adr + IndexAt(a) = a
    BY <1>4, <2>4
  <2>6. \A i \in 0 .. ChunkBytes - 1 : adr + i = a => i = a - adr
    BY <1>3
  <2> QED
    BY <2>4, <2>5, <2>6
<1> HIDE DEF places, IndexAt
<1>7. /\ DOMAIN changing' = places
      /\ \A a \in places : cells[a] = Erased => changing'[a] = byte[IndexAt(a)]
  BY <1>1
<1>8. ASSUME NEW a \in FlashAddresses
      PROVE  IF a \in adr .. adr + ChunkBytes - 1
             THEN cells[a] = Erased => Settled(a)' = byte[a - adr]
             ELSE Settled(a)' = Settled(a)
  <2>1. CASE a \in adr .. adr + ChunkBytes - 1
    <3>1. IndexAt(a) = a - adr
      BY <1>6, <2>1
    <3>2. a \in places
      BY <1>5, <2>1
    <3> QED
      BY <1>7, <2>1, <3>1, <3>2 DEF Settled
  <2>2. CASE a \notin adr .. adr + ChunkBytes - 1
    <3>1. a \notin places
      BY <1>5, <2>2
    <3> QED
      BY <1>1, <1>2, <1>7, <2>2, <3>1 DEF Settled
  <2> QED
    BY <2>1, <2>2
<1> QED
  BY <1>1, <1>5, <1>7, <1>8

LEMMA ProgressSame ==
  ASSUME Progress, UNCHANGED <<client, image, before>>,
         \A a \in FlashAddresses : Settled(a)' = Settled(a),
         erased' = erased, written' = written, mode' \in Programs => data_idx' % ChunkBytes = 0
  PROVE  Progress'
<1> SUFFICES ASSUME client = "write" PROVE Progress'
  BY DEF Progress
<1> HIDE DEF Settled, erased, written
<1>1. \A a \in FlashAddresses : Settled(a) = Target(a, erased, written)
  BY DEF Progress
<1>2. \A a \in FlashAddresses : Settled(a)' = Target(a, erased, written)
  BY <1>1
<1>3. \A a \in FlashAddresses : Target(a, erased, written)' = Target(a, erased, written)
  BY DEF Target
<1>4. \A a \in FlashAddresses : Settled(a)' = Target(a, erased, written)'
  BY <1>2, <1>3
<1> QED
  BY <1>4 DEF Progress

(* The bootloader works for the client that writes.                        *)
LEMMA BoardServes ==
  ASSUME TypeOK, SInv, client = "write", Bootloader \/ AutoBoot
  PROVE  Serving /\ requests # <<>> /\ awaited # 0
<1>1. awaited # 0
  <2> SUFFICES ASSUME awaited = 0 PROVE FALSE
    OBVIOUS
  <2>1. mode = "main" /\ Pending = <<>>
    BY Writes
  <2>2. rx = <<>>
    BY <2>1, LineOK, NonePending
  <2>3. Command
    BY <2>1 DEF Bootloader, AutoBoot, Poked, Command, GetAddr, GetLen, GetData, EraseEnable,
                EraseCommand, Erasing, WriteNext, WriteCommand, Writing, Written, Read
  <2> QED
    BY <2>2, <2>3 DEF Command, getc
<1> QED
  BY <1>1, Writes

(* Every step but the commands to the flash keeps the place.               *)
LEMMA BoardPosition ==
  ASSUME TypeOK, SInv, Held, Ordered, Progress, client = "write", Bootloader \/ AutoBoot,
         ~EraseCommand, ~WriteCommand, UNCHANGED <<user_vars, client_vars>>
  PROVE  /\ erased' = erased /\ written' = written
         /\ mode' \in Programs => data_idx' % ChunkBytes = 0
         /\ UNCHANGED <<cells, changing>>
<1>1. /\ Serving /\ requests # <<>> /\ Planned /\ mode \notin {"auto", "application"}
  BY BoardServes, Writes
<1> DEFINE e == Erases(image)
<1>2. /\ image \in Images /\ done \in Nat /\ e \in Nat
      /\ done < e => Request.bytes[1] = ERASE_SECTOR
      /\ done >= e => /\ step \in 1 .. Steps(image) /\ Request.bytes[1] = FLASH_WRITE
                      /\ Request.bytes[3] = Start(image, step + 1) - Start(image, step)
  BY <1>1, Current
<1>3. done' = done /\ step' = step /\ image' = image /\ Request' = Request
  BY DEF user_vars, client_vars, done, step, Request
<1>4. done >= e => /\ Start(image, step) \in Nat /\ Start(image, step + 1) \in Nat
                   /\ Start(image, step) + (Start(image, step + 1) - Start(image, step))
                        = Start(image, step + 1)
  BY <1>2, StartIs
<1>5. Request.bytes[1] \in {ERASE_SECTOR, FLASH_WRITE}
  <2>1. done < e \/ done >= e
    BY <1>2
  <2> QED
    BY <1>2, <2>1
<1> HIDE DEF e
<1>6. /\ erased = IF done >= e THEN e ELSE IF mode = "erasing" \/ to_client # <<>> THEN done + 1 ELSE done
      /\ erased' = IF done >= e THEN e
                   ELSE IF mode' = "erasing" \/ to_client' # <<>> THEN done + 1 ELSE done
  BY <1>3 DEF erased, e
<1>7. /\ written = IF done < e THEN 0
                   ELSE IF mode \in Programs THEN Start(image, step) + data_idx
                   ELSE IF to_client # <<>> THEN Start(image, step + 1) ELSE Start(image, step)
      /\ written' = IF done < e THEN 0
                    ELSE IF mode' \in Programs THEN Start(image, step) + data_idx'
                    ELSE IF to_client' # <<>> THEN Start(image, step + 1) ELSE Start(image, step)
  BY <1>3 DEF written, e
<1> HIDE DEF done, step
<1>8. (mode \in Listens \/ mode \in Works) /\ rx # <<>> => to_client = <<>>
  <2>1. Answered => rx = <<>>
    BY LineOK, NonePending DEF Answered
  <2> QED
    BY <1>1, <2>1 DEF Serving, Hearing, Working, Sending, Ignored, Listens, Works
<1>9. mode \in Works => to_client = <<>>
  BY <1>1, AfterIs DEF Serving, Hearing, Working, Sending, Answered, Ignored, Listens, Works
<1>10. 0 % ChunkBytes = 0
  BY Numbers, Small
<1>11. \A b : Append(to_client, b) # <<>>
  <2>1. to_client \in Seq(Nat)
    BY DEF TypeOK, BootTypeOK
  <2>2. ASSUME NEW b PROVE Append(to_client, b) # <<>>
    <3> DEFINE S == Nat \cup {b}
    <3>1. to_client \in Seq(S) /\ b \in S
      BY <2>1
    <3> HIDE DEF S
    <3>2. Len(Append(to_client, b)) = Len(to_client) + 1 /\ Len(to_client) \in Nat
      BY <3>1, AppendProperties, LenProperties
    <3> QED
      BY <3>2
  <2> QED
    BY <2>2
<1>12. CASE Command
  <2>1. mode = "main" /\ getc /\ Head(rx) = Request.bytes[Heard + 1] /\ Heard = 0
    <3>1. mode = "main" /\ getc
      BY <1>12 DEF Command
    <3>2. UNCHANGED to_board
      BY DEF client_vars
    <3> QED
      BY <1>1, <3>1, <3>2, HearsNext DEF Listens, Heard
  <2>2. Head(rx) \in {ERASE_SECTOR, FLASH_WRITE}
    BY <1>5, <2>1
  <2>3. mode' = "addr" /\ UNCHANGED <<to_client, flash_vars>>
    BY <1>12, <2>2 DEF Command, ERASE_SECTOR, FLASH_WRITE, FLASH_READ, RESET, EXECUTE, POKE, STATUS_BYTE
  <2> QED
    BY <1>6, <1>7, <2>1, <2>3 DEF Programs, flash_vars
<1>13. CASE GetAddr
  <2>1. /\ mode = "addr" /\ mode' \in {"erase", "len"} /\ UNCHANGED <<to_client, flash_vars>>
    BY <1>13 DEF GetAddr
  <2> QED
    BY <1>6, <1>7, <2>1 DEF Programs, flash_vars
<1>14. CASE GetLen
  <2>1. /\ mode = "len" /\ mode' \in {"main", "read", "data", "write"} /\ data_idx' = 0
        /\ UNCHANGED <<to_client, flash_vars>> /\ rx # <<>>
    BY <1>14 DEF GetLen, getc
  <2>2. to_client = <<>>
    BY <1>8, <2>1 DEF Listens
  <2>3. done >= e => Start(image, step) + 0 = Start(image, step)
    BY <1>4
  <2>4. written' = written
    BY <1>7, <2>1, <2>2, <2>3 DEF Programs
  <2> QED
    BY <1>6, <1>10, <2>1, <2>4 DEF Programs, flash_vars
<1>15. CASE GetData
  <2>1. /\ mode = "data" /\ mode' \in {"data", "write"} /\ data_idx' = data_idx
        /\ UNCHANGED <<to_client, flash_vars>> /\ rx # <<>>
    BY <1>15 DEF GetData, getc
  <2>2. to_client = <<>>
    BY <1>8, <2>1 DEF Listens
  <2>3. data_idx = 0
    BY <2>1 DEF Held
  <2>4. done >= e => Start(image, step) + 0 = Start(image, step)
    BY <1>4
  <2>5. written' = written
    BY <1>7, <2>1, <2>2, <2>3, <2>4 DEF Programs
  <2> QED
    BY <1>6, <1>10, <2>1, <2>3, <2>5 DEF Programs, flash_vars
<1>16. CASE EraseEnable
  <2>1. /\ mode = "erase" /\ mode' = "erase_command" /\ UNCHANGED <<to_client, cells, changing>>
    BY <1>16 DEF EraseEnable, WriteEnable
  <2> QED
    BY <1>6, <1>7, <2>1 DEF Programs
<1>17. CASE Erasing
  <2>1. /\ mode = "erasing" /\ mode' = "main" /\ to_client' # <<>> /\ UNCHANGED flash_vars
    BY <1>11, <1>17 DEF Erasing, putc
  <2>2. Request.bytes[1] = ERASE_SECTOR
    BY <2>1 DEF Held, Clears
  <2>3. ~(done >= e) /\ done < e
    <3>1. ~(done >= e)
      BY <1>2, <2>2 DEF ERASE_SECTOR, FLASH_WRITE
    <3> QED
      BY <1>2, <3>1
  <2> QED
    BY <1>6, <1>7, <2>1, <2>3 DEF Programs, flash_vars
<1>18. CASE WriteNext \/ Writing
  <2>1. /\ mode \in Programs /\ mode' \in Programs /\ mode' # "erasing" /\ mode # "erasing"
        /\ UNCHANGED <<to_client, cells, changing, data_idx>>
    BY <1>18 DEF WriteNext, Writing, WriteEnable, Programs, flash_vars
  <2>2. data_idx % ChunkBytes = 0
    BY <2>1 DEF Progress
  <2> QED
    BY <1>6, <1>7, <2>1, <2>2
<1>19. CASE Written
  <2>1. /\ mode = "write" /\ mode' = "main" /\ to_client' # <<>> /\ UNCHANGED flash_vars
        /\ data_idx = len
    BY <1>11, <1>19 DEF Written, putc
  <2>2. Request.bytes[1] = FLASH_WRITE /\ len = Request.bytes[3]
    BY <2>1 DEF Held, Programs
  <2>3. done >= e /\ ~(done < e)
    <3>1. ~(done < e)
      BY <1>2, <2>2 DEF ERASE_SECTOR, FLASH_WRITE
    <3> QED
      BY <1>2, <3>1
  <2>4. Start(image, step) + data_idx = Start(image, step + 1)
    BY <1>2, <1>4, <2>1, <2>2, <2>3
  <2> QED
    BY <1>6, <1>7, <2>1, <2>3, <2>4 DEF Programs, flash_vars
<1>20. ~Read
  <2>1. Read => Request.bytes[1] = FLASH_READ
    BY DEF Read, Held
  <2> QED
    BY <1>5, <2>1 DEF ERASE_SECTOR, FLASH_WRITE, FLASH_READ
<1>21. ~AutoBoot /\ ~Poked
  BY <1>1 DEF AutoBoot, Poked
<1> QED
  BY <1>12, <1>13, <1>14, <1>15, <1>16, <1>17, <1>18, <1>19, <1>20, <1>21 DEF Bootloader

(* A sector is erased.                                                     *)
LEMMA EraseStep ==
  ASSUME TypeOK, SInv, IInv, Held, Ordered, Progress, client = "write", EraseCommand,
         UNCHANGED <<user_vars, client_vars>>
  PROVE  Progress' /\ UNCHANGED cells /\ done < Erases(image)
<1> DEFINE e == Erases(image)
           n == SectorOf(image.addr)
<1>1. /\ mode = "erase_command" /\ mode' = "erasing" /\ SectorErase(addr)
      /\ UNCHANGED to_client
  BY DEF EraseCommand
<1>2. Serving /\ requests # <<>> /\ to_client = <<>>
  <2>1. Serving /\ requests # <<>> /\ ~Answered /\ ~Ignored
    BY <1>1, Busy
  <2> QED
    BY <1>1, <2>1 DEF Serving, Hearing, Working, Sending, Listens
<1>3. /\ image \in Images /\ done \in Nat /\ e \in Nat
      /\ done < e => Request.bytes[2] = (n + done) * SectorBytes
      /\ done >= e => Request.bytes[1] = FLASH_WRITE
  BY <1>2, Current
<1>4. Request.bytes[1] = ERASE_SECTOR /\ addr = Request.bytes[2]
  BY <1>1 DEF Held, Clears
<1>5. done < e /\ ~(done >= e)
  <2>1. ~(done >= e)
    BY <1>3, <1>4 DEF ERASE_SECTOR, FLASH_WRITE
  <2> QED
    BY <1>3, <2>1
<1>6. SectorOf(addr % FlashBytes) = SectorAt(image, done + 1)
  <2>1. n \in Nat
    BY <1>3, SectorsAre
  <2> HIDE DEF n, done
  <2>2. n + (done + 1) - 1 = n + done
    BY <1>3, <2>1
  <2>3. addr = (n + (done + 1) - 1) * SectorBytes
    BY <1>3, <1>4, <1>5, <2>2
  <2> QED
    BY <2>3 DEF SectorAt, n
<1>7. done' = done /\ UNCHANGED <<image, before, client>>
  BY DEF user_vars, client_vars, done
<1>8. erased = done /\ erased' = done + 1 /\ written = 0 /\ written' = 0
  BY <1>1, <1>2, <1>5, <1>7 DEF erased, written
<1>9. WEL /\ ~WIP
  BY <1>1 DEF IInv, Commands
<1>10. /\ UNCHANGED cells
       /\ \A a \in FlashAddresses :
            Settled(a)' = IF SectorOf(a) = SectorOf(addr % FlashBytes) THEN Erased
                          ELSE Settled(a)
  BY <1>1, <1>9, EraseIs
<1>11. \A a \in FlashAddresses : Settled(a) = Target(a, erased, written)
  BY DEF Progress
<1> HIDE DEF done, erased, written, Settled
<1>12. \A a \in FlashAddresses : Settled(a) =
         IF \E k \in 1 .. done : SectorOf(a) = SectorAt(image, k) THEN Erased ELSE before[a]
  <2>1. image.addr .. image.addr + 0 - 1 = {}
    BY <1>3, ImageIs
  <2> QED
    BY <1>8, <1>11, <2>1 DEF Target
<1>13. \A a \in FlashAddresses : Settled(a)' =
         IF \E k \in 1 .. done + 1 : SectorOf(a) = SectorAt(image, k) THEN Erased ELSE before[a]
  <2> SUFFICES ASSUME NEW a \in FlashAddresses
               PROVE  Settled(a)' = IF \E k \in 1 .. done + 1 : SectorOf(a) = SectorAt(image, k)
                                    THEN Erased ELSE before[a]
    OBVIOUS
  <2>1. 1 .. done + 1 = (1 .. done) \cup {done + 1}
    BY <1>3
  <2>2. (\E k \in 1 .. done + 1 : SectorOf(a) = SectorAt(image, k))
          <=> \/ \E k \in 1 .. done : SectorOf(a) = SectorAt(image, k)
              \/ SectorOf(a) = SectorAt(image, done + 1)
    BY <2>1
  <2> QED
    BY <1>6, <1>10, <1>12, <2>2
<1>14. \A a \in FlashAddresses : Target(a, erased, written)' =
         IF \E k \in 1 .. done + 1 : SectorOf(a) = SectorAt(image, k) THEN Erased ELSE before[a]
  <2>1. image.addr .. image.addr + 0 - 1 = {}
    BY <1>3, ImageIs
  <2> QED
    BY <1>7, <1>8, <2>1 DEF Target
<1>15. \A a \in FlashAddresses : Settled(a)' = Target(a, erased, written)'
  BY <1>13, <1>14
<1> QED
  BY <1>1, <1>5, <1>10, <1>15 DEF Progress, Programs

(* A chunk is programmed: its cells are erased, and it holds the next      *)
(* bytes of the image.                                                     *)
LEMMA WriteStep ==
  ASSUME Aligned, TypeOK, SInv, IInv, Held, Ordered, Progress, client = "write", WriteCommand,
         UNCHANGED <<user_vars, client_vars>>
  PROVE  /\ Progress' /\ UNCHANGED cells /\ done >= Erases(image)
         /\ image \in Images /\ step \in 1 .. Steps(image)
         /\ \A a \in DOMAIN changing' : a \in Nat /\ image.addr + Start(image, step) <= a
<1> DEFINE e == Erases(image)
           s == Start(image, step)
           t == Start(image, step + 1)
           d == data_idx
           c == ChunkBytes
           adr == addr + d
           byte == [i \in 0 .. c - 1 |-> IF d + i < len THEN data_page[d + i + 1] ELSE Junk]
<1>1. /\ mode = "write_command" /\ mode' = "writing" /\ PageProgram(adr, c, byte)
      /\ UNCHANGED to_client /\ data_idx' = IF d + c < len THEN d + c ELSE len
  BY DEF WriteCommand
<1>2. requests # <<>> /\ to_client = <<>> /\ Len(data_page) = len
  <2>1. Serving /\ requests # <<>> /\ ~Answered /\ ~Ignored
    BY <1>1, Busy
  <2> QED
    BY <1>1, <2>1 DEF Serving, Hearing, Working, Sending, Listens
<1>3. /\ image \in Images /\ done \in Nat /\ e \in Nat
      /\ done < e => Request.bytes[1] = ERASE_SECTOR
      /\ done >= e => /\ step \in 1 .. Steps(image)
                      /\ Request.bytes[2] = image.addr + s /\ Request.bytes[3] = t - s
                      /\ \A i \in 1 .. Request.bytes[3] : Request.bytes[3 + i] = ImageByte(s + i - 1)
  BY <1>2, Current
<1>4. /\ Request.bytes[1] = FLASH_WRITE /\ addr = Request.bytes[2] /\ len = Request.bytes[3]
      /\ d < len /\ \A i \in 1 .. Len(data_page) : data_page[i] = Request.bytes[3 + i]
  BY <1>1 DEF Held, Programs
<1>5. done >= e /\ ~(done < e)
  <2>1. ~(done < e)
    BY <1>3, <1>4 DEF ERASE_SECTOR, FLASH_WRITE
  <2> QED
    BY <1>3, <2>1
<1>6. /\ step \in 1 .. Steps(image) /\ addr = image.addr + s /\ len = t - s
      /\ \A i \in 1 .. len : data_page[i] = ImageByte(s + i - 1)
  BY <1>2, <1>3, <1>4, <1>5
<1>7. /\ image.addr \in Nat /\ image.data_len \in Nat /\ image.addr + image.data_len <= FlashBytes
      /\ s \in Nat /\ t \in Nat /\ s <= t /\ t <= image.data_len
      /\ d \in Nat /\ c \in Nat \ {0}
  <2>1. /\ image.addr \in Nat /\ image.data_len \in Nat
        /\ image.addr + image.data_len <= FlashBytes
    BY <1>3, ImageIs
  <2>2. s \in Nat /\ t \in Nat /\ s <= t /\ t <= image.data_len
    BY <1>3, <1>6, StartIs
  <2>3. d \in Nat /\ c \in Nat \ {0}
    BY Numbers DEF TypeOK, BootTypeOK
  <2> QED
    BY <2>1, <2>2, <2>3
<1>8. (image.addr + s) % c = 0 /\ (t - s) % c = 0 /\ d % c = 0
  BY <1>1, <1>3, <1>6, StartAligned DEF Progress, Programs
<1>9. done' = done /\ step' = step /\ UNCHANGED <<image, before, client>>
  BY DEF user_vars, client_vars, done, step
<1>10. WEL /\ ~WIP
  BY <1>1 DEF IInv, Commands
<1>11. written = s + d /\ erased = e /\ erased' = e /\ written' = s + data_idx'
  BY <1>1, <1>5, <1>9 DEF erased, written, Programs
<1>12. \A a \in FlashAddresses : Settled(a) = Target(a, erased, written)
  BY DEF Progress
<1> HIDE DEF s, t, e, done, step, erased, written, byte, d, Settled, c
<1>13. d + c <= len /\ data_idx' = d + c /\ len \in Nat
  <2>1. len \in Nat /\ len % c = 0
    BY <1>6, <1>7, <1>8
  <2>2. d + c <= len
    BY <1>4, <1>7, <1>8, <2>1, Multiples
  <2> QED
    BY <1>1, <1>7, <2>1, <2>2
<1>14. /\ adr \in Nat /\ adr = image.addr + (s + d)
       /\ adr + c <= image.addr + image.data_len /\ adr + c <= FlashBytes
       /\ image.addr + s <= adr
  BY <1>6, <1>7, <1>13, Numbers
<1>15. adr % c = 0
  <2>1. image.addr + s \in Nat
    BY <1>7
  <2> QED
    BY <1>6, <1>7, <1>8, <2>1, Multiples
<1>16. data_idx' % c = 0
  <2>1. c % c = 0
    <3>1. (1 * c) % c = 0 /\ 1 * c = c
      BY <1>7, Exactly
    <3> QED
      BY <3>1
  <2> QED
    BY <1>7, <1>8, <1>13, <2>1, Multiples
<1> HIDE DEF adr
<1>17. /\ UNCHANGED cells
       /\ \A a \in FlashAddresses :
            IF a \in adr .. adr + c - 1
            THEN cells[a] = Erased => Settled(a)' = byte[a - adr]
            ELSE Settled(a)' = Settled(a)
       /\ DOMAIN changing' = adr .. adr + c - 1
  BY <1>1, <1>10, <1>14, <1>15, ProgramIs DEF c
<1>18. ASSUME NEW a \in FlashAddresses, a \in adr .. adr + c - 1
       PROVE  Settled(a)' = ImageByte(a - image.addr)
  <2>1. /\ a \in Nat /\ image.addr + (s + d) <= a /\ a < image.addr + image.data_len
        /\ image.addr <= a /\ a < adr + c
    BY <1>7, <1>14, <1>18
  <2>2. a \notin image.addr .. image.addr + (s + d) - 1
    BY <1>7, <2>1
  <2>3. \E k \in 1 .. e : SectorOf(a) = SectorAt(image, k)
    BY <1>3, <2>1, ImageErased DEF e
  <2>4. Settled(a) = Erased
    BY <1>11, <1>12, <2>2, <2>3 DEF Target
  <2>5. cells[a] = Erased
    BY <1>10, <2>4 DEF Settled, WIP
  <2>6. Settled(a)' = byte[a - adr]
    BY <1>17, <1>18, <2>5
  <2> DEFINE i == a - adr
  <2>7. i \in 0 .. c - 1 /\ d + i < len /\ d + i + 1 \in 1 .. len
    BY <1>7, <1>13, <1>14, <1>18, <2>1
  <2>8. s + (d + i + 1) - 1 = a - image.addr
    BY <1>7, <1>14, <2>1, <2>7
  <2> HIDE DEF i
  <2>9. byte[i] = data_page[d + i + 1]
    BY <2>7 DEF byte
  <2>10. data_page[d + i + 1] = ImageByte(s + (d + i + 1) - 1)
    BY <1>6, <2>7
  <2> QED
    BY <2>6, <2>8, <2>9, <2>10 DEF i
<1>19. ASSUME NEW a \in FlashAddresses
       PROVE  Settled(a)' = Target(a, erased, written)'
  <2>1. Target(a, erased, written)' =
          IF a \in image.addr .. image.addr + (s + (d + c)) - 1 THEN ImageByte(a - image.addr)
          ELSE IF \E k \in 1 .. e : SectorOf(a) = SectorAt(image, k) THEN Erased ELSE before[a]
    BY <1>9, <1>11, <1>13 DEF Target
  <2>2. Settled(a) =
          IF a \in image.addr .. image.addr + (s + d) - 1 THEN ImageByte(a - image.addr)
          ELSE IF \E k \in 1 .. e : SectorOf(a) = SectorAt(image, k) THEN Erased ELSE before[a]
    BY <1>11, <1>12 DEF Target
  <2>3. a \in Nat
    BY DEF FlashAddresses
  <2>4. CASE a \in adr .. adr + c - 1
    <3>1. a \in image.addr .. image.addr + (s + (d + c)) - 1
      BY <1>7, <1>14, <2>3, <2>4
    <3> QED
      BY <1>18, <2>1, <2>4, <3>1
  <2>5. CASE a \notin adr .. adr + c - 1
    <3>1. Settled(a)' = Settled(a)
      BY <1>17, <2>5
    <3>2. a \in image.addr .. image.addr + (s + (d + c)) - 1
            <=> a \in image.addr .. image.addr + (s + d) - 1
      BY <1>7, <1>14, <2>3, <2>5
    <3> QED
      BY <2>1, <2>2, <3>1, <3>2
  <2> QED
    BY <2>4, <2>5
<1>20. Progress'
  BY <1>16, <1>19 DEF Progress, c
<1>21. \A a \in DOMAIN changing' : a \in Nat /\ image.addr + s <= a
  <2>1. \A a \in adr .. adr + c - 1 : a \in Nat /\ adr <= a
    BY <1>7, <1>14
  <2>2. \A a, b, x \in Nat : x <= b /\ b <= a => x <= a
    OBVIOUS
  <2>3. image.addr + s \in Nat /\ image.addr + s <= adr /\ adr \in Nat
    BY <1>7, <1>14
  <2> QED
    BY <1>17, <2>1, <2>2, <2>3
<1> QED
  BY <1>3, <1>5, <1>6, <1>17, <1>20, <1>21 DEF e, s

(* A reply ends one of the requests, and moves on to the next one.         *)
LEMMA AnswerStep ==
  ASSUME TypeOK, SInv, Held, Ordered, client = "write", ReadReply
  PROVE  /\ mode = "main" /\ to_client # <<>> /\ requests # <<>> /\ requests' = Tail(requests)
         /\ UNCHANGED <<client, image, before, mode, cells, changing>>
         /\ acked' = acked \cup PageOf(Request)
         /\ Ordered' /\ done' = done + 1
         /\ erased' = erased /\ written' = written
<1>1. awaited > 0 /\ to_client # <<>> /\ to_client' = Tail(to_client)
  BY DEF ReadReply
<1>2. InStep /\ ~Leaving
  BY Writes
<1>3. /\ Planned /\ Serving /\ (Sending \/ Answered) /\ requests # <<>>
      /\ awaited <= Request.replies
  BY <1>1, <1>2, Replies
<1> DEFINE e == Erases(image)
<1>4. /\ image \in Images /\ done \in Nat /\ e \in Nat \ {0} /\ Steps(image) \in Nat \ {0}
      /\ done < e => Request.bytes[1] = ERASE_SECTOR
      /\ done >= e => step \in 1 .. Steps(image) /\ Request.bytes[1] = FLASH_WRITE
  BY <1>3, Current
<1>5. Request.bytes[1] \in {ERASE_SECTOR, FLASH_WRITE}
  <2>1. done < e \/ done >= e
    BY <1>4
  <2> QED
    BY <1>4, <2>1
<1>6. Request.replies = 1 /\ ~Leaves(Request)
  <2>1. IsRequest(Request)
    BY <1>3, RequestIs
  <2> QED
    BY <1>5, <2>1, KindsOfRequest
       DEF Leaves, ERASE_SECTOR, FLASH_WRITE, RESET, EXECUTE
<1>7. ~Sending
  BY <1>5 DEF Sending, Held, ERASE_SECTOR, FLASH_WRITE, FLASH_READ
<1>8. mode = "main" /\ awaited = Len(to_client)
  BY <1>3, <1>6, <1>7, AfterIs DEF Answered
<1>9. awaited = 1
  BY <1>1, <1>3, <1>6 DEF TypeOK
<1>10. to_client' = <<>>
  <2>1. to_client \in Seq(Nat)
    BY DEF TypeOK, BootTypeOK
  <2>2. Tail(to_client) \in Seq(Nat) /\ Len(Tail(to_client)) = Len(to_client) - 1
    BY <1>1, <2>1, HeadTailProperties
  <2>3. Len(Tail(to_client)) = 0
    BY <1>8, <1>9, <2>2
  <2> QED
    BY <1>1, <2>2, <2>3, EmptySeq
<1>11. /\ requests' = Tail(requests) /\ acked' = acked \cup PageOf(Request)
       /\ UNCHANGED <<client, image, before, mode, data_idx, cells, changing>>
  BY <1>9 DEF ReadReply, Done, main_vars, flash_vars, Request
<1>12. Ordered' /\ done' = done + 1
  BY <1>3, <1>11, Advances
<1>13. e' = e /\ image' = image
  BY <1>11
<1> HIDE DEF e, done
<1>14. erased = IF done >= e THEN e ELSE done + 1
  BY <1>1 DEF erased, e
<1>15. erased' = IF done + 1 >= e THEN e ELSE done + 1
  BY <1>8, <1>10, <1>11, <1>12 DEF erased, e
<1>16. erased' = erased
  BY <1>4, <1>14, <1>15
<1>17. written = IF done < e THEN 0 ELSE Start(image, step + 1)
  BY <1>1, <1>8 DEF written, Programs, e
<1>18. step' = (done + 1) - e + 1
  BY <1>11, <1>12 DEF step, e
<1>19. written' = IF done + 1 < e THEN 0 ELSE Start(image, (done + 1) - e + 1)
  BY <1>8, <1>10, <1>11, <1>12, <1>18 DEF written, Programs, e
<1>20. written' = written
  <2>1. CASE done + 1 < e
    BY <1>4, <1>17, <1>19, <2>1
  <2>2. CASE done + 1 = e
    <3>1. (done + 1) - e + 1 = 1 /\ ~(done + 1 < e) /\ done < e
      BY <1>4, <2>2
    <3>2. Start(image, 1) = 0
      BY <1>4, StartEnds
    <3> QED
      BY <1>17, <1>19, <3>1, <3>2
  <2>3. CASE done >= e
    <3>1. /\ (done + 1) - e + 1 = (done - e + 1) + 1 /\ ~(done + 1 < e) /\ ~(done < e)
      BY <1>4, <2>3
    <3>2. step = done - e + 1
      BY DEF step, e
    <3> QED
      BY <1>17, <1>19, <3>1, <3>2
  <2> QED
    BY <1>4, <2>1, <2>2, <2>3
<1> QED
  BY <1>1, <1>3, <1>8, <1>11, <1>12, <1>16, <1>20

(* The other steps.                                                        *)
LEMMA ProgressQuiet ==
  ASSUME Progress, UNCHANGED <<client, image, before, requests, mode, to_client, data_idx>>,
         \A a \in FlashAddresses : Settled(a)' = Settled(a)
  PROVE  Progress'
<1> SUFFICES ASSUME client = "write" PROVE Progress'
  BY DEF Progress
<1>1. done' = done /\ step' = step
  BY DEF done, step
<1>2. erased' = erased /\ written' = written
  BY <1>1 DEF erased, written
<1>3. mode' \in Programs => data_idx' % ChunkBytes = 0
  BY DEF Progress
<1> QED
  BY <1>2, <1>3, ProgressSame

LEMMA ProgressStarts ==
  ASSUME Careful, TypeOK, SInv, IInv, UseFlashWrite
  PROVE  Progress'
<1>1. /\ client = "ready" /\ client' = "write" /\ image' \in Images /\ requests' = Whole(image')
      /\ before' = cells /\ UNCHANGED <<mode, to_client, data_idx, cells, changing>>
      /\ Careful => trusted
  BY DEF UseFlashWrite, Use, Whole, boot_vars, main_vars, flash_vars
<1>2. mode = "main" /\ to_client = <<>>
  <2>1. InStep
    BY <1>1, SInvIs
  <2>2. requests = <<>> /\ ~Leaving
    BY <1>1, <2>1 DEF InStep, Planned, Leaving
  <2> QED
    BY <2>1, <2>2 DEF InStep, Serving, Between
<1>3. ~WIP
  BY <1>2 DEF IInv, Waits
<1>4. /\ done' = 0 /\ Erases(image') \in Nat \ {0} /\ image'.addr \in Nat
      /\ 0 < Erases(image') /\ ~(0 >= Erases(image'))
  <2>1. Len(Whole(image')) \in Nat /\ Erases(image') \in Nat \ {0} /\ image'.addr \in Nat
    BY <1>1, WholeIs, ImageIs
  <2>2. done' = Len(Whole(image')) - Len(Whole(image'))
    BY <1>1 DEF done
  <2> QED
    BY <2>1, <2>2
<1>5. erased' = 0 /\ written' = 0
  BY <1>1, <1>2, <1>4 DEF erased, written
<1>6. \A a \in FlashAddresses : Settled(a)' = cells[a]
  BY <1>1, <1>3 DEF Settled, WIP
<1>7. \A a \in FlashAddresses : Target(a, erased, written)' = cells[a]
  <2> HIDE DEF erased, written
  <2>1. image'.addr .. image'.addr + 0 - 1 = {} /\ 1 .. 0 = {}
    BY <1>4
  <2> QED
    BY <1>1, <1>5, <2>1 DEF Target
<1>8. mode' \notin Programs
  BY <1>1, <1>2 DEF Programs
<1> QED
  BY <1>6, <1>7, <1>8 DEF Progress

LEMMA BoardQuiet ==
  ASSUME Bootloader \/ AutoBoot, ~EraseCommand, ~WriteCommand
  PROVE  UNCHANGED <<cells, changing>>
BY DEF Bootloader, AutoBoot, Poked, Command, GetAddr, GetLen, GetData, EraseEnable, Erasing,
       WriteNext, Writing, Written, Read, WriteEnable, flash_vars

(* Only a client that writes has the flash programmed, or a sector erased  *)
(* of which anything is acknowledged.                                      *)
LEMMA Writer ==
  ASSUME TypeOK, SInv, Held, Harmless, mode \in Clears \cup Programs
  PROVE  /\ mode \in Programs => client = "write"
         /\ mode \in Clears /\ client # "write" =>
              \A a \in acked : SectorOf(a) # SectorOf(addr % FlashBytes)
<1>1. Planned /\ requests # <<>>
  BY Busy DEF Clears, Programs
<1>2. Request = requests[1] /\ 1 \in DOMAIN requests
  BY <1>1, RequestIs
<1>3. client # "write" => Spares(Request, acked)
  BY <1>2 DEF Harmless
<1>4. /\ mode \in Programs => Request.bytes[1] = FLASH_WRITE
      /\ mode \in Clears => Request.bytes[1] = ERASE_SECTOR /\ addr = Request.bytes[2]
  BY DEF Held
<1> QED
  BY <1>3, <1>4 DEF Spares

(* The client that writes never waits in vain.                             *)
LEMMA WriteWaits ==
  ASSUME InTime, TypeOK, SInv, Ordered, client = "write"
  PROVE  ~ReadTimeout
<1> SUFFICES ASSUME ReadTimeout PROVE FALSE
  OBVIOUS
<1>1. requests # <<>> /\ Ignored
  BY Writes, NoTimeoutInStep DEF ReadTimeout
<1>2. Request.bytes[1] \in {ERASE_SECTOR, FLASH_WRITE}
  <2>1. /\ done \in Nat /\ Erases(image) \in Nat
        /\ done < Erases(image) => Request.bytes[1] = ERASE_SECTOR
        /\ done >= Erases(image) => Request.bytes[1] = FLASH_WRITE
    BY <1>1, Current
  <2> HIDE DEF done
  <2>2. done < Erases(image) \/ done >= Erases(image)
    BY <2>1
  <2> QED
    BY <2>1, <2>2
<1> QED
  BY <1>1, <1>2 DEF Ignored, DEMO, ERASE_SECTOR, FLASH_WRITE

LEMMA ProgressNext ==
  ASSUME Careful, InTime, Aligned, TypeOK, SInv, IInv, Held, Ordered, Progress, Next
  PROVE  Progress'
<1> SUFFICES ASSUME client' = "write" PROVE Progress'
  BY DEF Progress
<1>1. CASE UseFlashWrite
  BY <1>1, ProgressStarts
<1>2. CASE Write \/ Deliver
  <2>1. UNCHANGED <<client, image, before, mode, to_client, data_idx, cells, changing>>
    BY <1>2 DEF Write, Deliver, Arrive, boot_vars, main_vars, flash_vars, user_vars
  <2>2. UNCHANGED requests
    <3>1. CASE Deliver
      BY <3>1 DEF Deliver
    <3>2. CASE Write
      BY <3>2, NextRequest, Numbers DEF Write
    <3> QED
      BY <1>2, <3>1, <3>2
  <2> QED
    BY <2>1, <2>2, SettledSame, ProgressQuiet
<1>3. CASE ReadReply
  <2>1. client = "write"
    BY <1>3 DEF ReadReply
  <2>2. mode' \notin Programs
    BY <1>3, <2>1, AnswerStep DEF Programs
  <2> QED
    BY <1>3, <2>1, <2>2, AnswerStep, SettledSame, ProgressSame
<1>4. CASE Board \/ BoardTimeout
  <2>1. (Bootloader \/ AutoBoot) /\ UNCHANGED <<user_vars, client_vars>> /\ client = "write"
    BY <1>4 DEF Board, BoardTimeout, user_vars
  <2>2. CASE EraseCommand
    BY <2>1, <2>2, EraseStep
  <2>3. CASE WriteCommand
    BY <2>1, <2>3, WriteStep
  <2>4. CASE ~EraseCommand /\ ~WriteCommand
    <3>1. /\ erased' = erased /\ written' = written
          /\ mode' \in Programs => data_idx' % ChunkBytes = 0
          /\ UNCHANGED <<cells, changing>>
      BY <2>1, <2>4, BoardPosition
    <3> QED
      BY <2>1, <3>1, SettledSame, ProgressSame DEF user_vars
  <2> QED
    BY <2>2, <2>3, <2>4
<1>5. CASE FlashFinish
  BY <1>5, SettledFinish, ProgressQuiet
     DEF FlashFinish, boot_vars, main_vars, user_vars, client_vars
<1>6. ~ReadTimeout
  <2>1. ReadTimeout => client = "write"
    BY DEF ReadTimeout
  <2> QED
    BY <2>1, WriteWaits
<1>7. ~Finished /\ ~StartClient /\ ~Exit /\ ~UseErase /\ ~UsePoke /\ ~UseOther /\ ~PowerFailure
  BY DEF Finished, StartClient, Exit, UseErase, UsePoke, UseOther, Use, PowerFailure
<1> QED
  BY <1>1, <1>2, <1>3, <1>4, <1>5, <1>6, <1>7 DEF Next, Client, User

-----------------------------------------------------------------------------
(* What was acknowledged.                                                  *)

LEMMA KeptSame ==
  ASSUME Kept, UNCHANGED <<cells, changing, acked, image>>,
         client' = "write" => client = "write" /\ UNCHANGED requests
  PROVE  Kept'
<1>1. client' = "write" => done' = done /\ step' = step
  BY DEF done, step
<1> QED
  BY <1>1 DEF Kept

LEMMA KeptErase ==
  ASSUME TypeOK, SInv, IInv, Held, Harmless, Ordered, Progress, Kept, EraseCommand,
         UNCHANGED <<user_vars, client_vars>>
  PROVE  Kept'
<1>1. CASE client = "write"
  <2>1. done < Erases(image)
    BY <1>1, EraseStep
  <2>2. acked = {} /\ acked' = {}
    BY <1>1, <2>1 DEF Kept, client_vars
  <2> QED
    BY <2>2 DEF Kept
<1>2. CASE client # "write"
  <2>1. mode = "erase_command" /\ SectorErase(addr) /\ WEL /\ ~WIP
    BY DEF EraseCommand, IInv, Commands
  <2>2. \A a \in acked : SectorOf(a) # SectorOf(addr % FlashBytes)
    BY <1>2, <2>1, Writer DEF Clears
  <2>3. /\ UNCHANGED cells
        /\ DOMAIN changing' \subseteq
             {a \in FlashAddresses : SectorOf(a) = SectorOf(addr % FlashBytes)}
    BY <2>1 DEF SectorErase, Change
  <2>4. UNCHANGED <<acked, image, client>>
    BY DEF user_vars, client_vars
  <2>5. \A a \in acked' : a \notin DOMAIN changing' /\ cells'[a] = ImageByte(a - image'.addr)
    BY <2>2, <2>3, <2>4 DEF Kept
  <2> QED
    BY <1>2, <2>4, <2>5 DEF Kept
<1> QED
  BY <1>1, <1>2

LEMMA KeptWrite ==
  ASSUME Aligned, TypeOK, SInv, IInv, Held, Harmless, Ordered, Progress, Kept, WriteCommand,
         UNCHANGED <<user_vars, client_vars>>
  PROVE  Kept'
<1> DEFINE s == Start(image, step)
<1>1. client = "write"
  BY Writer DEF WriteCommand, Programs
<1>2. /\ UNCHANGED cells /\ done >= Erases(image) /\ image \in Images /\ step \in 1 .. Steps(image)
      /\ \A a \in DOMAIN changing' : a \in Nat /\ image.addr + s <= a
  BY <1>1, WriteStep
<1>3. image.addr \in Nat /\ s \in Nat
  BY <1>2, ImageIs, StartIs
<1>4. done' = done /\ step' = step /\ UNCHANGED <<image, client, acked>>
  BY DEF done, step, user_vars, client_vars
<1>5. acked \subseteq image.addr .. image.addr + s - 1
  <2>1. ~(done < Erases(image))
    <3>1. done \in Nat /\ Erases(image) \in Nat
      BY <1>1, <1>2, WholeIs DEF Ordered
    <3> HIDE DEF done
    <3> QED
      BY <1>2, <3>1
  <2> QED
    BY <1>1, <2>1 DEF Kept
<1> HIDE DEF s
<1>6. \A a \in acked : a \notin DOMAIN changing'
  BY <1>2, <1>3, <1>5
<1>7. \A a \in acked' : a \notin DOMAIN changing' /\ cells'[a] = ImageByte(a - image'.addr)
  BY <1>2, <1>4, <1>6 DEF Kept
<1>8. client' = "write" =>
        acked' \subseteq (IF done' < Erases(image') THEN {}
                          ELSE image'.addr .. image'.addr + Start(image', step') - 1)
  BY <1>1, <1>4 DEF Kept
<1> QED
  BY <1>7, <1>8 DEF Kept

(* The page of a reply is in the flash.                                    *)
LEMMA KeptReply ==
  ASSUME TypeOK, SInv, IInv, Held, Harmless, Ordered, Progress, Kept, ReadReply
  PROVE  Kept'
<1>1. requests # <<>>
  BY Awaiting DEF ReadReply
<1>2. CASE client # "write"
  <2>1. PageOf(Request) = {}
    BY <1>1, <1>2, NoReplyAcks
  <2>2. /\ acked' \in {acked, acked \cup PageOf(Request)}
        /\ UNCHANGED <<cells, changing, image, client>>
    BY DEF ReadReply, Done, flash_vars, Request
  <2>3. UNCHANGED acked
    BY <2>1, <2>2
  <2> QED
    BY <1>2, <2>2, <2>3, KeptSame
<1>3. CASE client = "write"
  <2> DEFINE e == Erases(image)
             s == Start(image, step)
             t == Start(image, step + 1)
  <2>1. /\ mode = "main" /\ to_client # <<>>
        /\ UNCHANGED <<client, image, before, mode, cells, changing>>
        /\ acked' = acked \cup PageOf(Request) /\ done' = done + 1
    BY <1>3, AnswerStep
  <2>2. /\ image \in Images /\ done \in Nat /\ e \in Nat \ {0}
        /\ done < e => Request.bytes[1] = ERASE_SECTOR
        /\ done >= e => /\ step \in 1 .. Steps(image)
                        /\ Request.bytes[1] = FLASH_WRITE
                        /\ Request.bytes[2] = image.addr + s /\ Request.bytes[3] = t - s
    BY <1>1, <1>3, Current
  <2>3. ~WIP
    BY <2>1 DEF IInv, Waits
  <2>4. image' = image /\ client' = client
    BY <2>1
  <2>5. written = IF done < e THEN 0 ELSE t
    BY <2>1 DEF written, Programs
  <2>6. \A a \in FlashAddresses : cells[a] = Target(a, erased, written)
    BY <1>3, <2>3 DEF Progress, Settled, WIP
  <2>7. acked \subseteq IF done < e THEN {} ELSE image.addr .. image.addr + s - 1
    BY <1>3 DEF Kept
  <2>8. step' = (done + 1) - e + 1
    BY <2>1 DEF step
  <2>9. step = done - e + 1
    BY DEF step
  <2> HIDE DEF e, done, step, erased, written
  <2>10. CASE done < e
    <3>1. PageOf(Request) = {}
      BY <2>2, <2>10 DEF PageOf, ERASE_SECTOR, FLASH_WRITE
    <3>2. acked' = {}
      BY <2>1, <2>7, <2>10, <3>1
    <3> QED
      BY <3>2 DEF Kept
  <2>11. CASE done >= e
    <3>1. /\ image.addr \in Nat /\ image.addr + image.data_len <= FlashBytes
          /\ image.data_len \in Nat
      BY <2>2, ImageIs
    <3>2. s \in Nat /\ t \in Nat /\ s <= t /\ t <= image.data_len
      BY <2>2, <2>11, StartIs
    <3>3. ~(done < e) /\ ~(done + 1 < e)
      BY <2>2, <2>11
    <3>4. step' = step + 1
      BY <2>2, <2>8, <2>9
    <3> HIDE DEF s
    <3>5. PageOf(Request) = (image.addr + s) .. (image.addr + s) + (t - s) - 1
      BY <2>2, <2>11 DEF PageOf
    <3> DEFINE u == t
    <3>6. t = u
      OBVIOUS
    <3> HIDE DEF t, u
    <3>7. u \in Nat /\ s <= u /\ u <= image.data_len
      BY <3>2, <3>6
    <3>8. acked' \subseteq image.addr .. image.addr + u - 1
      <4>1. acked \subseteq image.addr .. image.addr + s - 1
        BY <2>7, <3>3
      <4>2. \A m, x, y \in Nat : x <= y =>
              /\ m .. m + x - 1 \subseteq m .. m + y - 1
              /\ (m + x) .. (m + x) + (y - x) - 1 \subseteq m .. m + y - 1
        OBVIOUS
      <4>3. PageOf(Request) = (image.addr + s) .. (image.addr + s) + (u - s) - 1
        BY <3>5, <3>6
      <4> QED
        BY <2>1, <3>1, <3>2, <3>7, <4>1, <4>2, <4>3
    <3>9. ASSUME NEW a \in acked' PROVE a \notin DOMAIN changing' /\ cells'[a] = ImageByte(a - image'.addr)
      <4>1. a \in image.addr .. image.addr + u - 1
        BY <3>8
      <4>2. a \in FlashAddresses
        BY <3>1, <3>7, <4>1, Numbers DEF FlashAddresses
      <4>3. written = u
        BY <2>5, <3>3, <3>6
      <4>4. cells[a] = ImageByte(a - image.addr)
        BY <2>6, <4>1, <4>2, <4>3 DEF Target
      <4> QED
        BY <2>1, <2>3, <4>4 DEF WIP
    <3>10. client' = "write" =>
             acked' \subseteq (IF done' < Erases(image') THEN {}
                               ELSE image'.addr .. image'.addr + Start(image', step') - 1)
      <4>1. Start(image', step') = u /\ ~(done' < Erases(image'))
        BY <2>1, <2>4, <3>3, <3>4, <3>6 DEF t, e
      <4> QED
        BY <2>4, <3>8, <4>1
    <3> QED
      BY <3>9, <3>10 DEF Kept
  <2> QED
    BY <2>2, <2>10, <2>11
<1> QED
  BY <1>2, <1>3

LEMMA KeptNext ==
  ASSUME InTime, Aligned, TypeOK, SInv, IInv, Held, Harmless, Ordered, Progress, Kept, Next
  PROVE  Kept'
<1>1. CASE UseFlashWrite
  <2>1. acked' = {}
    BY <1>1 DEF UseFlashWrite
  <2> QED
    BY <2>1 DEF Kept
<1>2. CASE Write \/ Deliver
  <2>1. UNCHANGED <<cells, changing, acked, image, client>>
    BY <1>2 DEF Write, Deliver, flash_vars, user_vars
  <2>2. UNCHANGED requests
    <3>1. CASE Deliver
      BY <3>1 DEF Deliver
    <3>2. CASE Write
      BY <3>2, NextRequest, Numbers DEF Write
    <3> QED
      BY <1>2, <3>1, <3>2
  <2> QED
    BY <2>1, <2>2, KeptSame
<1>3. CASE ReadReply
  BY <1>3, KeptReply
<1>4. CASE ReadTimeout
  <2>1. UNCHANGED <<cells, changing, acked, image>> /\ client' \in {client, "off"}
    BY <1>4 DEF ReadTimeout, flash_vars
  <2>2. client # "write"
    BY <1>4, WriteWaits
  <2> QED
    BY <2>1, <2>2, KeptSame
<1>5. CASE Finished \/ StartClient \/ Exit \/ UsePoke \/ UseOther
  <2>1. UNCHANGED <<cells, changing, acked, image>> /\ client' # "write"
    BY <1>5 DEF Finished, StartClient, Exit, UsePoke, UseOther, Use, flash_vars, client_vars
  <2> QED
    BY <2>1, KeptSame
<1>6. CASE Board \/ BoardTimeout
  <2>1. (Bootloader \/ AutoBoot) /\ UNCHANGED <<user_vars, client_vars>>
    BY <1>6 DEF Board, BoardTimeout
  <2>2. CASE EraseCommand
    BY <2>1, <2>2, KeptErase
  <2>3. CASE WriteCommand
    BY <2>1, <2>3, KeptWrite
  <2>4. CASE ~EraseCommand /\ ~WriteCommand
    BY <2>1, <2>4, BoardQuiet, KeptSame DEF user_vars, client_vars
  <2> QED
    BY <2>2, <2>3, <2>4
<1>7. CASE FlashFinish \/ PowerFailure
  <2>1. /\ cells' = [a \in FlashAddresses |-> cells'[a]]
        /\ \A a \in FlashAddresses : a \notin DOMAIN changing => cells'[a] = cells[a]
        /\ DOMAIN changing' = {} /\ UNCHANGED <<acked, image>>
        /\ client' = "write" => client = "write" /\ UNCHANGED requests
    BY <1>7, IdleIsIdle DEF FlashFinish, PowerFailure, Finish, Fail, user_vars, client_vars
  <2>2. \A a \in acked : a \in FlashAddresses
    BY DEF TypeOK
  <2>3. \A a \in acked' : a \notin DOMAIN changing' /\ cells'[a] = ImageByte(a - image'.addr)
    BY <2>1, <2>2 DEF Kept
  <2>4. client' = "write" => done' = done /\ step' = step
    BY <2>1 DEF done, step
  <2> QED
    BY <2>1, <2>3, <2>4 DEF Kept
<1>8. CASE UseErase
  <2>1. UNCHANGED <<cells, changing, image>> /\ acked' \subseteq acked /\ client' # "write"
    BY <1>8 DEF UseErase, Use, flash_vars
  <2> QED
    BY <2>1 DEF Kept
<1> QED
  BY <1>1, <1>2, <1>3, <1>4, <1>5, <1>6, <1>7, <1>8 DEF Next, Client, User

-----------------------------------------------------------------------------
LEMMA WInit == Init => WInv
<1> SUFFICES ASSUME Init PROVE WInv
  OBVIOUS
<1>1. mode \in {"auto", "main"} /\ client = "off" /\ requests = <<>> /\ acked = {}
  BY StartAssumption DEF Init, BootInit
<1>2. Held
  BY <1>1 DEF Held, Clears, Programs
<1>3. Harmless /\ Ordered /\ Progress /\ Kept
  BY <1>1 DEF Harmless, Ordered, Progress, Kept
<1> QED
  BY <1>2, <1>3 DEF WInv

LEMMA WNext ==
  ASSUME Careful, InTime, Aligned, FInv, WInv, [Next]_vars
  PROVE  WInv'
<1>1. TypeOK /\ IInv /\ SInv /\ Held /\ Harmless /\ Ordered /\ Progress /\ Kept
  BY DEF FInv, WInv
<1>2. CASE Next
  <2>1. Held'
    <3>1. CASE Client \/ Deliver \/ User
      BY <1>1, <3>1, HeldClient
    <3>2. CASE Board \/ BoardTimeout
      <4>1. (Bootloader \/ AutoBoot) /\ UNCHANGED <<requests, awaited, to_board>>
        BY <3>2 DEF Board, BoardTimeout, client_vars
      <4> QED
        BY <1>1, <4>1, HeldBoard
    <3>3. CASE FlashFinish
      BY <1>1, <3>3, HeldSame DEF FlashFinish, boot_vars, main_vars, client_vars
    <3>4. CASE PowerFailure
      <4>1. mode' \in Resting
        BY <3>4 DEF PowerFailure, Restart, Resting
      <4> QED
        BY <4>1, HeldResting
    <3> QED
      BY <1>2, <3>1, <3>2, <3>3, <3>4 DEF Next
  <2>2. Harmless' /\ Ordered'
    BY <1>1, <1>2, HarmlessNext, OrderedNext
  <2>3. Progress'
    BY <1>1, <1>2, ProgressNext
  <2>4. Kept'
    BY <1>1, <1>2, KeptNext
  <2> QED
    BY <2>1, <2>2, <2>3, <2>4 DEF WInv
<1>3. CASE UNCHANGED vars
  <2>1. UNCHANGED <<mode, addr, len, data_page, data_idx, to_client, requests, client, image, before,
                    acked, cells, changing>>
    BY <1>3 DEF vars, boot_vars, main_vars, flash_vars, user_vars, client_vars
  <2>2. Held' /\ Kept'
    BY <1>1, <2>1, HeldSame, KeptSame
  <2>3. Harmless' /\ Ordered'
    BY <1>1, <2>1 DEF Harmless, Spares, Ordered, done
  <2>4. Progress'
    BY <1>1, <2>1, SettledSame, ProgressQuiet
  <2> QED
    BY <2>2, <2>3, <2>4 DEF WInv
<1> QED
  BY <1>2, <1>3

(* The bytes of a page that was answered are those of the image, and no    *)
(* later step or power failure changes them until the next flash_write or  *)
(* an erase of their sector.                                               *)
THEOREM PagesStay == ASSUME Careful, InTime, Aligned PROVE Spec => []AckedStays
<1>1. Init => FInv /\ WInv
  BY FInit, WInit
<1>2. FInv /\ WInv /\ [Next]_vars => (FInv /\ WInv)'
  BY FNext, WNext
<1>3. FInv /\ WInv => AckedStays
  BY DEF WInv, Kept, AckedStays
<1> QED
  BY <1>1, <1>2, <1>3, PTL DEF Spec

(* No image ends with the memory.                                          *)
EndsBelow == \A a \in ImageAddrs, n \in ImageLengths : a + n < FlashBytes

(* When flash_write reports "Finished writing", the image is in the flash, *)
(* and what is outside of the sectors it reaches is as it was.             *)
THEOREM FlashWritten == ASSUME Careful, InTime, Aligned, EndsBelow PROVE Spec => ImageWritten
<1> DEFINE Right(a) ==
      IF InImage(a) THEN cells[a] = ImageByte(a - image.addr)
      ELSE \/ cells[a] = before[a]
           \/ /\ cells[a] = Erased
              /\ \E i \in image.addr .. image.addr + image.data_len : SectorOf(i) = SectorOf(a)
           Finishes == client = "write" /\ client' = "ready" => \A a \in FlashAddresses : Right(a)
<1>1. Init => FInv /\ WInv
  BY FInit, WInit
<1>2. FInv /\ WInv /\ [Next]_vars => (FInv /\ WInv)'
  BY FNext, WNext
<1>3. FInv /\ WInv /\ [Next]_vars => [Finishes]_vars
  <2> SUFFICES ASSUME FInv, WInv, Next, client = "write", client' = "ready",
                      NEW a \in FlashAddresses
               PROVE  Right(a)
    BY DEF vars, user_vars
  <2>1. TypeOK /\ IInv /\ SInv /\ Ordered /\ Progress
    BY DEF FInv, WInv
  <2>2. Finished
    BY DEF Next, Client, User, Write, ReadReply, ReadTimeout, Deliver, StartClient, Exit,
           UseFlashWrite, UseErase, UsePoke, UseOther, Use, Board, BoardTimeout, FlashFinish, PowerFailure, user_vars
  <2>3. requests = <<>> /\ mode = "main" /\ to_client = <<>>
    BY <2>1, <2>2, Writes DEF Finished
  <2>4. ~WIP
    BY <2>1, <2>3 DEF IInv, Waits
  <2> DEFINE e == Erases(image)
             n == Steps(image)
  <2>5. /\ image \in Images /\ e \in Nat \ {0} /\ n \in Nat \ {0}
        /\ Len(Whole(image)) = e + n /\ done = Len(Whole(image)) - Len(requests)
    BY <2>1, WholeIs DEF Ordered, done
  <2>6. done = e + n
    BY <2>3, <2>5
  <2>7. step = done - e + 1
    BY DEF step
  <2> HIDE DEF e, n, done, step
  <2>8. done >= e /\ ~(done < e) /\ step = n + 1
    BY <2>5, <2>6, <2>7
  <2>9. erased = e /\ written = image.data_len
    BY <2>3, <2>5, <2>8, StartEnds DEF erased, written, Programs, e, n
  <2>10. cells[a] = Target(a, e, image.data_len)
    BY <2>1, <2>4, <2>9 DEF Progress, Settled, WIP
  <2>11. ASSUME NEW k \in 1 .. e, SectorOf(a) = SectorAt(image, k)
         PROVE  \E i \in image.addr .. image.addr + image.data_len : SectorOf(i) = SectorOf(a)
    <3>1. image.addr + image.data_len < FlashBytes
      BY <2>5 DEF EndsBelow, Images
    <3> QED
      BY <2>5, <2>11, <3>1, ErasedReached DEF e
  <2> QED
    BY <2>10, <2>11 DEF Target, InImage
<1> QED
  BY <1>1, <1>2, <1>3, PTL DEF Spec, ImageWritten

=============================================================================
