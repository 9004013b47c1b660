---------------------------- MODULE XipBootloader ----------------------------
(***************************************************************************)
(* The bootloader bootloader_full/bootloader_xip.c, behind the receive     *)
(* register of the UART, which holds one byte.  A byte is a number, be it  *)
(* a command, an address, a length or data; one byte stands for the four   *)
(* of an address and of a length.  Every transaction with the flash is one *)
(* step.                                                                   *)
(***************************************************************************)
EXTENDS SpiFlash, Sequences

CONSTANT ChunkBytes       \* bytes per program command: 4

ASSUME ChunkAssumption == ChunkBytes \in 1 .. PageBytes

VARIABLES
  mode,              \* what main() waits for or does
  rx,                \* the receive register: at most one byte
  to_client,         \* replies on their way to the client
  console_cmd, addr, len, data_page, data_idx

main_vars == <<mode, console_cmd, addr, len, data_page, data_idx>>
boot_vars == <<main_vars, rx, to_client>>

POKE == 0
EXECUTE == 1
FLASH_WRITE == 2
FLASH_READ == 3
RESET == 4
ERASE_SECTOR == 6
STATUS_BYTE == 7

(* In these the bootloader does not look at the UART for longer than a     *)
(* byte takes to come: it polls the WIP bit, sends, or has gone.           *)
Deaf == mode \in {"erasing", "writing", "read", "application"}

(* A byte comes in; it is lost when the register is full.                  *)
Arrive(byte) == /\ rx = <<>> \/ Deaf
                /\ rx' = IF rx = <<>> THEN <<byte>> ELSE rx
                /\ UNCHANGED <<main_vars, to_client>>

putc(byte) == to_client' = Append(to_client, byte)
getc == rx # <<>> /\ rx' = <<>>      \* and returns Head(rx)

(* Auto boot: any byte stops it.  It is not taken out of the register.     *)
Poked == /\ mode = "auto" /\ rx # <<>>
         /\ putc(0) /\ mode' = "main"
         /\ UNCHANGED <<rx, console_cmd, addr, len, data_page, data_idx, flash_vars>>

AutoBoot == /\ mode = "auto" /\ rx = <<>>
            /\ mode' = "application"
            /\ UNCHANGED <<rx, to_client, console_cmd, addr, len, data_page, data_idx,
                           flash_vars>>

Command ==
  /\ mode = "main" /\ getc /\ console_cmd' = Head(rx)
  /\ mode' = CASE Head(rx) = RESET -> "auto"
               [] Head(rx) = EXECUTE -> "application"
               [] Head(rx) \in {FLASH_WRITE, FLASH_READ, ERASE_SECTOR} -> "addr"
               [] OTHER -> "main"
  /\ CASE Head(rx) \in {RESET, POKE, EXECUTE} -> putc(Head(rx))
       [] Head(rx) = STATUS_BYTE -> putc((IF WEL THEN 2 ELSE 0) + (IF WIP THEN 1 ELSE 0))
       [] OTHER -> UNCHANGED to_client
  /\ UNCHANGED <<addr, len, data_page, data_idx, flash_vars>>

GetAddr ==
  /\ mode = "addr" /\ getc /\ addr' = Head(rx)
  /\ mode' = IF console_cmd = ERASE_SECTOR THEN "erase" ELSE "len"
  /\ UNCHANGED <<to_client, console_cmd, len, data_page, data_idx, flash_vars>>

(* Faulty variant of GetLen: the bytes of the last page are still counted. *)
GetLenKeepsPage ==
  /\ mode = "len" /\ getc /\ len' = Head(rx)
  /\ mode' = IF console_cmd = FLASH_READ THEN IF len' = 0 THEN "main" ELSE "read"
             ELSE IF len' = 0 THEN "write" ELSE "data"
  /\ data_idx' = 0
  /\ UNCHANGED <<to_client, console_cmd, addr, data_page, flash_vars>>

GetLen ==
  /\ mode = "len" /\ getc /\ len' = Head(rx)
  /\ mode' = IF console_cmd = FLASH_READ THEN IF len' = 0 THEN "main" ELSE "read"
             ELSE IF len' = 0 THEN "write" ELSE "data"
  /\ data_page' = <<>> /\ data_idx' = 0
  /\ UNCHANGED <<to_client, console_cmd, addr, flash_vars>>

(* Faulty variant of GetData: one byte more than there are is awaited.     *)
GetDataOneMore ==
  /\ mode = "data" /\ getc /\ data_page' = Append(data_page, Head(rx))
  /\ mode' = IF Len(data_page) = len THEN "write" ELSE "data"
  /\ UNCHANGED <<to_client, console_cmd, addr, len, data_idx, flash_vars>>

GetData ==
  /\ mode = "data" /\ getc /\ data_page' = Append(data_page, Head(rx))
  /\ mode' = IF Len(data_page') = len THEN "write" ELSE "data"
  /\ UNCHANGED <<to_client, console_cmd, addr, len, data_idx, flash_vars>>

(* flash_erase_sector *)
EraseEnable ==
  /\ mode = "erase" /\ WriteEnable
  /\ mode' = "erase_command"
  /\ UNCHANGED <<rx, to_client, console_cmd, addr, len, data_page, data_idx>>

EraseCommand ==
  /\ mode = "erase_command" /\ SectorErase(addr)
  /\ mode' = "erasing"
  /\ UNCHANGED <<rx, to_client, console_cmd, addr, len, data_page, data_idx>>

(* Faulty variant of Erasing: the end of the erase is not awaited.         *)
ErasingNoWait ==
  /\ mode = "erasing"
  /\ putc(console_cmd) /\ mode' = "main"
  /\ UNCHANGED <<rx, console_cmd, addr, len, data_page, data_idx, flash_vars>>

Erasing ==
  /\ mode = "erasing" /\ ~WIP
  /\ putc(console_cmd) /\ mode' = "main"
  /\ UNCHANGED <<rx, console_cmd, addr, len, data_page, data_idx, flash_vars>>

(* Faulty variant of WriteNext: the latch is set for the first chunk only. *)
WriteNextLatchOnce ==
  /\ mode = "write" /\ data_idx < len
  /\ mode' = "write_command"
  /\ IF data_idx = 0 THEN WriteEnable ELSE UNCHANGED flash_vars
  /\ UNCHANGED <<rx, to_client, console_cmd, addr, len, data_page, data_idx>>

(* flash_write: the latch, a chunk, and the wait for its end.              *)
WriteNext ==
  /\ mode = "write" /\ data_idx < len
  /\ mode' = "write_command" /\ WriteEnable
  /\ UNCHANGED <<rx, to_client, console_cmd, addr, len, data_page, data_idx>>

(* Faulty variant of WriteCommand: the index is not advanced.              *)
WriteCommandNoAdvance ==
  /\ mode = "write_command"
  /\ PageProgram(addr + data_idx, ChunkBytes,
                 [i \in 0 .. ChunkBytes - 1 |->
                    IF data_idx + i < len THEN data_page[data_idx + i + 1] ELSE Junk])
  /\ mode' = "writing"
  /\ UNCHANGED <<rx, to_client, console_cmd, addr, len, data_page, data_idx>>

(* A chunk is always sent whole; after the end of the data it repeats what *)
(* was in the union before.                                                *)
WriteCommand ==
  /\ mode = "write_command"
  /\ PageProgram(addr + data_idx, ChunkBytes,
                 [i \in 0 .. ChunkBytes - 1 |->
                    IF data_idx + i < len THEN data_page[data_idx + i + 1] ELSE Junk])
  /\ data_idx' = IF data_idx + ChunkBytes < len THEN data_idx + ChunkBytes ELSE len
  /\ mode' = "writing"
  /\ UNCHANGED <<rx, to_client, console_cmd, addr, len, data_page>>

(* Faulty variant of Writing: the end of the last chunk is not awaited.    *)
WritingNoWait ==
  /\ mode = "writing" /\ (WIP => data_idx = len)
  /\ mode' = "write"
  /\ UNCHANGED <<rx, to_client, console_cmd, addr, len, data_page, data_idx, flash_vars>>

Writing ==
  /\ mode = "writing" /\ ~WIP
  /\ mode' = "write"
  /\ UNCHANGED <<rx, to_client, console_cmd, addr, len, data_page, data_idx, flash_vars>>

Written ==
  /\ mode = "write" /\ data_idx = len
  /\ putc(0) /\ mode' = "main"
  /\ UNCHANGED <<rx, console_cmd, addr, len, data_page, data_idx, flash_vars>>

(* flash_read *)
Read ==
  /\ mode = "read"
  /\ putc(cells[(addr + data_idx) % FlashBytes])
  /\ data_idx' = data_idx + 1
  /\ mode' = IF data_idx' < len THEN "read" ELSE "main"
  /\ UNCHANGED <<rx, console_cmd, addr, len, data_page, flash_vars>>

Bootloader == \/ Poked \/ Command \/ GetAddr \/ GetLen \/ GetData
              \/ EraseEnable \/ EraseCommand \/ Erasing
              \/ WriteNext \/ WriteCommand \/ Writing \/ Written \/ Read

(* Reset and power-up.                                                     *)
Restart == /\ mode' = "auto" /\ rx' = <<>> /\ to_client' = <<>>
           /\ console_cmd' = 0 /\ addr' = 0 /\ len' = 0 /\ data_page' = <<>>
           /\ data_idx' = 0

BootInit(start) ==
  /\ FlashInit /\ mode = start /\ rx = <<>> /\ to_client = <<>>
  /\ console_cmd = 0 /\ addr = 0 /\ len = 0 /\ data_page = <<>> /\ data_idx = 0

BootTypeOK ==
  /\ FlashTypeOK
  /\ mode \in {"auto", "main", "application", "addr", "len", "data", "erase",
               "erase_command", "erasing", "write", "write_command", "writing", "read"}
  /\ rx \in Seq(Nat) /\ Len(rx) <= 1 /\ to_client \in Seq(Nat)
  /\ console_cmd \in Nat /\ addr \in Nat /\ len \in 0 .. FlashBytes
  /\ data_page \in Seq(Nat) /\ Len(data_page) <= PageBytes /\ data_idx \in 0 .. len
=============================================================================
