----------------------------- MODULE NeosdDatFsm -----------------------------
(***************************************************************************)
(* The data state machine neosd_dat_fsm.sv with the register of            *)
(* neosd_dat_block.sv.  dat_fsm is the struct of the code without the      *)
(* controls of the CRC generators and of the rotation of the four parts of *)
(* the register.  The register is the number of the data bit of the block  *)
(* that was last shifted in (reading) or out (writing); 0 is none.         *)
(***************************************************************************)
EXTENDS Integers

CONSTANTS
  WordBits,      \* clocks per word: 32, or 8 on four lines
  BlockWords,    \* words of a block: 128
  CrcBits,       \* clocks of the CRC: 16
  TokenBits,     \* clocks until the CRC status of a written block is in: 7
  DatTailBits    \* clocks after a block: 8

(* The counters have 6 and 9 bits.                                         *)
ASSUME BlockAssumption ==
  /\ WordBits \in 1 .. 64 /\ CrcBits \in 1 .. 64 /\ TokenBits \in 1 .. 64
  /\ DatTailBits \in 1 .. 64 /\ BlockWords \in 1 .. 511

VARIABLES dat_fsm, dat_reg

(* The data line: high, the start bit or another low bit, or a numbered    *)
(* bit of data; data bit n is 1 + n, of either value.                      *)
High == 0
Start == 1
Low == -1
IsLow(dat_i) == dat_i \in {Start, Low}

DatZero == [state |-> "IDLE", bit_counter |-> 0, word_counter |-> 0, clk_req |-> FALSE,
            clk_stall |-> FALSE, dat_oe |-> FALSE, rnw |-> FALSE, rstn_reg |-> FALSE,
            shift |-> FALSE, omux |-> "start", crc_ok |-> FALSE, block_done |-> FALSE,
            write_start |-> FALSE]

dat_idle == dat_fsm.state = "IDLE"
status_data == dat_fsm.state \in {"REGOUT", "WRITE_REGIN"}

(* block_done lasts one strobe.                                            *)
Cur == [dat_fsm EXCEPT !.block_done = FALSE]
Counted == [Cur EXCEPT !.bit_counter = (@ + 1) % 64]

DatIdle(start, dmode) ==
  IF ~start \/ dmode = "NONE" THEN Cur
  ELSE IF dmode = "R"
  THEN [Cur EXCEPT !.clk_req = TRUE, !.rnw = TRUE, !.shift = TRUE, !.rstn_reg = TRUE,
                   !.state = "WAIT_BLOCK"]
  ELSE IF dmode = "BUSY"
  THEN [Cur EXCEPT !.clk_req = TRUE, !.state = "WAIT_BUSY"]
  ELSE [Cur EXCEPT !.write_start = TRUE, !.rnw = FALSE, !.clk_req = TRUE,
                   !.clk_stall = TRUE, !.rstn_reg = TRUE, !.state = "WRITE_REGIN"]

(* Faulty variant of WaitBlock: a block is a word short.                   *)
WaitBlockShort(en, dat_i) ==
  IF en /\ IsLow(dat_i)
  THEN [Cur EXCEPT !.state = "READ_BLOCK", !.bit_counter = 0, !.word_counter = BlockWords - 1]
  ELSE Cur

WaitBlock(en, dat_i) ==
  IF en /\ IsLow(dat_i)
  THEN [Cur EXCEPT !.state = "READ_BLOCK", !.bit_counter = 0, !.word_counter = BlockWords]
  ELSE Cur

ReadBlock(en) ==
  IF ~en THEN Cur
  ELSE IF dat_fsm.bit_counter = WordBits - 1
  THEN [Cur EXCEPT !.bit_counter = 0, !.word_counter = @ - 1, !.clk_stall = TRUE,
                   !.state = "REGOUT"]
  ELSE Counted

(* Faulty variant of RegOut: the word is not waited for.                   *)
RegOutAtOnce(ack) ==
  [Cur EXCEPT !.clk_stall = FALSE, !.bit_counter = 0,
              !.state = IF dat_fsm.word_counter = 0 THEN "READ_CRC" ELSE "READ_BLOCK"]

RegOut(ack) ==
  IF ~ack THEN Cur
  ELSE [Cur EXCEPT !.clk_stall = FALSE, !.bit_counter = 0,
                   !.state = IF dat_fsm.word_counter = 0 THEN "READ_CRC" ELSE "READ_BLOCK"]

ReadCrc(en) ==
  IF ~en THEN Cur
  ELSE IF dat_fsm.bit_counter = CrcBits - 1
  THEN [Cur EXCEPT !.clk_stall = TRUE, !.rstn_reg = FALSE, !.state = "READ_FINISH"]
  ELSE Counted

ReadFinish(crc) ==
  [Cur EXCEPT !.bit_counter = 0, !.rstn_reg = TRUE, !.clk_stall = FALSE, !.crc_ok = crc,
              !.block_done = TRUE, !.state = "WAIT_BLOCK"]

DatTail(en) ==
  IF ~en THEN Cur
  ELSE IF dat_fsm.bit_counter = DatTailBits - 1
  THEN [Cur EXCEPT !.clk_req = FALSE, !.state = "IDLE"]
  ELSE Counted

WaitBusy(en, dat_i) ==
  IF en /\ ~IsLow(dat_i) THEN [Cur EXCEPT !.state = "TAIL", !.bit_counter = 0] ELSE Cur

WriteRegIn(ack) ==
  IF ~ack THEN Cur
  ELSE IF dat_fsm.write_start
  THEN [Cur EXCEPT !.clk_stall = FALSE, !.bit_counter = 0, !.omux = "start",
                   !.dat_oe = TRUE, !.state = "WRITE_START"]
  ELSE [Cur EXCEPT !.clk_stall = FALSE, !.bit_counter = 0, !.state = "WRITE_DATA"]

WriteStart(en) ==
  IF en THEN [Cur EXCEPT !.state = "WRITE_DATA", !.write_start = FALSE, !.omux = "data",
                         !.shift = TRUE, !.word_counter = BlockWords]
  ELSE Cur

(* Faulty variant of WriteData: a word has a bit too few.                  *)
WriteDataShort(en) ==
  IF ~en THEN Cur
  ELSE IF dat_fsm.bit_counter # WordBits - 2 THEN Counted
  ELSE IF dat_fsm.word_counter = 1
  THEN [Cur EXCEPT !.bit_counter = 0, !.word_counter = @ - 1, !.omux = "crc",
                   !.state = "WRITE_CRC"]
  ELSE [Cur EXCEPT !.bit_counter = 0, !.word_counter = @ - 1, !.clk_stall = TRUE,
                   !.state = "WRITE_REGIN"]

WriteData(en) ==
  IF ~en THEN Cur
  ELSE IF dat_fsm.bit_counter # WordBits - 1 THEN Counted
  ELSE IF dat_fsm.word_counter = 1
  THEN [Cur EXCEPT !.bit_counter = 0, !.word_counter = @ - 1, !.omux = "crc",
                   !.state = "WRITE_CRC"]
  ELSE [Cur EXCEPT !.bit_counter = 0, !.word_counter = @ - 1, !.clk_stall = TRUE,
                   !.state = "WRITE_REGIN"]

WriteCrc(en) ==
  IF ~en THEN Cur
  ELSE IF dat_fsm.bit_counter = CrcBits - 1
  THEN [Cur EXCEPT !.bit_counter = 0, !.omux = "stop", !.state = "WRITE_STOP"]
  ELSE Counted

(* Faulty variant of WriteStop: the data line stays an output.             *)
WriteStopDriving(en) == IF en THEN [Cur EXCEPT !.state = "WRITE_CHECK_CRC"] ELSE Cur

WriteStop(en) ==
  IF en THEN [Cur EXCEPT !.state = "WRITE_CHECK_CRC", !.dat_oe = FALSE] ELSE Cur

WriteCheckCrc(en, crc) ==
  IF ~en THEN Cur
  ELSE IF dat_fsm.bit_counter = TokenBits - 1
  THEN [Cur EXCEPT !.bit_counter = 0, !.write_start = TRUE, !.shift = FALSE,
                   !.rstn_reg = FALSE, !.crc_ok = crc, !.state = "WRITE_BUSY"]
  ELSE Counted

WriteBusy(en, dat_i) ==
  IF en /\ ~IsLow(dat_i) THEN [Cur EXCEPT !.block_done = TRUE, !.state = "WRITE_TAIL"]
  ELSE Cur

WriteTail(en) ==
  IF ~en THEN Cur
  ELSE IF dat_fsm.bit_counter = DatTailBits - 1
  THEN [Cur EXCEPT !.bit_counter = 0, !.clk_stall = TRUE, !.rstn_reg = TRUE,
                   !.state = "WRITE_REGIN"]
  ELSE Counted

Aborted(next) == [next EXCEPT !.rstn_reg = FALSE, !.shift = FALSE, !.clk_stall = FALSE,
                              !.bit_counter = 0, !.state = "TAIL"]

(* An abort comes on top of what the state does.                           *)
Move(abort, next) == dat_fsm' = IF abort THEN Aborted(next) ELSE next

DatFsm(strobe, rst, start, dmode, ack, last_block, en, dat_i, crc) ==
  LET abort == last_block /\ dat_fsm.state \notin {"IDLE", "TAIL"}
      In(s) == strobe /\ ~rst /\ dat_fsm.state = s
  IN \/ ~strobe /\ UNCHANGED dat_fsm
     \/ strobe /\ rst /\ dat_fsm' = DatZero
     \/ In("IDLE") /\ Move(abort, DatIdle(start, dmode))
     \/ In("WAIT_BLOCK") /\ Move(abort, WaitBlock(en, dat_i))
     \/ In("READ_BLOCK") /\ Move(abort, ReadBlock(en))
     \/ In("REGOUT") /\ Move(abort, RegOut(ack))
     \/ In("READ_CRC") /\ Move(abort, ReadCrc(en))
     \/ In("READ_FINISH") /\ Move(abort, ReadFinish(crc))
     \/ In("TAIL") /\ Move(abort, DatTail(en))
     \/ In("WAIT_BUSY") /\ Move(abort, WaitBusy(en, dat_i))
     \/ In("WRITE_REGIN") /\ Move(abort, WriteRegIn(ack))
     \/ In("WRITE_START") /\ Move(abort, WriteStart(en))
     \/ In("WRITE_DATA") /\ Move(abort, WriteData(en))
     \/ In("WRITE_CRC") /\ Move(abort, WriteCrc(en))
     \/ In("WRITE_STOP") /\ Move(abort, WriteStop(en))
     \/ In("WRITE_CHECK_CRC") /\ Move(abort, WriteCheckCrc(en, crc))
     \/ In("WRITE_BUSY") /\ Move(abort, WriteBusy(en, dat_i))
     \/ In("WRITE_TAIL") /\ Move(abort, WriteTail(en))

(* The register is held cleared while rstn_reg is low; a load beats a      *)
(* shift.                                                                  *)
DatReg(strobe, en, load, word, dat_i) ==
  dat_reg' = IF ~dat_fsm'.rstn_reg \/ ~dat_fsm.rstn_reg THEN 0
             ELSE IF load THEN word
             ELSE IF ~(strobe /\ en /\ dat_fsm.shift) THEN dat_reg
             ELSE IF ~dat_fsm.rnw THEN dat_reg + 1
             ELSE IF dat_i > Start THEN dat_i - Start ELSE 0

DatTypeOK ==
  dat_fsm \in [state : {"IDLE", "WAIT_BLOCK", "READ_BLOCK", "REGOUT", "READ_CRC",
                        "READ_FINISH", "TAIL", "WAIT_BUSY", "WRITE_START", "WRITE_DATA",
                        "WRITE_REGIN", "WRITE_CRC", "WRITE_STOP", "WRITE_CHECK_CRC",
                        "WRITE_BUSY", "WRITE_TAIL"},
               bit_counter : 0 .. 63, word_counter : 0 .. BlockWords, clk_req : BOOLEAN,
               clk_stall : BOOLEAN, dat_oe : BOOLEAN, rnw : BOOLEAN, rstn_reg : BOOLEAN,
               shift : BOOLEAN, omux : {"start", "stop", "data", "crc"},
               crc_ok : BOOLEAN, block_done : BOOLEAN, write_start : BOOLEAN]
=============================================================================
