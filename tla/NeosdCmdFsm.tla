----------------------------- MODULE NeosdCmdFsm -----------------------------
(***************************************************************************)
(* The command state machine neosd_cmd_fsm.sv and its shift register       *)
(* neosd_cmd_reg.sv.  cmd_fsm is the struct of the code.  The register is  *)
(* the number of the response bit that was last shifted into it: 0 is a    *)
(* bit of the command or of the idle line, both high at the end.           *)
(***************************************************************************)
EXTENDS Naturals

CONSTANTS
  CmdBits,                  \* bits of a command: 48
  RespBits,                 \* bits of a word of the response: 32
  ShortFirst, ShortWords,   \* bits of the first word and words: 16, 2
  LongFirst, LongWords,     \* the same of a long response: 8, 5
  TailBits                  \* clocks after a command or a block: 8

(* The counters have 6 and 3 bits.  Three bits are in the register before  *)
(* the counter runs.                                                       *)
ASSUME ResponseAssumption ==
  /\ CmdBits \in 1 .. 64 /\ TailBits \in 1 .. 64 /\ RespBits \in 1 .. 64
  /\ ShortFirst \in 4 .. RespBits /\ LongFirst \in 4 .. RespBits
  /\ ShortWords \in 1 .. LongWords /\ LongWords \in 1 .. 7

VARIABLES cmd_fsm, resp_reg

CmdZero == [state |-> "IDLE", bit_counter |-> 0, word_counter |-> 0, clk_req |-> FALSE,
            clk_stall |-> FALSE, cmd_oe |-> FALSE, start_dat |-> FALSE]

cmd_idle == cmd_fsm.state = "IDLE"
status_resp == cmd_fsm.state = "REGOUT"

FirstBits(rmode) == IF rmode = "LONG" THEN LongFirst ELSE ShortFirst

(* start_dat lasts one strobe.                                             *)
Default == [cmd_fsm EXCEPT !.start_dat = FALSE]

CmdCount == cmd_fsm' = [Default EXCEPT !.bit_counter = (@ + 1) % 64]

CmdIdle(start) ==
  /\ cmd_fsm.state = "IDLE"
  /\ cmd_fsm' = IF start THEN [Default EXCEPT !.state = "WRITE", !.bit_counter = 0,
                                              !.cmd_oe = TRUE, !.clk_req = TRUE]
                ELSE Default

(* Faulty variant of CmdWritten: data is awaited only after the response.  *)
CmdWrittenDataLater(rmode, dmode) ==
  cmd_fsm' = [Default EXCEPT
    !.cmd_oe = FALSE,
    !.state = IF rmode = "NONE" THEN "TAIL" ELSE "WAIT_RESP",
    !.bit_counter = IF rmode = "NONE" THEN 0 ELSE RespBits - FirstBits(rmode) + 3,
    !.word_counter = IF rmode = "NONE" THEN @
                     ELSE IF rmode = "SHORT" THEN ShortWords ELSE LongWords]

(* The last bit of the command: data may come before the response.         *)
CmdWritten(rmode, dmode) ==
  cmd_fsm' = [Default EXCEPT
    !.cmd_oe = FALSE, !.start_dat = (dmode = "R"),
    !.state = IF rmode = "NONE" THEN "TAIL" ELSE "WAIT_RESP",
    !.bit_counter = IF rmode = "NONE" THEN 0 ELSE RespBits - FirstBits(rmode) + 3,
    !.word_counter = IF rmode = "NONE" THEN @
                     ELSE IF rmode = "SHORT" THEN ShortWords ELSE LongWords]

CmdWrite(en, rmode, dmode) ==
  /\ cmd_fsm.state = "WRITE"
  /\ \/ ~en /\ cmd_fsm' = Default
     \/ en /\ cmd_fsm.bit_counter = CmdBits - 1 /\ CmdWritten(rmode, dmode)
     \/ en /\ cmd_fsm.bit_counter # CmdBits - 1 /\ CmdCount

(* The start of the response, 00, is looked for at every strobe, whether   *)
(* the register moves or not.                                              *)
CmdWaitResp ==
  /\ cmd_fsm.state = "WAIT_RESP"
  /\ cmd_fsm' = IF resp_reg = 2 THEN [Default EXCEPT !.state = "READ_RESP"] ELSE Default

(* Faulty variant of CmdReadResp: the card's clock goes on while a word    *)
(* waits for the CPU.                                                      *)
CmdReadRespNoStall(en) ==
  /\ cmd_fsm.state = "READ_RESP"
  /\ \/ ~en /\ cmd_fsm' = Default
     \/ /\ en /\ cmd_fsm.bit_counter = RespBits - 1
        /\ cmd_fsm' = [Default EXCEPT !.bit_counter = 0, !.word_counter = @ - 1,
                                      !.state = "REGOUT"]
     \/ en /\ cmd_fsm.bit_counter # RespBits - 1 /\ CmdCount

(* Faulty variant of CmdReadResp: the counter goes on to the tail.          *)
CmdReadRespCountsOn(en) ==
  /\ cmd_fsm.state = "READ_RESP"
  /\ \/ ~en /\ cmd_fsm' = Default
     \/ /\ en /\ cmd_fsm.bit_counter = RespBits - 1
        /\ cmd_fsm' = [Default EXCEPT !.word_counter = @ - 1, !.clk_stall = TRUE,
                                      !.state = "REGOUT"]
     \/ en /\ cmd_fsm.bit_counter # RespBits - 1 /\ CmdCount

CmdReadResp(en) ==
  /\ cmd_fsm.state = "READ_RESP"
  /\ \/ ~en /\ cmd_fsm' = Default
     \/ /\ en /\ cmd_fsm.bit_counter = RespBits - 1
        /\ cmd_fsm' = [Default EXCEPT !.bit_counter = 0, !.word_counter = @ - 1,
                                      !.clk_stall = TRUE, !.state = "REGOUT"]
     \/ en /\ cmd_fsm.bit_counter # RespBits - 1 /\ CmdCount

(* Faulty variant of CmdRegOut: a busy line is not waited for.             *)
CmdRegOutBusyIgnored(ack, dmode) ==
  /\ cmd_fsm.state = "REGOUT"
  /\ cmd_fsm' = IF ~ack THEN Default
                ELSE [Default EXCEPT
                        !.clk_stall = FALSE,
                        !.state = IF cmd_fsm.word_counter = 0 THEN "TAIL" ELSE "READ_RESP",
                        !.start_dat = (cmd_fsm.word_counter = 0 /\ dmode = "W")]

CmdRegOut(ack, dmode) ==
  /\ cmd_fsm.state = "REGOUT"
  /\ cmd_fsm' = IF ~ack THEN Default
                ELSE [Default EXCEPT
                        !.clk_stall = FALSE,
                        !.state = IF cmd_fsm.word_counter = 0 THEN "TAIL" ELSE "READ_RESP",
                        !.start_dat = (cmd_fsm.word_counter = 0 /\ dmode \in {"W", "BUSY"})]

CmdTail(en) ==
  /\ cmd_fsm.state = "TAIL"
  /\ \/ ~en /\ cmd_fsm' = Default
     \/ /\ en /\ cmd_fsm.bit_counter = TailBits - 1
        /\ cmd_fsm' = [Default EXCEPT !.clk_req = FALSE, !.state = "IDLE"]
     \/ en /\ cmd_fsm.bit_counter # TailBits - 1 /\ CmdCount

CmdFsm(strobe, rst, start, rmode, dmode, ack, en) ==
  \/ ~strobe /\ UNCHANGED cmd_fsm
  \/ strobe /\ rst /\ cmd_fsm' = CmdZero
  \/ /\ strobe /\ ~rst
     /\ \/ CmdIdle(start) \/ CmdWrite(en, rmode, dmode) \/ CmdWaitResp
        \/ CmdReadResp(en) \/ CmdRegOut(ack, dmode) \/ CmdTail(en)

(* A write of CMD or CMDARG goes into the register; it beats a shift.      *)
CmdReg(strobe, en, load, cmd_i) ==
  resp_reg' = IF load THEN 0
              ELSE IF strobe /\ en /\ cmd_fsm.clk_req THEN cmd_i ELSE resp_reg

CmdTypeOK ==
  /\ cmd_fsm \in [state : {"IDLE", "WRITE", "WAIT_RESP", "READ_RESP", "REGOUT", "TAIL"},
                  bit_counter : 0 .. 63, word_counter : 0 .. 7, clk_req : BOOLEAN,
                  clk_stall : BOOLEAN, cmd_oe : BOOLEAN, start_dat : BOOLEAN]
  /\ resp_reg \in 0 .. LongFirst + LongWords * RespBits
=============================================================================
