----------------------------- MODULE NeosdProofs -----------------------------
(***************************************************************************)
(* Proofs about the SD controller, its driver and its card                 *)
(* (NeosdTransfer), for every length of a command, a response, a word and  *)
(* a block, every delay of the card and every set of operations.           *)
(*                                                                         *)
(* The invariant Inv says where the controller's two state machines, the   *)
(* program and the card are relative to each other: from a state, a        *)
(* counter and the shift register of the controller it tells the bit that  *)
(* the card sends or takes (CmdPlace, ReadOK, BusyOK, WriteOK), from a     *)
(* flag or a place of the program where the state machines are (CmdFlags,  *)
(* DatFlags, ReadFlags, WriteFlags), and how many words have been moved.   *)
(* The order of the file: what a clock does to each part of the system     *)
(* (CmdMoves, DatMoves, CardStep, BusStep: Moves), what an action of the   *)
(* program does (Kinds, Steps), one lemma for each part of the invariant,  *)
(* and the theorems.  All of them assume that the card answers in time     *)
(* (InTime): without that the run NeosdLateResponse shows words lost.      *)
(***************************************************************************)
EXTENDS NeosdTransfer, TLAPS

-----------------------------------------------------------------------------
(* The fields of the two state machines.                                   *)
cs == cmd_fsm.state
cb == cmd_fsm.bit_counter
cw == cmd_fsm.word_counter
starts == cmd_fsm.start_dat
ds == dat_fsm.state
db == dat_fsm.bit_counter
dw == dat_fsm.word_counter
drives == dat_fsm.dat_oe
shifts == dat_fsm.shift
reads == dat_fsm.rnw
runs == dat_fsm.rstn_reg
sends == dat_fsm.omux
done == dat_fsm.block_done
first == dat_fsm.write_start

CmdStates == {"IDLE", "WRITE", "WAIT_RESP", "READ_RESP", "REGOUT", "TAIL"}
Sending == {"WRITE_START", "WRITE_DATA", "WRITE_CRC", "WRITE_STOP"}
ReadStates == {"WAIT_BLOCK", "READ_BLOCK", "REGOUT", "READ_CRC", "READ_FINISH"}
WriteStates == Sending \cup {"WRITE_REGIN", "WRITE_CHECK_CRC", "WRITE_BUSY", "WRITE_TAIL"}
DatStates == {"IDLE", "TAIL", "WAIT_BUSY"} \cup ReadStates \cup WriteStates
Stalling == {"REGOUT", "READ_FINISH", "WRITE_REGIN"}

(* The two clocks.  A strobe moves the state machines and the shift        *)
(* registers; an edge moves the card.  At the full rate of the controller  *)
(* (Late) the edge comes with the strobe, so that a strobe sees the line   *)
(* as the edge before has left it; otherwise it comes between two strobes. *)
(* lead is how many edges the card is ahead of the shift registers.        *)
Late == sd_clkhs_i /\ sd_clkdiv_i = 0
Due == ~sd_clk_cont /\ ~clkstrb_o
Edge == ~sd_clk_o /\ sd_clk_o'
Shift == clkstrb_o /\ sd_clk_en
lead == IF Late \/ (~Due /\ sd_clk_en) THEN 1 ELSE 0

ClockOK ==
  /\ ClkTypeOK
  /\ clkstrb_o => ~sd_clk_cont
  /\ sd_clk_o => sd_clk_cont
  /\ sd_clkhs_i => ~clkgen_i
  /\ Late => cdiv_cnt = 0 /\ (Due \/ sd_clk_strb)
  /\ sd_clk_strb /\ ~Late => ~clkgen_i /\ ~clkstrb_o /\ (sd_clkhs_i => cdiv_cnt = 0)
  /\ Late /\ Due => cs = "IDLE" /\ ds = "IDLE"

-----------------------------------------------------------------------------
(* The inductive invariant.                                                *)

(* The state machine of the commands, and of the data.                     *)
CmdOutputs ==
  /\ cmd_fsm \in [state : CmdStates, bit_counter : 0 .. 63, word_counter : 0 .. 7,
                  clk_req : BOOLEAN, clk_stall : BOOLEAN, cmd_oe : BOOLEAN,
                  start_dat : BOOLEAN]
  /\ cmd_fsm.clk_req <=> cs # "IDLE"
  /\ cmd_fsm.clk_stall <=> cs = "REGOUT"
  /\ cmd_fsm.cmd_oe <=> cs = "WRITE"

CmdCounts ==
  /\ starts => cs \in {"WAIT_RESP", "TAIL"}
  /\ cs = "WRITE" => cb < CmdBits
  /\ cs \in {"WAIT_RESP", "READ_RESP"} => cb < RespBits /\ cw > 0
  /\ cs = "REGOUT" => cb = 0
  /\ cs = "TAIL" => cb < TailBits

CmdShape == CmdOutputs /\ CmdCounts

DatOutputs ==
  /\ DatTypeOK
  /\ dat_fsm.clk_req <=> ds # "IDLE"
  /\ dat_fsm.clk_stall <=> ds \in Stalling

DatCounts ==
  /\ ds \in Sending => drives
  /\ drives => ds \in Sending \cup {"WRITE_REGIN"}
  /\ done => ds \in {"WAIT_BLOCK", "WRITE_TAIL"}
  /\ ds \in {"IDLE", "TAIL", "WAIT_BUSY"} => ~runs /\ ~shifts
  /\ ds \in {"READ_BLOCK", "WRITE_DATA"} => db < WordBits /\ dw > 0
  /\ ds \in {"READ_CRC", "WRITE_CRC"} => db < CrcBits
  /\ ds = "WRITE_CHECK_CRC" => db < TokenBits
  /\ ds \in {"TAIL", "WRITE_TAIL"} => db < DatTailBits
  /\ ds \in {"REGOUT", "WRITE_START", "WRITE_STOP", "WRITE_BUSY"} => db = 0
  /\ ds \in {"WRITE_BUSY", "WRITE_TAIL"} => first
  /\ ds = "WRITE_REGIN" /\ ~first => dw > 0 /\ drives

DatShape == DatOutputs /\ DatCounts

(* A strobe comes when the status bits have settled.                       *)
Settled ==
  clkstrb_o => /\ status_idle_cmd_last = (cs = "IDLE")
               /\ status_idle_dat_last = (ds = "IDLE")
               /\ status_resp_cmd_last = (cs = "REGOUT")
               /\ status_data_dat_last = (ds \in {"REGOUT", "WRITE_REGIN"})

Registers ==
  /\ CMD \in Commands /\ CTRL \subseteq CtrlBits \ {"IDLE_SDCLK"}
  /\ FLAG_CMD_RESP \in BOOLEAN /\ FLAG_DAT_DATA \in BOOLEAN
  /\ status_idle_cmd_last \in BOOLEAN /\ status_idle_dat_last \in BOOLEAN
  /\ status_resp_cmd_last \in BOOLEAN /\ status_data_dat_last \in BOOLEAN
  /\ resp_reg \in Nat /\ dat_reg \in Nat /\ (~runs => dat_reg = 0)
  /\ bits \in Nat /\ resp \in Int /\ data \in Int /\ held \in Nat /\ taken \in Nat
  /\ got \in Nat /\ words \in Nat

(* An abort comes when no state is left that drives the line.              *)
AbortOK == CMD.ABRT_DAT =>
  /\ ds \in {"IDLE", "TAIL", "WAIT_BLOCK", "WRITE_TAIL", "WRITE_REGIN"}
  /\ ds = "WRITE_REGIN" => FLAG_DAT_DATA \/ ~status_data_dat_last
  /\ ~drives

Controller == ClockOK /\ CmdShape /\ DatShape /\ Settled /\ Registers /\ AbortOK

-----------------------------------------------------------------------------
(* The program and the card.                                               *)
Committed == at \notin {"call", "commit"}
Writing == op = "write" \/ at = "end"
Over == cs = "IDLE" /\ ~CMD.COMMIT
CmdDone == Over /\ status_idle_cmd_last
DatDone == ds = "IDLE" /\ status_idle_dat_last
Resetting == {"begin_reset", "resetting", "drop_resp", "drop_data", "clear_flags", "end_reset"}
FlagNames == {"CMD_RESP", "CMD_DONE", "DAT_DATA", "BLK_DONE", "DAT_DONE"}
Simple == {"silent", "command", "long"}
BlockBits == BlockWords * WordBits
Places == {"call", "commit", "poll", "abort", "wait_idle", "end"} \cup FlagNames \cup Resetting

(* Where the program can be, and what it knows there.                      *)
Program ==
  /\ op \in Operations \cup {"none"} /\ todo \subseteq Polled /\ at \in Places
  /\ answers \in BOOLEAN /\ fetched \in BOOLEAN
  /\ fetched => at \in Modifications
  /\ old \subseteq CTRL /\ (~fetched => old = {})
  /\ fetched /\ "RST" \in CTRL => "RST" \in old
  /\ (op = "none") <=> at \in {"call", "end"}
  /\ op \in Simple => at \in {"commit", "poll", "CMD_RESP", "CMD_DONE"} \cup Resetting
  /\ op = "busy" => at \in {"commit", "poll", "CMD_RESP", "CMD_DONE", "wait_idle", "DAT_DONE"}
  /\ op \in {"read", "write"} => at \in {"commit", "poll", "abort"} \cup FlagNames
  /\ at \in Resetting => ~answers /\ op # "silent"
  /\ ("RST" \in CTRL) <=> at \in Resetting \ {"begin_reset"}
  /\ op = "silent" => ~answers
  /\ op \in {"busy", "read", "write"} => answers
  /\ Writing => ~Late
  /\ at = "end" => CMD.ABRT_DAT
  /\ ~Writing => taken = 0
  /\ at = "commit" => got = 0 /\ words = 0
  /\ at \in FlagNames => at \in todo \/ (op = "busy" /\ at = "DAT_DONE")
  /\ at \in {"DAT_DATA", "BLK_DONE", "DAT_DONE", "abort"} => "CMD_DONE" \notin todo
  /\ at \notin FlagNames \cup {"abort"} => todo = {}

(* Between two operations everything rests.                                *)
Clean == ~Committed =>
  /\ Over /\ ds = "IDLE" /\ CTRL \subseteq {"CRCERR"}
  /\ status_idle_cmd_last /\ status_idle_dat_last
  /\ ~FLAG_CMD_RESP /\ ~FLAG_DAT_DATA /\ todo = {}
  /\ ~status_resp_cmd_last /\ ~status_data_dat_last
  /\ bits = 0 /\ resp = 0 /\ data = 0 /\ held = 0 /\ taken = 0

-----------------------------------------------------------------------------
(* The command and its response.                                           *)
CommandOK == Committed =>
  /\ CMD.ABRT_DAT => /\ CMD.DMODE = "NONE" /\ CMD.RMODE = "NONE" /\ ~CMD.COMMIT
                     /\ cs \in {"IDLE", "TAIL"} /\ resp = 0
                     /\ op \in {"read", "write"} \/ at = "end"
  /\ ~CMD.ABRT_DAT => CMD.DMODE = Mode /\ CMD.RMODE = Response
  /\ CMD.COMMIT => cs = "IDLE" /\ resp_reg = 0
  /\ (cs = "IDLE" /\ CMD.COMMIT) \/ cs = "WRITE" => ds = "IDLE"
  /\ cs = "WAIT_RESP" => ds \notin Stalling /\ (starts => CMD.DMODE = "R")

(* The bit of the response that is on the line, from the counters and the  *)
(* register of the controller.                                             *)
Awaited == cw * RespBits
Clocked == cb + lead - (IF Late THEN 1 ELSE 0)
CmdPlace == Committed =>
  /\ cs # "WRITE" => bits = 0
  /\ cs = "IDLE" => resp = 0
  /\ cs = "WRITE" => /\ resp_reg = 0 /\ bits = IF Clocked = CmdBits THEN 0 ELSE Clocked
                     /\ IF Clocked = CmdBits /\ answers THEN resp \in -MaxRespDelay .. -2
                        ELSE resp = 0
  /\ cs = "WAIT_RESP" =>
       /\ CMD.RMODE # "NONE" /\ cb = RespBits - FirstBits(CMD.RMODE) + 3 /\ cw = RespWords
       /\ ~answers => resp = 0 /\ resp_reg = 0
       /\ answers => \/ resp \in -MaxRespDelay .. -1 /\ resp_reg = 0
                     \/ resp > 0 /\ resp_reg \in 0 .. 2 /\ resp = resp_reg + lead
  /\ cs = "READ_RESP" =>
       /\ answers /\ CMD.RMODE # "NONE" /\ resp_reg >= 3 /\ cw <= RespWords
       /\ resp_reg = LastRespBit - Awaited + cb /\ resp = resp_reg + lead
  /\ cs = "REGOUT" =>
       /\ answers /\ CMD.RMODE # "NONE" /\ resp_reg >= 3 /\ cw < RespWords
       /\ resp_reg = LastRespBit - Awaited
       /\ resp = IF Late /\ cw = 0 THEN 0 ELSE resp_reg + lead
  /\ cs = "TAIL" /\ resp # 0 => resp = LastRespBit /\ cb = 0 /\ lead = 0 /\ CMD.RMODE # "NONE"

(* The words of the response that the program has moved.                   *)
RespTaken == status_resp_cmd_last /\ ~FLAG_CMD_RESP
RespFlags ==
  /\ FLAG_CMD_RESP => cs = "REGOUT" /\ status_resp_cmd_last
  /\ "CMD_RESP" \in todo => FLAG_CMD_RESP
  /\ got <= LongWords
  /\ Committed /\ ~CMD.ABRT_DAT =>
       /\ CMD.COMMIT \/ cs \in {"WRITE", "WAIT_RESP"} => got = 0
       /\ cs = "READ_RESP" => got = RespWords - cw
       /\ cs = "REGOUT" => got = RespWords - cw - (IF RespTaken THEN 0 ELSE 1)
       /\ cs = "TAIL" \/ Over => got = IF answers THEN RespWords ELSE 0
  /\ CMD.ABRT_DAT /\ op \in {"read", "write"} /\ Committed => got = ShortWords

(* What a flag, or the place of the program, says of the state machines.   *)
CmdFlags ==
  /\ Committed /\ CMD.COMMIT => status_idle_cmd_last
  /\ Committed /\ "CMD_DONE" \in CTRL \cup todo => CmdDone
  /\ "CMD_DONE" \in todo => "CMD_DONE" \in CTRL
  /\ at \in {"drop_data", "clear_flags", "end_reset", "wait_idle"} => CmdDone
  /\ at = "drop_resp" => Over
  /\ op = "busy" /\ at \in {"wait_idle", "DAT_DONE"} => CmdDone /\ "CMD_DONE" \notin CTRL
  /\ at = "begin_reset" => cs = "WAIT_RESP"
  /\ at = "resetting" => cs \in {"WAIT_RESP", "IDLE"} /\ ~CMD.COMMIT
  /\ at = "end_reset" => "CMD_DONE" \notin CTRL
  /\ op \in {"command", "long"} /\ ~answers /\ at \in {"poll", "CMD_RESP", "CMD_DONE"} =>
       ~Over /\ cs # "TAIL"

DatFlags ==
  /\ FLAG_DAT_DATA => \/ ds \in {"REGOUT", "WRITE_REGIN"} /\ status_data_dat_last
                      \/ Writing /\ words = BlockWords /\ CMD.ABRT_DAT
  /\ "DAT_DATA" \in todo => FLAG_DAT_DATA
  /\ Committed /\ "DAT_DONE" \in CTRL \cup todo => DatDone /\ (op = "busy" \/ CMD.ABRT_DAT)
  /\ Committed /\ ds = "IDLE" /\ ~CMD.ABRT_DAT /\ op # "busy" => status_idle_dat_last
  /\ op = "busy" /\ at = "DAT_DONE" => DatDone
  /\ op \notin {"read", "write"} /\ at # "end" => ~done /\ "BLK_DONE" \notin CTRL

OtherOK == op \in Simple => ds = "IDLE" /\ data = 0 /\ held = 0 /\ words = 0

-----------------------------------------------------------------------------
(* A read block.                                                           *)
Missing == dw * WordBits
Before == data < 0 \/ data = Start
Served == CmdDone /\ "CMD_DONE" \notin CTRL
DataTaken == status_data_dat_last /\ ~FLAG_DAT_DATA

ReadOK == Committed /\ op = "read" =>
  /\ held = 0 /\ ~drives
  /\ ds \in {"IDLE", "TAIL"} \cup ReadStates
  /\ ds \in ReadStates => reads /\ shifts
  /\ ds \in ReadStates \ {"READ_FINISH"} => runs
  /\ done => ds = "WAIT_BLOCK" /\ ~Before
  /\ ds = "IDLE" /\ ~CMD.ABRT_DAT =>
       \/ CMD.COMMIT /\ data = 0
       \/ cs = "WRITE" /\ IF Clocked = CmdBits THEN data <= -2 ELSE data = 0
       \/ cs = "WAIT_RESP" /\ starts /\ data <= lead - 2
  /\ ds = "WAIT_BLOCK" => \/ data <= 0
                          \/ data = Start /\ lead = 1
                          \/ data = LastDataBit /\ lead = 0 /\ done
  /\ ds = "READ_BLOCK" => /\ dat_reg = BlockBits - Missing + db
                          /\ data = Start + dat_reg + lead
  /\ ds = "REGOUT" => /\ dw < BlockWords /\ dat_reg = BlockBits - Missing
                      /\ data = Start + dat_reg + lead
  /\ ds = "READ_CRC" => data = Start + BlockBits + db + lead
  /\ ds = "READ_FINISH" => data = IF Late THEN 0 ELSE LastDataBit
  /\ ds = "TAIL" \/ (ds = "IDLE" /\ CMD.ABRT_DAT) => data = 0
  /\ ds = "TAIL" => CMD.ABRT_DAT

(* The data is never much ahead of the response.                           *)
Place(x) == IF x < 0 THEN x ELSE x - 1
RespPlace == CASE cs \in {"READ_RESP", "REGOUT"} -> resp_reg + lead - 1
               [] cs = "TAIL" -> LastRespBit + cb + lead - 1
               [] OTHER -> Place(resp)
Race == op = "read" /\ Committed /\ cs # "IDLE" /\ data # 0 =>
          Place(data) <= RespPlace + MaxRespDelay - 2

(* The words of the block that the program has moved.                      *)
ReadOver == data = 0 /\ ~done /\ ds \in {"WAIT_BLOCK", "TAIL", "IDLE"}
Moved == \/ ds \in {"READ_CRC", "READ_FINISH", "TAIL"}
         \/ ds = "WAIT_BLOCK" /\ ~Before
         \/ ds = "IDLE" /\ CMD.ABRT_DAT
ReadFlags == op = "read" /\ Committed =>
  /\ (ds = "IDLE" /\ ~CMD.ABRT_DAT) \/ (ds = "WAIT_BLOCK" /\ Before) => words = 0
  /\ ds = "READ_BLOCK" => words = BlockWords - dw
  /\ ds = "REGOUT" => words = BlockWords - dw - (IF DataTaken THEN 0 ELSE 1)
  /\ ds = "REGOUT" /\ dw = 0 => /\ Over
                                /\ FLAG_DAT_DATA => status_idle_cmd_last
                                /\ DataTaken \/ at = "DAT_DATA" => Served
  /\ Moved => Served /\ words = BlockWords
  /\ "BLK_DONE" \in CTRL \cup todo \/ at = "abort" \/ CMD.ABRT_DAT => Moved /\ ReadOver
  /\ at = "abort" \/ CMD.ABRT_DAT => "BLK_DONE" \notin CTRL
  /\ CMD.ABRT_DAT => at \in {"poll", "DAT_DONE"}

-----------------------------------------------------------------------------
(* A busy response.                                                        *)
Ending == \/ cs = "READ_RESP" /\ resp = LastRespBit
          \/ cs = "REGOUT" /\ cw = 0
Ahead == IF lead = 1 THEN {-1, 0} ELSE {-2, -1}
BusyOK == op = "busy" /\ Committed =>
  /\ ds \in {"IDLE", "WAIT_BUSY", "TAIL"} /\ ~drives /\ words = 0 /\ ~runs
  /\ data \in {-2, -1, 0} /\ (data < 0 => held = 0)
  /\ starts \/ ~(cs = "TAIL" \/ Over) =>
       ds = "IDLE" /\ status_idle_dat_last /\ "DAT_DONE" \notin CTRL
  /\ cs = "READ_RESP" /\ resp = LastRespBit => data \in {-2, -1}
  /\ cs = "REGOUT" /\ cw = 0 => data \in (IF Late THEN {-1, 0} ELSE {-2, -1})
  /\ cs = "TAIL" /\ starts => data \in Ahead
  /\ ds = "WAIT_BUSY" => data \in (IF lead = 1 THEN {0} ELSE {-1, 0})
  /\ ds = "TAIL" => data = 0 /\ held = 0
  /\ ds = "IDLE" /\ ~Ending /\ ~starts => data = 0 /\ held = 0

-----------------------------------------------------------------------------
(* A written block.                                                        *)
WriteShape ==
  /\ ds \in WriteStates \cup {"IDLE", "TAIL"}
  /\ ds # "IDLE" => (cs = "TAIL" \/ Over) /\ resp = 0
  /\ ds \notin {"WRITE_STOP", "WRITE_CHECK_CRC", "WRITE_BUSY"} => data = 0 /\ held = 0
  /\ ds = "IDLE" /\ CMD.ABRT_DAT => taken = BlockBits /\ words = BlockWords
  /\ ds = "IDLE" /\ ~CMD.ABRT_DAT => /\ taken = 0 /\ words = 0 /\ ~Over
                                     /\ cs = "TAIL" => starts
  /\ ds = "WRITE_REGIN" =>
       \/ /\ first /\ ~drives /\ taken = 0 /\ dat_reg = 0 /\ ~shifts /\ runs /\ ~reads
          /\ words = (IF DataTaken THEN 1 ELSE 0)
       \/ /\ ~first /\ drives /\ sends = "data" /\ shifts /\ runs /\ ~reads /\ dw < BlockWords
          /\ dat_reg = BlockBits - Missing /\ taken = dat_reg
          /\ words = BlockWords - dw + (IF DataTaken THEN 1 ELSE 0)
       \/ first /\ ~drives /\ taken = BlockBits /\ words = BlockWords /\ ~DataTaken
  /\ ds = "WRITE_START" => /\ taken = 0 /\ dat_reg = 0 /\ words = 1 /\ sends = "start"
                           /\ ~shifts /\ runs /\ ~reads
  /\ ds = "WRITE_DATA" => /\ sends = "data" /\ ~first /\ shifts /\ runs /\ ~reads
                          /\ dat_reg = BlockBits - Missing + db
                          /\ taken = dat_reg + lead /\ words = BlockWords - dw + 1
  /\ ds \notin {"IDLE", "WRITE_REGIN", "WRITE_START", "WRITE_DATA"} =>
       taken = BlockBits /\ words = BlockWords
  /\ ds \in {"WRITE_CRC", "WRITE_STOP"} => sends # "data"
  /\ ds = "WRITE_STOP" => held = 0 /\ data = (IF lead = 1 THEN -(TokenBits + 1) ELSE 0)
  /\ ds = "WRITE_CHECK_CRC" => held = 0 /\ data = db + lead - (TokenBits + 1)
  /\ ds = "WRITE_BUSY" => data = 0 \/ (data = -1 /\ held = 0 /\ lead = 0)
  /\ ds = "TAIL" => CMD.ABRT_DAT

WriteFlags ==
  "BLK_DONE" \in CTRL \cup todo \/ at = "abort" \/ CMD.ABRT_DAT =>
    /\ ds \in {"WRITE_TAIL", "WRITE_REGIN", "TAIL", "IDLE"} /\ ~drives /\ ~done
    /\ words = BlockWords /\ taken = BlockBits

WriteOK == Writing /\ Committed => WriteShape /\ WriteFlags

(* What the program writes back is not older than what it clears.          *)
Kept == fetched /\ op # "write" => (CTRL \cup Raised) \cap (Polled \cup {"CRCERR"}) \subseteq old

Inv == /\ Controller /\ Program /\ Clean /\ CommandOK /\ CmdPlace /\ RespFlags /\ CmdFlags
       /\ DatFlags /\ OtherOK /\ ReadOK /\ Race /\ ReadFlags /\ BusyOK /\ WriteOK /\ Kept

-----------------------------------------------------------------------------
(* The clock.                                                              *)

LEMMA ClockStep ==
  ASSUME ClockOK, ClkClock(sd_clk_en)
  PROVE  /\ ClkTypeOK' /\ (Late' <=> Late)
         /\ Edge <=> sd_clk_strb /\ ~sd_clk_cont /\ sd_clk_en
         /\ clkstrb_o => ~Due /\ ~clkstrb_o'
         /\ Late /\ ~Due => sd_clk_strb /\ ~Due'
         /\ Late /\ Due => cs = "IDLE" /\ ds = "IDLE"
         /\ Late /\ clkstrb_o => (Edge <=> sd_clk_en)
         /\ Late /\ ~clkstrb_o /\ ~Due => ~Edge
         /\ ~Late /\ clkstrb_o => Due' /\ ~Edge
         /\ ~Late /\ ~clkstrb_o /\ ~Due => ~Due' /\ ~Edge
         /\ ~Late /\ Due /\ ~Edge /\ sd_clk_en => Due'
         /\ Edge => ~Due'
         /\ clkstrb_o' => ~sd_clk_cont'
         /\ sd_clk_o' => sd_clk_cont'
         /\ sd_clkhs_i' => ~clkgen_i'
         /\ Late => cdiv_cnt' = 0 /\ (Due' \/ sd_clk_strb')
         /\ sd_clk_strb' /\ ~Late => ~clkgen_i' /\ ~clkstrb_o' /\ (sd_clkhs_i' => cdiv_cnt' = 0)
<1> USE DEF ClkClock, Prescale, Divide, Strobe, CardClock, ClockOK, ClkTypeOK
<1>1. Late' <=> Late
  BY DEF Late
<1>2. Edge <=> sd_clk_strb /\ ~sd_clk_cont /\ sd_clk_en
  BY DEF Edge
<1>3. clkstrb_o => ~Due /\ ~clkstrb_o'
  BY DEF Due
<1>4. Late /\ ~Due => sd_clk_strb /\ ~Due'
  BY DEF Late, Due
<1>5. Late /\ Due => cs = "IDLE" /\ ds = "IDLE"
  OBVIOUS
<1>6. Late /\ clkstrb_o => (Edge <=> sd_clk_en)
  BY <1>2, <1>3, <1>4
<1>7. Late /\ ~clkstrb_o /\ ~Due => ~Edge
  BY <1>2 DEF Due
<1>8. ~Late /\ clkstrb_o => Due' /\ ~Edge
  BY <1>2 DEF Due
<1>9. ~Late /\ ~clkstrb_o /\ ~Due => ~Due' /\ ~Edge
  BY <1>2 DEF Due
<1>10. ~Late /\ Due /\ ~Edge /\ sd_clk_en => Due'
  BY <1>2 DEF Due
<1>11. Edge => ~Due'
  BY <1>2 DEF Due
<1>12. clkstrb_o' => ~sd_clk_cont'
  OBVIOUS
<1>13. sd_clk_o' => sd_clk_cont'
  <2>1. CASE sd_clk_strb
    <3>1. sd_clk_o' => ~sd_clk_cont /\ sd_clk_cont' = (sd_clk_cont # sd_clk_strb)
      BY <2>1
    <3> QED
      BY <2>1, <3>1
  <2>2. CASE ~sd_clk_strb
    <3>1. sd_clk_o' => sd_clk_cont /\ sd_clk_cont' = (sd_clk_cont # sd_clk_strb)
      BY <2>2
    <3>2. sd_clk_strb = FALSE /\ (sd_clk_cont => sd_clk_cont = TRUE)
      BY <2>2
    <3> QED
      BY <3>1, <3>2, Zenon
  <2> QED
    BY <2>1, <2>2
<1>14. sd_clkhs_i' => ~clkgen_i'
  OBVIOUS
<1>15. Late => cdiv_cnt' = 0 /\ (Due' \/ sd_clk_strb')
  BY DEF Late, Due
<1>16. sd_clk_strb' /\ ~Late => ~clkgen_i' /\ ~clkstrb_o' /\ (sd_clkhs_i' => cdiv_cnt' = 0)
  BY DEF Late
<1>17. ClkTypeOK'
  OBVIOUS
<1> QED
  BY <1>1, <1>2, <1>3, <1>4, <1>5, <1>6, <1>7, <1>8, <1>9, <1>10, <1>11, <1>12, <1>13,
     <1>14, <1>15, <1>16, <1>17

(* What a clock does that depends on no access.                            *)
Machines(crc) ==
  /\ ClkClock(sd_clk_en)
  /\ CmdFsm(clkstrb_o, "RST" \in CTRL, CMD.COMMIT, CMD.RMODE, CMD.DMODE, ~FLAG_CMD_RESP,
            sd_clk_en)
  /\ DatFsm(clkstrb_o, "RST" \in CTRL, cmd_fsm.start_dat, CMD.DMODE, ~FLAG_DAT_DATA,
            CMD.ABRT_DAT, sd_clk_en, dat_line, crc)
  /\ Card

-----------------------------------------------------------------------------
(* A step of the command state machine, field by field.                    *)
CmdStays == cs' = cs /\ cb' = cb /\ cw' = cw

CmdMove ==
  /\ ~clkstrb_o => CmdStays /\ starts' = starts
  /\ clkstrb_o => (starts' => cs' \in {"WAIT_RESP", "TAIL"} /\ cs' # cs)
  /\ clkstrb_o /\ "RST" \in CTRL => cs' = "IDLE"
  /\ clkstrb_o /\ "RST" \notin CTRL =>
       /\ cs = "IDLE" /\ ~CMD.COMMIT => cs' = "IDLE"
       /\ cs = "IDLE" /\ CMD.COMMIT => cs' = "WRITE" /\ cb' = 0
       /\ cs \in {"WRITE", "READ_RESP", "TAIL"} /\ ~sd_clk_en => CmdStays
       /\ cs = "WRITE" /\ sd_clk_en /\ cb # CmdBits - 1 => cs' = "WRITE" /\ cb' = cb + 1
       /\ cs = "WRITE" /\ sd_clk_en /\ cb = CmdBits - 1 =>
            /\ starts' <=> CMD.DMODE = "R"
            /\ CMD.RMODE = "NONE" => cs' = "TAIL" /\ cb' = 0
            /\ CMD.RMODE # "NONE" => /\ cs' = "WAIT_RESP"
                                     /\ cb' = RespBits - FirstBits(CMD.RMODE) + 3
                                     /\ cw' = RespWords
       /\ cs = "WAIT_RESP" /\ resp_reg # 2 => CmdStays
       /\ cs = "WAIT_RESP" /\ resp_reg = 2 => cs' = "READ_RESP" /\ cb' = cb /\ cw' = cw
       /\ cs = "READ_RESP" /\ sd_clk_en /\ cb # RespBits - 1 =>
            cs' = "READ_RESP" /\ cb' = cb + 1 /\ cw' = cw
       /\ cs = "READ_RESP" /\ sd_clk_en /\ cb = RespBits - 1 =>
            cs' = "REGOUT" /\ cb' = 0 /\ cw' = cw - 1
       /\ cs = "REGOUT" /\ FLAG_CMD_RESP => CmdStays
       /\ cs = "REGOUT" /\ ~FLAG_CMD_RESP /\ cw = 0 =>
            cs' = "TAIL" /\ cb' = 0 /\ (starts' <=> CMD.DMODE \in {"W", "BUSY"})
       /\ cs = "REGOUT" /\ ~FLAG_CMD_RESP /\ cw # 0 =>
            cs' = "READ_RESP" /\ cb' = 0 /\ cw' = cw
       /\ cs = "TAIL" /\ sd_clk_en /\ cb # TailBits - 1 => cs' = "TAIL" /\ cb' = cb + 1
       /\ cs = "TAIL" /\ sd_clk_en /\ cb = TailBits - 1 => cs' = "IDLE"

(* What a response mode says of the first word and of the number of words. *)
LEMMA FirstIs ==
  ASSUME CMD \in Commands
  PROVE  /\ FirstBits(CMD.RMODE) \in 4 .. RespBits
         /\ CMD.RMODE # "NONE" => RespWords \in 1 .. LongWords
         /\ CMD.RMODE = "SHORT" => RespWords = ShortWords
         /\ CMD.RMODE = "LONG" => RespWords = LongWords
         /\ CMD.RMODE = "NONE" => RespWords = 0
         /\ CMD.RMODE \in {"NONE", "SHORT", "LONG"}
         /\ CMD.COMMIT \in BOOLEAN /\ CMD.ABRT_DAT \in BOOLEAN
BY ResponseAssumption DEF FirstBits, RespWords, Commands

(* A clock moves the command state machine as CmdMove says, and keeps its  *)
(* counters in their ranges.                                               *)
LEMMA CmdMoves ==
  ASSUME CmdShape, Registers, NEW crc, Machines(crc)
  PROVE  CmdMove /\ CmdShape'
<1>0. SUFFICES CmdMove /\ CmdOutputs'
  <2>1. ASSUME CmdMove, CmdOutputs'
        PROVE  CmdCounts'
    <3>1. cb \in 0 .. 63 /\ cw \in 0 .. 7 /\ cs \in CmdStates
      BY DEF CmdShape, CmdOutputs, cs, cb, cw
    <3> QED
      BY <2>1, <3>1, FirstIs, ResponseAssumption
         DEF CmdMove, CmdStays, CmdShape, CmdCounts, Registers, CmdStates
  <2> QED
    BY <2>1 DEF CmdShape
<1> DEFINE M == [state : CmdStates, bit_counter : 0 .. 63, word_counter : 0 .. 7,
                 clk_req : BOOLEAN, clk_stall : BOOLEAN, cmd_oe : BOOLEAN,
                 start_dat : BOOLEAN]
<1> DEFINE rst == "RST" \in CTRL
<1>1. CmdFsm(clkstrb_o, rst, CMD.COMMIT, CMD.RMODE, CMD.DMODE, ~FLAG_CMD_RESP, sd_clk_en)
  BY DEF Machines
<1>6. /\ cmd_fsm \in M /\ 0 \in 0 .. 63
      /\ (cmd_fsm.bit_counter + 1) % 64 \in 0 .. 63
  BY DEF CmdShape, CmdOutputs
<1>2. /\ cmd_fsm \in M
      /\ cmd_fsm.clk_req <=> cs # "IDLE"
      /\ cmd_fsm.clk_stall <=> cs = "REGOUT"
      /\ cmd_fsm.cmd_oe <=> cs = "WRITE"
  BY DEF CmdShape, CmdOutputs
<1>3. CASE ~clkstrb_o
  <2>1. cmd_fsm' = cmd_fsm
    BY <1>1, <1>3 DEF CmdFsm
  <2>2. CmdMove
    BY <2>1, <1>3 DEF CmdMove, CmdStays, cs, cb, cw, starts
  <2>3. CmdOutputs'
    BY <2>1 DEF CmdShape, CmdOutputs, CmdShape, cs
  <2> QED
    BY <2>2, <2>3
<1>4. CASE clkstrb_o /\ rst
  <2>1. cmd_fsm' = CmdZero
    BY <1>1, <1>4 DEF CmdFsm
  <2>2. CmdMove
    BY <2>1, <1>4 DEF CmdMove, CmdStays, cs, cb, cw, starts, CmdZero
  <2>3. CmdOutputs'
    BY <2>1 DEF CmdOutputs, cs, cb, cw, starts, CmdZero, CmdStates
  <2> QED
    BY <2>2, <2>3
<1>5. CASE clkstrb_o /\ ~rst
  <2>0. /\ FirstBits(CMD.RMODE) \in 4 .. RespBits
        /\ CMD.RMODE # "NONE" => RespWords \in 1 .. LongWords
        /\ CMD.RMODE = "SHORT" => RespWords = ShortWords
        /\ CMD.RMODE = "LONG" => RespWords = LongWords
        /\ CMD.RMODE \in {"NONE", "SHORT", "LONG"}
    BY FirstIs DEF Registers
  <2>1. CASE cs = "IDLE"
    <3>1. cmd_fsm' = IF CMD.COMMIT
                     THEN [Default EXCEPT !.state = "WRITE", !.bit_counter = 0,
                                          !.cmd_oe = TRUE, !.clk_req = TRUE]
                     ELSE Default
      BY <1>1, <1>5, <2>1
           DEF CmdFsm, CmdIdle, CmdWrite, CmdWaitResp, CmdReadResp, CmdRegOut, CmdTail, cs
    <3>2. /\ ~starts'
          /\ ~CMD.COMMIT => cs' = "IDLE"
          /\ CMD.COMMIT => cs' = "WRITE" /\ cb' = 0
      BY <3>1, <1>2, <2>1 DEF Default, cs, cb, starts
    <3>3. CmdMove
      BY <3>2, <1>5, <2>1 DEF CmdMove
    <3>4. CmdOutputs'
      <4>1. cmd_fsm' \in M
        BY <3>1, <1>6, <2>1
           DEF Default, cs, cb, cw, starts, CmdStates
      <4>2. /\ cmd_fsm'.clk_req <=> cs' # "IDLE"
            /\ cmd_fsm'.clk_stall <=> cs' = "REGOUT"
            /\ cmd_fsm'.cmd_oe <=> cs' = "WRITE"
        BY <3>1, <1>2, <2>1
           DEF Default, cs, cb, cw, starts, CmdStates
      <4> QED
        BY <4>1, <4>2 DEF CmdOutputs
    <3> QED
      BY <3>3, <3>4
  <2>2. CASE cs = "WRITE"
    <3>1. CASE ~sd_clk_en
      <4>1. cmd_fsm' = Default
        BY <1>1, <1>5, <2>2, <3>1
           DEF CmdFsm, CmdIdle, CmdWrite, CmdWaitResp, CmdReadResp, CmdRegOut, CmdTail, cs
      <4>2. CmdMove
        BY <4>1, <1>2, <1>5, <2>2, <3>1 DEF CmdMove, CmdStays, Default, cs, cb, cw, starts
      <4>3. CmdOutputs'
        <5>1. cmd_fsm' \in M
          BY <4>1, <1>6, <2>2 DEF Default, cs, cb, cw, starts, CmdStates
        <5>2. /\ cmd_fsm'.clk_req <=> cs' # "IDLE"
              /\ cmd_fsm'.clk_stall <=> cs' = "REGOUT"
              /\ cmd_fsm'.cmd_oe <=> cs' = "WRITE"
          BY <4>1, <1>2, <2>2 DEF Default, cs, cb, cw, starts, CmdStates
        <5> QED
          BY <5>1, <5>2 DEF CmdOutputs
      <4> QED
        BY <4>2, <4>3
    <3>2. CASE sd_clk_en /\ cb # CmdBits - 1
      <4>1. cmd_fsm' = [Default EXCEPT !.bit_counter = (@ + 1) % 64]
        BY <1>1, <1>5, <2>2, <3>2
           DEF CmdFsm, CmdIdle, CmdWrite, CmdWaitResp, CmdReadResp, CmdRegOut, CmdTail, cs, cb,
               CmdCount
      <4>2. cb \in 0 .. CmdBits - 2 /\ (cb + 1) % 64 = cb + 1
        BY <1>2, <2>2, <3>2, ResponseAssumption DEF CmdShape, CmdCounts, cs, cb
      <4>3. CmdMove
        BY <4>1, <4>2, <1>2, <1>5, <2>2, <3>2 DEF CmdMove, CmdStays, Default, cs, cb, cw, starts
      <4>4. CmdOutputs'
        <5>1. cmd_fsm' \in M
          BY <4>1, <1>6, <2>2
             DEF Default, cs, cb, cw, starts, CmdStates
        <5>2. /\ cmd_fsm'.clk_req <=> cs' # "IDLE"
              /\ cmd_fsm'.clk_stall <=> cs' = "REGOUT"
              /\ cmd_fsm'.cmd_oe <=> cs' = "WRITE"
          BY <4>1, <4>2, <1>2, <2>2
             DEF Default, cs, cb, cw, starts, CmdStates
        <5> QED
          BY <5>1, <5>2 DEF CmdOutputs
      <4> QED
        BY <4>3, <4>4
    <3>3. CASE sd_clk_en /\ cb = CmdBits - 1
      <4>1. CmdWritten(CMD.RMODE, CMD.DMODE)
        BY <1>1, <1>5, <2>2, <3>3
           DEF CmdFsm, CmdIdle, CmdWrite, CmdWaitResp, CmdReadResp, CmdRegOut, CmdTail, cs, cb
      <4>2. CASE CMD.RMODE = "NONE"
        <5>1. cmd_fsm' = [Default EXCEPT !.cmd_oe = FALSE, !.start_dat = (CMD.DMODE = "R"),
                                         !.state = "TAIL", !.bit_counter = 0]
          BY <4>1, <4>2, <1>2 DEF CmdWritten, Default
        <5>2. CmdMove
          BY <5>1, <4>2, <1>2, <1>5, <2>2, <3>3
             DEF CmdMove, CmdStays, Default, cs, cb, cw, starts
        <5>3. CmdOutputs'
          <6>1. cmd_fsm' \in M
            BY <5>1, <1>6, <2>2
               DEF Default, cs, cb, cw, starts, CmdStates
          <6>2. /\ cmd_fsm'.clk_req <=> cs' # "IDLE"
                /\ cmd_fsm'.clk_stall <=> cs' = "REGOUT"
                /\ cmd_fsm'.cmd_oe <=> cs' = "WRITE"
            BY <5>1, <1>2, <2>2
               DEF Default, cs, cb, cw, starts, CmdStates
          <6> QED
            BY <6>1, <6>2 DEF CmdOutputs
        <5> QED
          BY <5>2, <5>3
      <4>3. CASE CMD.RMODE # "NONE"
        <5> DEFINE b == RespBits - FirstBits(CMD.RMODE) + 3
        <5>0. b \in 0 .. 63 /\ b < RespBits
          BY <2>0, ResponseAssumption
        <5>1. RespWords = IF CMD.RMODE = "SHORT" THEN ShortWords ELSE LongWords
          BY <2>0, <4>3
        <5>2. RespWords \in 1 .. 7 /\ RespWords \in 0 .. 7
          BY <2>0, <4>3, ResponseAssumption
        <5> HIDE DEF b
        <5>3. cmd_fsm' = [Default EXCEPT !.cmd_oe = FALSE, !.start_dat = (CMD.DMODE = "R"),
                                         !.state = "WAIT_RESP", !.bit_counter = b,
                                         !.word_counter = RespWords]
          BY <4>1, <4>3, <5>1 DEF CmdWritten, Default, b
        <5>4. /\ cs' = "WAIT_RESP" /\ cb' = b /\ cw' = RespWords
              /\ starts' <=> CMD.DMODE = "R"
          BY <5>3, <1>2 DEF Default, cs, cb, cw, starts
        <5>5. CmdMove
          BY <5>4, <4>3, <1>5, <2>2, <3>3 DEF CmdMove, b
        <5>6. CmdOutputs'
          <6>1. cmd_fsm' \in M
            BY <5>0, <5>2, <5>3, <1>6, <2>2
               DEF Default, cs, cb, cw, starts, CmdStates
          <6>2. /\ cmd_fsm'.clk_req <=> cs' # "IDLE"
                /\ cmd_fsm'.clk_stall <=> cs' = "REGOUT"
                /\ cmd_fsm'.cmd_oe <=> cs' = "WRITE"
            BY <5>0, <5>2, <5>3, <1>2, <2>2
               DEF Default, cs, cb, cw, starts, CmdStates
          <6> QED
            BY <6>1, <6>2 DEF CmdOutputs
        <5> QED
          BY <5>5, <5>6
      <4> QED
        BY <4>2, <4>3
    <3> QED
      BY <3>1, <3>2, <3>3
  <2>3. CASE cs = "WAIT_RESP"
    <3>1. cmd_fsm' = IF resp_reg = 2 THEN [Default EXCEPT !.state = "READ_RESP"] ELSE Default
      BY <1>1, <1>5, <2>3
           DEF CmdFsm, CmdIdle, CmdWrite, CmdWaitResp, CmdReadResp, CmdRegOut, CmdTail, cs
    <3>2. CmdMove
      BY <3>1, <1>2, <1>5, <2>3 DEF CmdMove, CmdStays, Default, cs, cb, cw, starts
    <3>3. CmdOutputs'
      <4>1. cmd_fsm' \in M
        BY <3>1, <1>6, <2>3 DEF Default, cs, cb, cw, starts, CmdStates
      <4>2. /\ cmd_fsm'.clk_req <=> cs' # "IDLE"
            /\ cmd_fsm'.clk_stall <=> cs' = "REGOUT"
            /\ cmd_fsm'.cmd_oe <=> cs' = "WRITE"
        BY <3>1, <1>2, <2>3 DEF Default, cs, cb, cw, starts, CmdStates
      <4> QED
        BY <4>1, <4>2 DEF CmdOutputs
    <3> QED
      BY <3>2, <3>3
  <2>4. CASE cs = "READ_RESP"
    <3>1. CASE ~sd_clk_en
      <4>1. cmd_fsm' = Default
        BY <1>1, <1>5, <2>4, <3>1
           DEF CmdFsm, CmdIdle, CmdWrite, CmdWaitResp, CmdReadResp, CmdRegOut, CmdTail, cs
      <4>2. CmdMove
        BY <4>1, <1>2, <1>5, <2>4, <3>1 DEF CmdMove, CmdStays, Default, cs, cb, cw, starts
      <4>3. CmdOutputs'
        <5>1. cmd_fsm' \in M
          BY <4>1, <1>6, <2>4 DEF Default, cs, cb, cw, starts, CmdStates
        <5>2. /\ cmd_fsm'.clk_req <=> cs' # "IDLE"
              /\ cmd_fsm'.clk_stall <=> cs' = "REGOUT"
              /\ cmd_fsm'.cmd_oe <=> cs' = "WRITE"
          BY <4>1, <1>2, <2>4 DEF Default, cs, cb, cw, starts, CmdStates
        <5> QED
          BY <5>1, <5>2 DEF CmdOutputs
      <4> QED
        BY <4>2, <4>3
    <3>2. CASE sd_clk_en /\ cb # RespBits - 1
      <4>1. cmd_fsm' = [Default EXCEPT !.bit_counter = (@ + 1) % 64]
        BY <1>1, <1>5, <2>4, <3>2
           DEF CmdFsm, CmdIdle, CmdWrite, CmdWaitResp, CmdReadResp, CmdRegOut, CmdTail, cs, cb,
               CmdCount
      <4>2. cb \in 0 .. RespBits - 2 /\ (cb + 1) % 64 = cb + 1
        BY <1>2, <2>4, <3>2, ResponseAssumption DEF CmdShape, CmdCounts, cs, cb
      <4>3. CmdMove
        BY <4>1, <4>2, <1>2, <1>5, <2>4, <3>2 DEF CmdMove, CmdStays, Default, cs, cb, cw, starts
      <4>4. CmdOutputs'
        <5>1. cmd_fsm' \in M
          BY <4>1, <1>6, <2>4
             DEF Default, cs, cb, cw, starts, CmdStates
        <5>2. /\ cmd_fsm'.clk_req <=> cs' # "IDLE"
              /\ cmd_fsm'.clk_stall <=> cs' = "REGOUT"
              /\ cmd_fsm'.cmd_oe <=> cs' = "WRITE"
          BY <4>1, <4>2, <1>2, <2>4
             DEF Default, cs, cb, cw, starts, CmdStates
        <5> QED
          BY <5>1, <5>2 DEF CmdOutputs
      <4> QED
        BY <4>3, <4>4
    <3>3. CASE sd_clk_en /\ cb = RespBits - 1
      <4>1. cmd_fsm' = [Default EXCEPT !.bit_counter = 0, !.word_counter = @ - 1,
                                       !.clk_stall = TRUE, !.state = "REGOUT"]
        BY <1>1, <1>5, <2>4, <3>3
           DEF CmdFsm, CmdIdle, CmdWrite, CmdWaitResp, CmdReadResp, CmdRegOut, CmdTail, cs, cb
      <4>2. CmdMove
        BY <4>1, <1>2, <1>5, <2>4, <3>3 DEF CmdMove, CmdStays, Default, cs, cb, cw, starts
      <4>3. CmdOutputs'
        <5>0. cmd_fsm.word_counter - 1 \in 0 .. 7
          BY <1>6, <2>4 DEF CmdShape, CmdCounts, cs, cw
        <5>1. cmd_fsm' \in M
          BY <4>1, <5>0, <1>6, <2>4 DEF Default, cs, cb, cw, starts, CmdStates
        <5>2. /\ cmd_fsm'.clk_req <=> cs' # "IDLE"
              /\ cmd_fsm'.clk_stall <=> cs' = "REGOUT"
              /\ cmd_fsm'.cmd_oe <=> cs' = "WRITE"
          BY <4>1, <1>2, <2>4 DEF Default, cs, cb, cw, starts, CmdStates
        <5> QED
          BY <5>1, <5>2 DEF CmdOutputs
      <4> QED
        BY <4>2, <4>3
    <3> QED
      BY <3>1, <3>2, <3>3
  <2>5. CASE cs = "REGOUT"
    <3>1. cmd_fsm' = IF FLAG_CMD_RESP THEN Default
                     ELSE [Default EXCEPT
                        !.clk_stall = FALSE,
                        !.state = IF cw = 0 THEN "TAIL" ELSE "READ_RESP",
                        !.start_dat = (cw = 0 /\ CMD.DMODE \in {"W", "BUSY"})]
      BY <1>1, <1>5, <2>5
           DEF CmdFsm, CmdIdle, CmdWrite, CmdWaitResp, CmdReadResp, CmdRegOut, CmdTail, cs, cw
    <3>2. CmdMove
      BY <3>1, <1>2, <1>5, <2>5 DEF CmdMove, CmdShape, CmdCounts, CmdStays, Default, cs, cb,
         cw, starts
    <3>3. CmdOutputs'
      <4>1. cmd_fsm' \in M
        BY <3>1, <1>6, <2>5
           DEF Default, cs, cb, cw, starts, CmdStates
      <4>2. /\ cmd_fsm'.clk_req <=> cs' # "IDLE"
            /\ cmd_fsm'.clk_stall <=> cs' = "REGOUT"
            /\ cmd_fsm'.cmd_oe <=> cs' = "WRITE"
        BY <3>1, <1>2, <2>5
           DEF Default, cs, cb, cw, starts, CmdStates
      <4> QED
        BY <4>1, <4>2 DEF CmdOutputs
    <3> QED
      BY <3>2, <3>3
  <2>6. CASE cs = "TAIL"
    <3>1. CASE ~sd_clk_en
      <4>1. cmd_fsm' = Default
        BY <1>1, <1>5, <2>6, <3>1
           DEF CmdFsm, CmdIdle, CmdWrite, CmdWaitResp, CmdReadResp, CmdRegOut, CmdTail, cs
      <4>2. CmdMove
        BY <4>1, <1>2, <1>5, <2>6, <3>1 DEF CmdMove, CmdStays, Default, cs, cb, cw, starts
      <4>3. CmdOutputs'
        <5>1. cmd_fsm' \in M
          BY <4>1, <1>6, <2>6 DEF Default, cs, cb, cw, starts, CmdStates
        <5>2. /\ cmd_fsm'.clk_req <=> cs' # "IDLE"
              /\ cmd_fsm'.clk_stall <=> cs' = "REGOUT"
              /\ cmd_fsm'.cmd_oe <=> cs' = "WRITE"
          BY <4>1, <1>2, <2>6 DEF Default, cs, cb, cw, starts, CmdStates
        <5> QED
          BY <5>1, <5>2 DEF CmdOutputs
      <4> QED
        BY <4>2, <4>3
    <3>2. CASE sd_clk_en /\ cb # TailBits - 1
      <4>1. cmd_fsm' = [Default EXCEPT !.bit_counter = (@ + 1) % 64]
        BY <1>1, <1>5, <2>6, <3>2
           DEF CmdFsm, CmdIdle, CmdWrite, CmdWaitResp, CmdReadResp, CmdRegOut, CmdTail, cs, cb,
               CmdCount
      <4>2. cb \in 0 .. TailBits - 2 /\ (cb + 1) % 64 = cb + 1
        BY <1>2, <2>6, <3>2, ResponseAssumption DEF CmdShape, CmdCounts, cs, cb
      <4>3. CmdMove
        BY <4>1, <4>2, <1>2, <1>5, <2>6, <3>2 DEF CmdMove, CmdStays, Default, cs, cb, cw, starts
      <4>4. CmdOutputs'
        <5>1. cmd_fsm' \in M
          BY <4>1, <1>6, <2>6
             DEF Default, cs, cb, cw, starts, CmdStates
        <5>2. /\ cmd_fsm'.clk_req <=> cs' # "IDLE"
              /\ cmd_fsm'.clk_stall <=> cs' = "REGOUT"
              /\ cmd_fsm'.cmd_oe <=> cs' = "WRITE"
          BY <4>1, <4>2, <1>2, <2>6
             DEF Default, cs, cb, cw, starts, CmdStates
        <5> QED
          BY <5>1, <5>2 DEF CmdOutputs
      <4> QED
        BY <4>3, <4>4
    <3>3. CASE sd_clk_en /\ cb = TailBits - 1
      <4>1. cmd_fsm' = [Default EXCEPT !.clk_req = FALSE, !.state = "IDLE"]
        BY <1>1, <1>5, <2>6, <3>3
           DEF CmdFsm, CmdIdle, CmdWrite, CmdWaitResp, CmdReadResp, CmdRegOut, CmdTail, cs, cb
      <4>2. CmdMove
        BY <4>1, <1>2, <1>5, <2>6, <3>3 DEF CmdMove, CmdStays, Default, cs, cb, cw, starts
      <4>3. CmdOutputs'
        <5>1. cmd_fsm' \in M
          BY <4>1, <1>6, <2>6 DEF Default, cs, cb, cw, starts, CmdStates
        <5>2. /\ cmd_fsm'.clk_req <=> cs' # "IDLE"
              /\ cmd_fsm'.clk_stall <=> cs' = "REGOUT"
              /\ cmd_fsm'.cmd_oe <=> cs' = "WRITE"
          BY <4>1, <1>2, <2>6 DEF Default, cs, cb, cw, starts, CmdStates
        <5> QED
          BY <5>1, <5>2 DEF CmdOutputs
      <4> QED
        BY <4>2, <4>3
    <3> QED
      BY <3>1, <3>2, <3>3
  <2>7. cs \in CmdStates
    BY <1>2 DEF cs
  <2> QED
    BY <2>1, <2>2, <2>3, <2>4, <2>5, <2>6, <2>7 DEF CmdStates
<1> QED
  BY <1>3, <1>4, <1>5

-----------------------------------------------------------------------------
(* A step of the data state machine, field by field.                       *)
DatStays == ds' = ds /\ db' = db /\ dw' = dw
SameRegister == shifts' = shifts /\ reads' = reads /\ runs' = runs
SameOutput == sends' = sends /\ first' = first /\ drives' = drives
Normal == clkstrb_o /\ "RST" \notin CTRL /\ (CMD.ABRT_DAT => ds \in {"IDLE", "TAIL"})

DatFrame ==
  /\ ~clkstrb_o => DatStays /\ SameRegister /\ SameOutput /\ done' = done
  /\ clkstrb_o /\ "RST" \in CTRL =>
       ds' = "IDLE" /\ ~shifts' /\ ~runs' /\ ~drives' /\ ~done'
  /\ clkstrb_o /\ "RST" \notin CTRL /\ CMD.ABRT_DAT /\ ds \notin {"IDLE", "TAIL"} =>
       ds' = "TAIL" /\ db' = 0 /\ ~shifts' /\ ~runs' /\ ~drives' /\ ~done'
  /\ Normal => /\ done' <=> ds = "READ_FINISH" \/ (ds = "WRITE_BUSY" /\ ds' = "WRITE_TAIL")
               /\ ds \in {"IDLE", "TAIL"} => SameOutput \/ ds' = "WRITE_REGIN"

IdleMoves ==
  /\ ds = "IDLE" /\ (~starts \/ CMD.DMODE = "NONE") => DatStays /\ SameRegister /\ SameOutput
  /\ ds = "IDLE" /\ starts /\ CMD.DMODE = "R" =>
       ds' = "WAIT_BLOCK" /\ shifts' /\ reads' /\ runs' /\ SameOutput
  /\ ds = "IDLE" /\ starts /\ CMD.DMODE = "BUSY" =>
       ds' = "WAIT_BUSY" /\ SameRegister /\ SameOutput
  /\ ds = "IDLE" /\ starts /\ CMD.DMODE = "W" =>
       /\ ds' = "WRITE_REGIN" /\ first' /\ drives' = drives /\ sends' = sends
       /\ shifts' = shifts /\ ~reads' /\ runs'
  /\ ds = "TAIL" => SameRegister /\ SameOutput
  /\ ds = "TAIL" /\ ~sd_clk_en => DatStays
  /\ ds = "TAIL" /\ sd_clk_en /\ db # DatTailBits - 1 => ds' = ds /\ db' = db + 1
  /\ ds = "TAIL" /\ sd_clk_en /\ db = DatTailBits - 1 => ds' = "IDLE"

ReadMoves ==
  /\ ds \in ReadStates => SameOutput
  /\ ds \in ReadStates \ {"READ_CRC", "READ_FINISH"} => SameRegister
  /\ ds \in {"READ_CRC", "READ_FINISH"} => shifts' = shifts /\ reads' = reads
  /\ ds = "WAIT_BLOCK" /\ ~(sd_clk_en /\ IsLow(dat_line)) => DatStays
  /\ ds = "WAIT_BLOCK" /\ sd_clk_en /\ IsLow(dat_line) =>
       ds' = "READ_BLOCK" /\ db' = 0 /\ dw' = BlockWords
  /\ ds \in {"READ_BLOCK", "READ_CRC"} /\ ~sd_clk_en => DatStays
  /\ ds = "READ_BLOCK" /\ sd_clk_en /\ db # WordBits - 1 => ds' = ds /\ db' = db + 1 /\ dw' = dw
  /\ ds = "READ_BLOCK" /\ sd_clk_en /\ db = WordBits - 1 =>
       ds' = "REGOUT" /\ db' = 0 /\ dw' = dw - 1
  /\ ds = "REGOUT" /\ FLAG_DAT_DATA => DatStays
  /\ ds = "REGOUT" /\ ~FLAG_DAT_DATA /\ dw = 0 => ds' = "READ_CRC" /\ db' = 0
  /\ ds = "REGOUT" /\ ~FLAG_DAT_DATA /\ dw # 0 => ds' = "READ_BLOCK" /\ db' = 0 /\ dw' = dw
  /\ ds = "READ_CRC" /\ ~sd_clk_en => runs' = runs
  /\ ds = "READ_CRC" /\ sd_clk_en /\ db # CrcBits - 1 => ds' = ds /\ db' = db + 1 /\ runs' = runs
  /\ ds = "READ_CRC" /\ sd_clk_en /\ db = CrcBits - 1 => ds' = "READ_FINISH" /\ ~runs'
  /\ ds = "READ_FINISH" => ds' = "WAIT_BLOCK" /\ runs'

BusyMoves ==
  /\ ds = "WAIT_BUSY" => SameRegister /\ SameOutput
  /\ ds = "WAIT_BUSY" /\ ~(sd_clk_en /\ ~IsLow(dat_line)) => DatStays
  /\ ds = "WAIT_BUSY" /\ sd_clk_en /\ ~IsLow(dat_line) => ds' = "TAIL" /\ db' = 0

WriteMoves ==
  /\ ds \in WriteStates => reads' = reads
  /\ ds \in WriteStates \ {"WRITE_START", "WRITE_CHECK_CRC", "WRITE_TAIL"} => SameRegister
  /\ ds \in {"WRITE_BUSY", "WRITE_TAIL"} => SameOutput
  /\ ds = "WRITE_REGIN" /\ FLAG_DAT_DATA => DatStays /\ SameOutput
  /\ ds = "WRITE_REGIN" /\ ~FLAG_DAT_DATA /\ first =>
       ds' = "WRITE_START" /\ db' = 0 /\ sends' = "start" /\ drives' /\ first'
  /\ ds = "WRITE_REGIN" /\ ~FLAG_DAT_DATA /\ ~first =>
       ds' = "WRITE_DATA" /\ db' = 0 /\ dw' = dw /\ SameOutput
  /\ ds \in WriteStates \ {"WRITE_REGIN"} /\ ~sd_clk_en => DatStays /\ SameRegister /\ SameOutput
  /\ ds = "WRITE_START" /\ sd_clk_en =>
       /\ ds' = "WRITE_DATA" /\ db' = db /\ dw' = BlockWords
       /\ sends' = "data" /\ drives' = drives /\ ~first' /\ shifts' /\ runs' = runs
  /\ ds = "WRITE_DATA" => first' = first /\ drives' = drives
  /\ ds = "WRITE_DATA" /\ sd_clk_en /\ db # WordBits - 1 =>
       ds' = ds /\ db' = db + 1 /\ dw' = dw /\ SameOutput
  /\ ds = "WRITE_DATA" /\ sd_clk_en /\ db = WordBits - 1 /\ dw # 1 =>
       ds' = "WRITE_REGIN" /\ db' = 0 /\ dw' = dw - 1 /\ SameOutput
  /\ ds = "WRITE_DATA" /\ sd_clk_en /\ db = WordBits - 1 /\ dw = 1 =>
       ds' = "WRITE_CRC" /\ db' = 0 /\ sends' = "crc"
  /\ ds = "WRITE_CRC" => first' = first /\ drives' = drives
  /\ ds = "WRITE_CRC" /\ sd_clk_en /\ db # CrcBits - 1 => ds' = ds /\ db' = db + 1 /\ SameOutput
  /\ ds = "WRITE_CRC" /\ sd_clk_en /\ db = CrcBits - 1 =>
       ds' = "WRITE_STOP" /\ db' = 0 /\ sends' = "stop"
  /\ ds = "WRITE_STOP" /\ sd_clk_en => ds' = "WRITE_CHECK_CRC" /\ db' = db /\ ~drives'
  /\ ds = "WRITE_CHECK_CRC" => drives' = drives
  /\ ds = "WRITE_CHECK_CRC" /\ sd_clk_en /\ db # TokenBits - 1 =>
       ds' = ds /\ db' = db + 1 /\ SameRegister
  /\ ds = "WRITE_CHECK_CRC" /\ sd_clk_en /\ db = TokenBits - 1 =>
       ds' = "WRITE_BUSY" /\ db' = 0 /\ first' /\ ~shifts' /\ ~runs'
  /\ ds = "WRITE_BUSY" /\ IsLow(dat_line) => DatStays
  /\ ds = "WRITE_BUSY" /\ sd_clk_en /\ ~IsLow(dat_line) => ds' = "WRITE_TAIL" /\ db' = db
  /\ ds = "WRITE_TAIL" => shifts' = shifts
  /\ ds = "WRITE_TAIL" /\ sd_clk_en /\ db # DatTailBits - 1 =>
       ds' = ds /\ db' = db + 1 /\ SameRegister
  /\ ds = "WRITE_TAIL" /\ sd_clk_en /\ db = DatTailBits - 1 =>
       ds' = "WRITE_REGIN" /\ db' = 0 /\ runs'

DatMove == DatFrame /\ (Normal => IdleMoves /\ ReadMoves /\ BusyMoves /\ WriteMoves)

DatRecords ==
  [state : {"IDLE", "WAIT_BLOCK", "READ_BLOCK", "REGOUT", "READ_CRC", "READ_FINISH", "TAIL",
            "WAIT_BUSY", "WRITE_START", "WRITE_DATA", "WRITE_REGIN", "WRITE_CRC",
            "WRITE_STOP", "WRITE_CHECK_CRC", "WRITE_BUSY", "WRITE_TAIL"},
   bit_counter : 0 .. 63, word_counter : 0 .. BlockWords, clk_req : BOOLEAN,
   clk_stall : BOOLEAN, dat_oe : BOOLEAN, rnw : BOOLEAN, rstn_reg : BOOLEAN,
   shift : BOOLEAN, omux : {"start", "stop", "data", "crc"}, crc_ok : BOOLEAN,
   block_done : BOOLEAN, write_start : BOOLEAN]

(* A clock moves the data state machine as DatMove says, and keeps its     *)
(* counters in their ranges.                                               *)
LEMMA DatMoves ==
  ASSUME DatShape, Settled, Registers, AbortOK, NEW crc \in BOOLEAN, Machines(crc)
  PROVE  DatMove /\ DatShape'
<1> DEFINE abort == CMD.ABRT_DAT /\ ds \notin {"IDLE", "TAIL"}
<1>1. DatFsm(clkstrb_o, "RST" \in CTRL, starts, CMD.DMODE, ~FLAG_DAT_DATA, CMD.ABRT_DAT,
             sd_clk_en, dat_line, crc)
  BY DEF Machines, starts
<1>2. /\ DatTypeOK /\ 0 \in 0 .. 63
      /\ (dat_fsm.bit_counter + 1) % 64 \in 0 .. 63
      /\ 0 \in 0 .. BlockWords /\ BlockWords \in 0 .. BlockWords
  BY BlockAssumption DEF DatShape, DatOutputs, DatTypeOK
<1>10. dat_fsm \in DatRecords
  BY <1>2 DEF DatTypeOK, DatRecords
<1>11. Cur \in DatRecords
  BY <1>10 DEF DatRecords, Cur
<1>12. Counted \in DatRecords
  BY <1>2, <1>10 DEF DatRecords, Cur, Counted
<1>13. Cur.word_counter = dw /\ dat_fsm.word_counter = dw /\ dat_fsm.bit_counter = db
  BY <1>10 DEF DatRecords, Cur, dw, db
<1>3. /\ dat_fsm.clk_req <=> ds # "IDLE"
      /\ dat_fsm.clk_stall <=> ds \in Stalling
  BY DEF DatShape, DatOutputs
<1>4. ds \in DatStates /\ db \in 0 .. 63 /\ dw \in 0 .. BlockWords
  BY <1>2 DEF DatTypeOK, DatStates, ReadStates, WriteStates, Sending, ds, db, dw
<1>5. SUFFICES DatMove /\ DatOutputs'
  <2>1. ASSUME DatMove, DatOutputs'
        PROVE  DatCounts'
    <3>1. ds' \in DatStates /\ db' \in 0 .. 63 /\ dw' \in 0 .. BlockWords
      BY <2>1 DEF DatOutputs, DatTypeOK, DatStates, ReadStates, WriteStates, Sending, ds, db, dw
    <3> USE <1>4, <2>1, <3>1, BlockAssumption
            DEF DatMove, DatFrame, DatShape, DatCounts, DatStays, SameRegister, SameOutput,
                Sending, DatStates, ReadStates, WriteStates, AbortOK, Normal
    <3>2. CASE ~Normal
      BY <3>2
    <3>7. CMD.DMODE \in {"NONE", "BUSY", "R", "W"}
      BY DEF Registers, Commands
    <3>3. CASE Normal /\ ds = "IDLE"
      BY <3>3, <3>7 DEF IdleMoves
    <3>8. CASE Normal /\ ds = "TAIL"
      BY <3>8 DEF IdleMoves
    <3>4. CASE Normal /\ ds \in ReadStates
      BY <3>4 DEF ReadMoves
    <3>5. CASE Normal /\ ds = "WAIT_BUSY"
      BY <3>5 DEF BusyMoves
    <3>6. CASE Normal /\ ds \in WriteStates
      <4> HIDE DEF DatMove, DatFrame, DatShape, DatCounts, DatStays, SameRegister, SameOutput,
                  Sending, DatStates, ReadStates, WriteStates, AbortOK, Normal
      <4>9. WriteMoves /\ (done' => ds' = "WRITE_TAIL")
        BY <2>1, <3>6 DEF DatMove, DatFrame, Normal, WriteStates, Sending
      <4>10. DatCounts
        BY DEF DatShape
      <4>11. ASSUME DatStays, SameRegister, SameOutput
             PROVE  DatCounts'
        BY <4>9, <4>10, <4>11 DEF DatCounts, DatStays, SameRegister, SameOutput, Sending
      <4>1. CASE ds = "WRITE_REGIN"
        <5>1. CASE FLAG_DAT_DATA
          <6>1. DatStays /\ SameRegister /\ SameOutput
            BY <4>1, <4>9, <5>1 DEF WriteMoves, WriteStates, Sending
          <6> QED
            BY <4>11, <6>1
        <5>2. CASE ~FLAG_DAT_DATA /\ first
          <6>1. ds' = "WRITE_START" /\ db' = 0 /\ drives'
            BY <4>1, <4>9, <5>2
               DEF WriteMoves, WriteStates, Sending, DatStays, SameRegister, SameOutput
          <6> QED
            BY <1>4, <4>1, <4>9, <4>10, <5>2, <6>1, BlockAssumption DEF DatCounts, Sending
        <5>3. CASE ~FLAG_DAT_DATA /\ ~first
          <6>1. ds' = "WRITE_DATA" /\ db' = 0 /\ dw' = dw /\ (drives' <=> drives)
            BY <4>1, <4>9, <5>3
               DEF WriteMoves, WriteStates, Sending, DatStays, SameRegister, SameOutput
          <6> QED
            BY <1>4, <4>1, <4>9, <4>10, <5>3, <6>1, BlockAssumption DEF DatCounts, Sending
        <5> QED
          BY <5>1, <5>2, <5>3
      <4>2. CASE ds = "WRITE_START"
        <5>1. CASE ~sd_clk_en
          <6>1. DatStays /\ SameRegister /\ SameOutput
            BY <4>2, <4>9, <5>1 DEF WriteMoves, WriteStates, Sending
          <6> QED
            BY <4>11, <6>1
        <5>2. CASE sd_clk_en
          <6>1. ds' = "WRITE_DATA" /\ db' = db /\ dw' = BlockWords /\ (drives' <=> drives)
            BY <4>2, <4>9, <5>2
               DEF WriteMoves, WriteStates, Sending, DatStays, SameRegister, SameOutput
          <6> QED
            BY <1>4, <4>2, <4>9, <4>10, <5>2, <6>1, BlockAssumption DEF DatCounts, Sending
        <5> QED
          BY <5>1, <5>2
      <4>3. CASE ds = "WRITE_DATA"
        <5>1. CASE ~sd_clk_en
          <6>1. DatStays /\ SameRegister /\ SameOutput
            BY <4>3, <4>9, <5>1 DEF WriteMoves, WriteStates, Sending
          <6> QED
            BY <4>11, <6>1
        <5>2. CASE sd_clk_en /\ db # WordBits - 1
          <6>1. ds' = ds /\ db' = db + 1 /\ dw' = dw /\ (drives' <=> drives)
            BY <4>3, <4>9, <5>2
               DEF WriteMoves, WriteStates, Sending, DatStays, SameRegister, SameOutput
          <6> QED
            BY <1>4, <4>3, <4>9, <4>10, <5>2, <6>1, BlockAssumption DEF DatCounts, Sending
        <5>3. CASE sd_clk_en /\ db = WordBits - 1 /\ dw # 1
          <6>1. ds' = "WRITE_REGIN" /\ dw' = dw - 1 /\ (drives' <=> drives)
            BY <4>3, <4>9, <5>3
               DEF WriteMoves, WriteStates, Sending, DatStays, SameRegister, SameOutput
          <6> QED
            BY <1>4, <4>3, <4>9, <4>10, <5>3, <6>1, BlockAssumption DEF DatCounts, Sending
        <5>4. CASE sd_clk_en /\ db = WordBits - 1 /\ dw = 1
          <6>1. ds' = "WRITE_CRC" /\ db' = 0 /\ (drives' <=> drives)
            BY <4>3, <4>9, <5>4
               DEF WriteMoves, WriteStates, Sending, DatStays, SameRegister, SameOutput
          <6> QED
            BY <1>4, <4>3, <4>9, <4>10, <5>4, <6>1, BlockAssumption DEF DatCounts, Sending
        <5> QED
          BY <5>1, <5>2, <5>3, <5>4
      <4>4. CASE ds = "WRITE_CRC"
        <5>1. CASE ~sd_clk_en
          <6>1. DatStays /\ SameRegister /\ SameOutput
            BY <4>4, <4>9, <5>1 DEF WriteMoves, WriteStates, Sending
          <6> QED
            BY <4>11, <6>1
        <5>2. CASE sd_clk_en /\ db # CrcBits - 1
          <6>1. ds' = ds /\ db' = db + 1 /\ (drives' <=> drives)
            BY <4>4, <4>9, <5>2
               DEF WriteMoves, WriteStates, Sending, DatStays, SameRegister, SameOutput
          <6> QED
            BY <1>4, <4>4, <4>9, <4>10, <5>2, <6>1, BlockAssumption DEF DatCounts, Sending
        <5>3. CASE sd_clk_en /\ db = CrcBits - 1
          <6>1. ds' = "WRITE_STOP" /\ db' = 0 /\ (drives' <=> drives)
            BY <4>4, <4>9, <5>3
               DEF WriteMoves, WriteStates, Sending, DatStays, SameRegister, SameOutput
          <6> QED
            BY <1>4, <4>4, <4>9, <4>10, <5>3, <6>1, BlockAssumption DEF DatCounts, Sending
        <5> QED
          BY <5>1, <5>2, <5>3
      <4>5. CASE ds = "WRITE_STOP"
        <5>1. CASE ~sd_clk_en
          <6>1. DatStays /\ SameRegister /\ SameOutput
            BY <4>5, <4>9, <5>1 DEF WriteMoves, WriteStates, Sending
          <6> QED
            BY <4>11, <6>1
        <5>2. CASE sd_clk_en
          <6>1. ds' = "WRITE_CHECK_CRC" /\ db' = db /\ ~drives'
            BY <4>5, <4>9, <5>2
               DEF WriteMoves, WriteStates, Sending, DatStays, SameRegister, SameOutput
          <6> QED
            BY <1>4, <4>5, <4>9, <4>10, <5>2, <6>1, BlockAssumption DEF DatCounts, Sending
        <5> QED
          BY <5>1, <5>2
      <4>6. CASE ds = "WRITE_CHECK_CRC"
        <5>1. CASE ~sd_clk_en
          <6>1. DatStays /\ SameRegister /\ SameOutput
            BY <4>6, <4>9, <5>1 DEF WriteMoves, WriteStates, Sending
          <6> QED
            BY <4>11, <6>1
        <5>2. CASE sd_clk_en /\ db # TokenBits - 1
          <6>1. ds' = ds /\ db' = db + 1 /\ (drives' <=> drives)
            BY <4>6, <4>9, <5>2
               DEF WriteMoves, WriteStates, Sending, DatStays, SameRegister, SameOutput
          <6> QED
            BY <1>4, <4>6, <4>9, <4>10, <5>2, <6>1, BlockAssumption DEF DatCounts, Sending
        <5>3. CASE sd_clk_en /\ db = TokenBits - 1
          <6>1. ds' = "WRITE_BUSY" /\ db' = 0 /\ first' /\ (drives' <=> drives)
            BY <4>6, <4>9, <5>3
               DEF WriteMoves, WriteStates, Sending, DatStays, SameRegister, SameOutput
          <6> QED
            BY <1>4, <4>6, <4>9, <4>10, <5>3, <6>1, BlockAssumption DEF DatCounts, Sending
        <5> QED
          BY <5>1, <5>2, <5>3
      <4>7. CASE ds = "WRITE_BUSY"
        <5>1. CASE ~(sd_clk_en /\ ~IsLow(dat_line))
          <6>1. DatStays /\ SameRegister /\ SameOutput
            BY <4>7, <4>9, <5>1 DEF WriteMoves, WriteStates, Sending
          <6> QED
            BY <4>11, <6>1
        <5>2. CASE sd_clk_en /\ ~IsLow(dat_line)
          <6>1. ds' = "WRITE_TAIL" /\ db' = db /\ (first' <=> first) /\ (drives' <=> drives)
            BY <4>7, <4>9, <5>2
               DEF WriteMoves, WriteStates, Sending, DatStays, SameRegister, SameOutput
          <6> QED
            BY <1>4, <4>7, <4>9, <4>10, <5>2, <6>1, BlockAssumption DEF DatCounts, Sending
        <5> QED
          BY <5>1, <5>2
      <4>8. CASE ds = "WRITE_TAIL"
        <5>1. CASE ~sd_clk_en
          <6>1. DatStays /\ SameRegister /\ SameOutput
            BY <4>8, <4>9, <5>1 DEF WriteMoves, WriteStates, Sending
          <6> QED
            BY <4>11, <6>1
        <5>2. CASE sd_clk_en /\ db # DatTailBits - 1
          <6>1. ds' = ds /\ db' = db + 1 /\ (first' <=> first) /\ (drives' <=> drives)
            BY <4>8, <4>9, <5>2
               DEF WriteMoves, WriteStates, Sending, DatStays, SameRegister, SameOutput
          <6> QED
            BY <1>4, <4>8, <4>9, <4>10, <5>2, <6>1, BlockAssumption DEF DatCounts, Sending
        <5>3. CASE sd_clk_en /\ db = DatTailBits - 1
          <6>1. ds' = "WRITE_REGIN" /\ (first' <=> first) /\ (drives' <=> drives)
            BY <4>8, <4>9, <5>3
               DEF WriteMoves, WriteStates, Sending, DatStays, SameRegister, SameOutput
          <6> QED
            BY <1>4, <4>8, <4>9, <4>10, <5>3, <6>1, BlockAssumption DEF DatCounts, Sending
        <5> QED
          BY <5>1, <5>2, <5>3
      <4> QED
        BY <3>6, <4>1, <4>2, <4>3, <4>4, <4>5, <4>6, <4>7, <4>8 DEF WriteStates, Sending
    <3> QED
      BY <3>2, <3>3, <3>4, <3>5, <3>6, <3>8
  <2> QED
    BY <2>1 DEF DatShape
<1>6. CASE ~clkstrb_o
  <2>1. dat_fsm' = dat_fsm
    BY <1>1, <1>6 DEF DatFsm
  <2>2. DatMove
    BY <2>1, <1>6 DEF DatMove, DatFrame, Normal, DatStays, SameRegister, SameOutput,
       ds, db, dw, shifts, reads, runs, sends, done, first, drives
  <2>3. DatOutputs'
    BY <2>1 DEF DatShape, DatOutputs, DatTypeOK, ds
  <2> QED
    BY <2>2, <2>3
<1>7. CASE clkstrb_o /\ "RST" \in CTRL
  <2>1. dat_fsm' = DatZero
    BY <1>1, <1>7 DEF DatFsm
  <2>2. DatMove
    BY <2>1, <1>7 DEF DatMove, DatFrame, Normal, DatZero,
       ds, db, dw, shifts, reads, runs, sends, done, first, drives
  <2>3. DatOutputs'
    BY <2>1, <1>2 DEF DatOutputs, DatTypeOK, DatZero, Stalling, ds
  <2> QED
    BY <2>2, <2>3
<1>8. CASE Normal
  <2>0. clkstrb_o /\ "RST" \notin CTRL /\ ~abort
    BY <1>8 DEF Normal
  <2>1. CASE ds = "IDLE"
    <3>1. dat_fsm' = DatIdle(starts, CMD.DMODE)
      BY <1>1, <2>0, <2>1 DEF DatFsm, Move, ds
    <3>2. DatMove
      BY <3>1, <1>2, <1>8, <2>0, <2>1
         DEF DatMove, DatFrame, IdleMoves, ReadMoves, BusyMoves, WriteMoves, Normal,
             DatStays, SameRegister, SameOutput, ReadStates, WriteStates, Sending,
             DatIdle, Cur, Counted, DatTypeOK,
             ds, db, dw, shifts, reads, runs, sends, done, first, drives
    <3>3. dat_fsm' \in DatRecords
      <4>1. CASE ~starts \/ CMD.DMODE = "NONE"
        BY <3>1, <1>11, <1>12, <1>13, <4>1 DEF DatIdle
      <4>2. CASE starts /\ CMD.DMODE = "R"
        <5>1. dat_fsm' = [Cur EXCEPT !.clk_req = TRUE, !.rnw = TRUE, !.shift = TRUE, !.rstn_reg = TRUE,
                                     !.state = "WAIT_BLOCK"]
          BY <3>1, <1>13, <4>2 DEF DatIdle
        <5> QED
          BY <5>1, <1>2, <1>11 DEF DatRecords
      <4>3. CASE starts /\ CMD.DMODE = "BUSY"
        <5>1. dat_fsm' = [Cur EXCEPT !.clk_req = TRUE, !.state = "WAIT_BUSY"]
          BY <3>1, <1>13, <4>3 DEF DatIdle
        <5> QED
          BY <5>1, <1>2, <1>11 DEF DatRecords
      <4>4. CASE starts /\ CMD.DMODE = "W"
        <5>1. dat_fsm' = [Cur EXCEPT !.write_start = TRUE, !.rnw = FALSE, !.clk_req = TRUE,
                                     !.clk_stall = TRUE, !.rstn_reg = TRUE, !.state = "WRITE_REGIN"]
          BY <3>1, <1>13, <4>4 DEF DatIdle
        <5> QED
          BY <5>1, <1>2, <1>11 DEF DatRecords
      <4> QED
        BY <4>1, <4>2, <4>3, <4>4 DEF Registers, Commands
    <3>4. /\ dat_fsm'.clk_req <=> ds' # "IDLE"
          /\ dat_fsm'.clk_stall <=> ds' \in Stalling
      BY <3>1, <1>2, <1>3, <2>1 DEF DatIdle, Cur, Counted, DatTypeOK, Stalling, ds
    <3> QED
      BY <3>2, <3>3, <3>4 DEF DatOutputs, DatTypeOK, DatRecords
  <2>2. CASE ds = "TAIL"
    <3>0. db # DatTailBits - 1 => (db + 1) % 64 = db + 1
      BY <1>4, <2>2, BlockAssumption DEF DatShape, DatCounts
    <3>1. dat_fsm' = DatTail(sd_clk_en)
      BY <1>1, <2>0, <2>2 DEF DatFsm, Move, ds
    <3>2. DatMove
      BY <3>1, <3>0, <1>2, <1>8, <2>0, <2>2
         DEF DatMove, DatFrame, IdleMoves, ReadMoves, BusyMoves, WriteMoves, Normal,
             DatStays, SameRegister, SameOutput, ReadStates, WriteStates, Sending,
             DatTail, Cur, Counted, DatTypeOK,
             ds, db, dw, shifts, reads, runs, sends, done, first, drives
    <3>3. dat_fsm' \in DatRecords
      <4>1. CASE ~sd_clk_en
        BY <3>1, <1>11, <1>12, <1>13, <4>1 DEF DatTail
      <4>2. CASE sd_clk_en /\ db # DatTailBits - 1
        BY <3>1, <1>11, <1>12, <1>13, <4>2 DEF DatTail
      <4>3. CASE sd_clk_en /\ db = DatTailBits - 1
        <5>1. dat_fsm' = [Cur EXCEPT !.clk_req = FALSE, !.state = "IDLE"]
          BY <3>1, <1>13, <4>3 DEF DatTail
        <5> QED
          BY <5>1, <1>2, <1>11 DEF DatRecords
      <4> QED
        BY <4>1, <4>2, <4>3
    <3>4. /\ dat_fsm'.clk_req <=> ds' # "IDLE"
          /\ dat_fsm'.clk_stall <=> ds' \in Stalling
      BY <3>1, <1>2, <1>3, <2>2 DEF DatTail, Cur, Counted, DatTypeOK, Stalling, ds
    <3> QED
      BY <3>2, <3>3, <3>4 DEF DatOutputs, DatTypeOK, DatRecords
  <2>3. CASE ds = "WAIT_BLOCK"
    <3>1. dat_fsm' = WaitBlock(sd_clk_en, dat_line)
      BY <1>1, <2>0, <2>3 DEF DatFsm, Move, ds
    <3>2. DatMove
      BY <3>1, <1>2, <1>8, <2>0, <2>3
         DEF DatMove, DatFrame, IdleMoves, ReadMoves, BusyMoves, WriteMoves, Normal,
             DatStays, SameRegister, SameOutput, ReadStates, WriteStates, Sending,
             WaitBlock, Cur, Counted, DatTypeOK,
             ds, db, dw, shifts, reads, runs, sends, done, first, drives
    <3>3. dat_fsm' \in DatRecords
      <4>1. CASE ~(sd_clk_en /\ IsLow(dat_line))
        BY <3>1, <1>11, <1>12, <1>13, <4>1 DEF WaitBlock
      <4>2. CASE sd_clk_en /\ IsLow(dat_line)
        <5>1. dat_fsm' = [Cur EXCEPT !.state = "READ_BLOCK", !.bit_counter = 0, !.word_counter = BlockWords]
          BY <3>1, <1>13, <4>2 DEF WaitBlock
        <5> QED
          BY <5>1, <1>2, <1>11 DEF DatRecords
      <4> QED
        BY <4>1, <4>2
    <3>4. /\ dat_fsm'.clk_req <=> ds' # "IDLE"
          /\ dat_fsm'.clk_stall <=> ds' \in Stalling
      BY <3>1, <1>2, <1>3, <2>3 DEF WaitBlock, Cur, Counted, DatTypeOK, Stalling, ds
    <3> QED
      BY <3>2, <3>3, <3>4 DEF DatOutputs, DatTypeOK, DatRecords
  <2>4. CASE ds = "READ_BLOCK"
    <3>0. db # WordBits - 1 => (db + 1) % 64 = db + 1
      BY <1>4, <2>4, BlockAssumption DEF DatShape, DatCounts
    <3>1. dat_fsm' = ReadBlock(sd_clk_en)
      BY <1>1, <2>0, <2>4 DEF DatFsm, Move, ds
    <3>2. DatMove
      BY <3>1, <3>0, <1>2, <1>8, <2>0, <2>4
         DEF DatMove, DatFrame, IdleMoves, ReadMoves, BusyMoves, WriteMoves, Normal,
             DatStays, SameRegister, SameOutput, ReadStates, WriteStates, Sending,
             ReadBlock, Cur, Counted, DatTypeOK,
             ds, db, dw, shifts, reads, runs, sends, done, first, drives
    <3>6. dw > 0
      BY <2>4 DEF DatShape, DatCounts
    <3>5. dw - 1 \in 0 .. BlockWords
      BY <1>4, <3>6, BlockAssumption
    <3>3. dat_fsm' \in DatRecords
      <4>1. CASE ~sd_clk_en
        BY <3>1, <1>11, <1>12, <1>13, <4>1 DEF ReadBlock
      <4>2. CASE sd_clk_en /\ db # WordBits - 1
        BY <3>1, <1>11, <1>12, <1>13, <4>2 DEF ReadBlock
      <4>3. CASE sd_clk_en /\ db = WordBits - 1
        <5>1. dat_fsm' = [Cur EXCEPT !.bit_counter = 0, !.word_counter = @ - 1, !.clk_stall = TRUE,
                                     !.state = "REGOUT"]
          BY <3>1, <1>13, <4>3 DEF ReadBlock
        <5> QED
          BY <5>1, <1>2, <1>11, <1>13, <3>5 DEF DatRecords
      <4> QED
        BY <4>1, <4>2, <4>3
    <3>4. /\ dat_fsm'.clk_req <=> ds' # "IDLE"
          /\ dat_fsm'.clk_stall <=> ds' \in Stalling
      BY <3>1, <1>2, <1>3, <2>4 DEF ReadBlock, Cur, Counted, DatTypeOK, Stalling, ds
    <3> QED
      BY <3>2, <3>3, <3>4 DEF DatOutputs, DatTypeOK, DatRecords
  <2>5. CASE ds = "REGOUT"
    <3>1. dat_fsm' = RegOut(~FLAG_DAT_DATA)
      BY <1>1, <2>0, <2>5 DEF DatFsm, Move, ds
    <3>2. DatMove
      BY <3>1, <1>2, <1>8, <2>0, <2>5
         DEF DatMove, DatFrame, IdleMoves, ReadMoves, BusyMoves, WriteMoves, Normal,
             DatStays, SameRegister, SameOutput, ReadStates, WriteStates, Sending,
             RegOut, Cur, Counted, DatTypeOK,
             ds, db, dw, shifts, reads, runs, sends, done, first, drives
    <3>3. dat_fsm' \in DatRecords
      <4>1. CASE FLAG_DAT_DATA
        BY <3>1, <1>11, <1>12, <1>13, <4>1 DEF RegOut
      <4>2. CASE ~FLAG_DAT_DATA /\ dw = 0
        <5>1. dat_fsm' = [Cur EXCEPT !.clk_stall = FALSE, !.bit_counter = 0, !.state = "READ_CRC"]
          BY <3>1, <1>13, <4>2 DEF RegOut
        <5> QED
          BY <5>1, <1>2, <1>11 DEF DatRecords
      <4>3. CASE ~FLAG_DAT_DATA /\ dw # 0
        <5>1. dat_fsm' = [Cur EXCEPT !.clk_stall = FALSE, !.bit_counter = 0, !.state = "READ_BLOCK"]
          BY <3>1, <1>13, <4>3 DEF RegOut
        <5> QED
          BY <5>1, <1>2, <1>11 DEF DatRecords
      <4> QED
        BY <4>1, <4>2, <4>3
    <3>4. /\ dat_fsm'.clk_req <=> ds' # "IDLE"
          /\ dat_fsm'.clk_stall <=> ds' \in Stalling
      BY <3>1, <1>2, <1>3, <2>5 DEF RegOut, Cur, Counted, DatTypeOK, Stalling, ds
    <3> QED
      BY <3>2, <3>3, <3>4 DEF DatOutputs, DatTypeOK, DatRecords
  <2>6. CASE ds = "READ_CRC"
    <3>0. db # CrcBits - 1 => (db + 1) % 64 = db + 1
      BY <1>4, <2>6, BlockAssumption DEF DatShape, DatCounts
    <3>1. dat_fsm' = ReadCrc(sd_clk_en)
      BY <1>1, <2>0, <2>6 DEF DatFsm, Move, ds
    <3>2. DatMove
      BY <3>1, <3>0, <1>2, <1>8, <2>0, <2>6
         DEF DatMove, DatFrame, IdleMoves, ReadMoves, BusyMoves, WriteMoves, Normal,
             DatStays, SameRegister, SameOutput, ReadStates, WriteStates, Sending,
             ReadCrc, Cur, Counted, DatTypeOK,
             ds, db, dw, shifts, reads, runs, sends, done, first, drives
    <3>3. dat_fsm' \in DatRecords
      <4>1. CASE ~sd_clk_en
        BY <3>1, <1>11, <1>12, <1>13, <4>1 DEF ReadCrc
      <4>2. CASE sd_clk_en /\ db # CrcBits - 1
        BY <3>1, <1>11, <1>12, <1>13, <4>2 DEF ReadCrc
      <4>3. CASE sd_clk_en /\ db = CrcBits - 1
        <5>1. dat_fsm' = [Cur EXCEPT !.clk_stall = TRUE, !.rstn_reg = FALSE, !.state = "READ_FINISH"]
          BY <3>1, <1>13, <4>3 DEF ReadCrc
        <5> QED
          BY <5>1, <1>2, <1>11 DEF DatRecords
      <4> QED
        BY <4>1, <4>2, <4>3
    <3>4. /\ dat_fsm'.clk_req <=> ds' # "IDLE"
          /\ dat_fsm'.clk_stall <=> ds' \in Stalling
      BY <3>1, <1>2, <1>3, <2>6 DEF ReadCrc, Cur, Counted, DatTypeOK, Stalling, ds
    <3> QED
      BY <3>2, <3>3, <3>4 DEF DatOutputs, DatTypeOK, DatRecords
  <2>7. CASE ds = "READ_FINISH"
    <3>1. dat_fsm' = ReadFinish(crc)
      BY <1>1, <2>0, <2>7 DEF DatFsm, Move, ds
    <3>2. DatMove
      BY <3>1, <1>2, <1>8, <2>0, <2>7
         DEF DatMove, DatFrame, IdleMoves, ReadMoves, BusyMoves, WriteMoves, Normal,
             DatStays, SameRegister, SameOutput, ReadStates, WriteStates, Sending,
             ReadFinish, Cur, Counted, DatTypeOK,
             ds, db, dw, shifts, reads, runs, sends, done, first, drives
    <3>3. dat_fsm' \in DatRecords
      BY <3>1, <1>2, <1>11 DEF ReadFinish, DatRecords
    <3>4. /\ dat_fsm'.clk_req <=> ds' # "IDLE"
          /\ dat_fsm'.clk_stall <=> ds' \in Stalling
      BY <3>1, <1>2, <1>3, <2>7 DEF ReadFinish, Cur, Counted, DatTypeOK, Stalling, ds
    <3> QED
      BY <3>2, <3>3, <3>4 DEF DatOutputs, DatTypeOK, DatRecords
  <2>8. CASE ds = "WAIT_BUSY"
    <3>1. dat_fsm' = WaitBusy(sd_clk_en, dat_line)
      BY <1>1, <2>0, <2>8 DEF DatFsm, Move, ds
    <3>2. DatMove
      BY <3>1, <1>2, <1>8, <2>0, <2>8
         DEF DatMove, DatFrame, IdleMoves, ReadMoves, BusyMoves, WriteMoves, Normal,
             DatStays, SameRegister, SameOutput, ReadStates, WriteStates, Sending,
             WaitBusy, Cur, Counted, DatTypeOK,
             ds, db, dw, shifts, reads, runs, sends, done, first, drives
    <3>3. dat_fsm' \in DatRecords
      <4>1. CASE ~(sd_clk_en /\ ~IsLow(dat_line))
        BY <3>1, <1>11, <1>12, <1>13, <4>1 DEF WaitBusy
      <4>2. CASE sd_clk_en /\ ~IsLow(dat_line)
        <5>1. dat_fsm' = [Cur EXCEPT !.state = "TAIL", !.bit_counter = 0]
          BY <3>1, <1>13, <4>2 DEF WaitBusy
        <5> QED
          BY <5>1, <1>2, <1>11 DEF DatRecords
      <4> QED
        BY <4>1, <4>2
    <3>4. /\ dat_fsm'.clk_req <=> ds' # "IDLE"
          /\ dat_fsm'.clk_stall <=> ds' \in Stalling
      BY <3>1, <1>2, <1>3, <2>8 DEF WaitBusy, Cur, Counted, DatTypeOK, Stalling, ds
    <3> QED
      BY <3>2, <3>3, <3>4 DEF DatOutputs, DatTypeOK, DatRecords
  <2>9. CASE ds = "WRITE_REGIN"
    <3>1. dat_fsm' = WriteRegIn(~FLAG_DAT_DATA)
      BY <1>1, <2>0, <2>9 DEF DatFsm, Move, ds
    <3>2. DatMove
      BY <3>1, <1>2, <1>8, <2>0, <2>9
         DEF DatMove, DatFrame, IdleMoves, ReadMoves, BusyMoves, WriteMoves, Normal,
             DatStays, SameRegister, SameOutput, ReadStates, WriteStates, Sending,
             WriteRegIn, Cur, Counted, DatTypeOK,
             ds, db, dw, shifts, reads, runs, sends, done, first, drives
    <3>3. dat_fsm' \in DatRecords
      <4>1. CASE FLAG_DAT_DATA
        BY <3>1, <1>11, <1>12, <1>13, <4>1 DEF WriteRegIn
      <4>2. CASE ~FLAG_DAT_DATA /\ first
        <5>1. dat_fsm' = [Cur EXCEPT !.clk_stall = FALSE, !.bit_counter = 0, !.omux = "start",
                                     !.dat_oe = TRUE, !.state = "WRITE_START"]
          BY <3>1, <1>13, <4>2 DEF WriteRegIn, first
        <5> QED
          BY <5>1, <1>2, <1>11 DEF DatRecords
      <4>3. CASE ~FLAG_DAT_DATA /\ ~first
        <5>1. dat_fsm' = [Cur EXCEPT !.clk_stall = FALSE, !.bit_counter = 0, !.state = "WRITE_DATA"]
          BY <3>1, <1>13, <4>3 DEF WriteRegIn, first
        <5> QED
          BY <5>1, <1>2, <1>11 DEF DatRecords
      <4> QED
        BY <4>1, <4>2, <4>3
    <3>4. /\ dat_fsm'.clk_req <=> ds' # "IDLE"
          /\ dat_fsm'.clk_stall <=> ds' \in Stalling
      BY <3>1, <1>2, <1>3, <2>9 DEF WriteRegIn, Cur, Counted, DatTypeOK, Stalling, ds
    <3> QED
      BY <3>2, <3>3, <3>4 DEF DatOutputs, DatTypeOK, DatRecords
  <2>10. CASE ds = "WRITE_START"
    <3>1. dat_fsm' = WriteStart(sd_clk_en)
      BY <1>1, <2>0, <2>10 DEF DatFsm, Move, ds
    <3>2. DatMove
      BY <3>1, <1>2, <1>8, <2>0, <2>10
         DEF DatMove, DatFrame, IdleMoves, ReadMoves, BusyMoves, WriteMoves, Normal,
             DatStays, SameRegister, SameOutput, ReadStates, WriteStates, Sending,
             WriteStart, Cur, Counted, DatTypeOK,
             ds, db, dw, shifts, reads, runs, sends, done, first, drives
    <3>3. dat_fsm' \in DatRecords
      <4>1. CASE ~sd_clk_en
        BY <3>1, <1>11, <1>12, <1>13, <4>1 DEF WriteStart
      <4>2. CASE sd_clk_en
        <5>1. dat_fsm' = [Cur EXCEPT !.state = "WRITE_DATA", !.write_start = FALSE, !.omux = "data",
                                     !.shift = TRUE, !.word_counter = BlockWords]
          BY <3>1, <1>13, <4>2 DEF WriteStart
        <5> QED
          BY <5>1, <1>2, <1>11 DEF DatRecords
      <4> QED
        BY <4>1, <4>2
    <3>4. /\ dat_fsm'.clk_req <=> ds' # "IDLE"
          /\ dat_fsm'.clk_stall <=> ds' \in Stalling
      BY <3>1, <1>2, <1>3, <2>10 DEF WriteStart, Cur, Counted, DatTypeOK, Stalling, ds
    <3> QED
      BY <3>2, <3>3, <3>4 DEF DatOutputs, DatTypeOK, DatRecords
  <2>11. CASE ds = "WRITE_DATA"
    <3>0. db # WordBits - 1 => (db + 1) % 64 = db + 1
      BY <1>4, <2>11, BlockAssumption DEF DatShape, DatCounts
    <3>1. dat_fsm' = WriteData(sd_clk_en)
      BY <1>1, <2>0, <2>11 DEF DatFsm, Move, ds
    <3>2. DatMove
      BY <3>1, <3>0, <1>2, <1>8, <2>0, <2>11
         DEF DatMove, DatFrame, IdleMoves, ReadMoves, BusyMoves, WriteMoves, Normal,
             DatStays, SameRegister, SameOutput, ReadStates, WriteStates, Sending,
             WriteData, Cur, Counted, DatTypeOK,
             ds, db, dw, shifts, reads, runs, sends, done, first, drives
    <3>6. dw > 0
      BY <2>11 DEF DatShape, DatCounts
    <3>5. dw - 1 \in 0 .. BlockWords
      BY <1>4, <3>6, BlockAssumption
    <3>3. dat_fsm' \in DatRecords
      <4>1. CASE ~sd_clk_en
        BY <3>1, <1>11, <1>12, <1>13, <4>1 DEF WriteData
      <4>2. CASE sd_clk_en /\ db # WordBits - 1
        BY <3>1, <1>11, <1>12, <1>13, <4>2 DEF WriteData
      <4>3. CASE sd_clk_en /\ db = WordBits - 1 /\ dw = 1
        <5>1. dat_fsm' = [Cur EXCEPT !.bit_counter = 0, !.word_counter = @ - 1, !.omux = "crc",
                                     !.state = "WRITE_CRC"]
          BY <3>1, <1>13, <4>3 DEF WriteData
        <5> QED
          BY <5>1, <1>2, <1>11, <1>13, <3>5 DEF DatRecords
      <4>4. CASE sd_clk_en /\ db = WordBits - 1 /\ dw # 1
        <5>1. dat_fsm' = [Cur EXCEPT !.bit_counter = 0, !.word_counter = @ - 1, !.clk_stall = TRUE,
                                     !.state = "WRITE_REGIN"]
          BY <3>1, <1>13, <4>4 DEF WriteData
        <5> QED
          BY <5>1, <1>2, <1>11, <1>13, <3>5 DEF DatRecords
      <4> QED
        BY <4>1, <4>2, <4>3, <4>4
    <3>4. /\ dat_fsm'.clk_req <=> ds' # "IDLE"
          /\ dat_fsm'.clk_stall <=> ds' \in Stalling
      BY <3>1, <1>2, <1>3, <2>11 DEF WriteData, Cur, Counted, DatTypeOK, Stalling, ds
    <3> QED
      BY <3>2, <3>3, <3>4 DEF DatOutputs, DatTypeOK, DatRecords
  <2>12. CASE ds = "WRITE_CRC"
    <3>0. db # CrcBits - 1 => (db + 1) % 64 = db + 1
      BY <1>4, <2>12, BlockAssumption DEF DatShape, DatCounts
    <3>1. dat_fsm' = WriteCrc(sd_clk_en)
      BY <1>1, <2>0, <2>12 DEF DatFsm, Move, ds
    <3>2. DatMove
      BY <3>1, <3>0, <1>2, <1>8, <2>0, <2>12
         DEF DatMove, DatFrame, IdleMoves, ReadMoves, BusyMoves, WriteMoves, Normal,
             DatStays, SameRegister, SameOutput, ReadStates, WriteStates, Sending,
             WriteCrc, Cur, Counted, DatTypeOK,
             ds, db, dw, shifts, reads, runs, sends, done, first, drives
    <3>3. dat_fsm' \in DatRecords
      <4>1. CASE ~sd_clk_en
        BY <3>1, <1>11, <1>12, <1>13, <4>1 DEF WriteCrc
      <4>2. CASE sd_clk_en /\ db # CrcBits - 1
        BY <3>1, <1>11, <1>12, <1>13, <4>2 DEF WriteCrc
      <4>3. CASE sd_clk_en /\ db = CrcBits - 1
        <5>1. dat_fsm' = [Cur EXCEPT !.bit_counter = 0, !.omux = "stop", !.state = "WRITE_STOP"]
          BY <3>1, <1>13, <4>3 DEF WriteCrc
        <5> QED
          BY <5>1, <1>2, <1>11 DEF DatRecords
      <4> QED
        BY <4>1, <4>2, <4>3
    <3>4. /\ dat_fsm'.clk_req <=> ds' # "IDLE"
          /\ dat_fsm'.clk_stall <=> ds' \in Stalling
      BY <3>1, <1>2, <1>3, <2>12 DEF WriteCrc, Cur, Counted, DatTypeOK, Stalling, ds
    <3> QED
      BY <3>2, <3>3, <3>4 DEF DatOutputs, DatTypeOK, DatRecords
  <2>13. CASE ds = "WRITE_STOP"
    <3>1. dat_fsm' = WriteStop(sd_clk_en)
      BY <1>1, <2>0, <2>13 DEF DatFsm, Move, ds
    <3>2. DatMove
      BY <3>1, <1>2, <1>8, <2>0, <2>13
         DEF DatMove, DatFrame, IdleMoves, ReadMoves, BusyMoves, WriteMoves, Normal,
             DatStays, SameRegister, SameOutput, ReadStates, WriteStates, Sending,
             WriteStop, Cur, Counted, DatTypeOK,
             ds, db, dw, shifts, reads, runs, sends, done, first, drives
    <3>3. dat_fsm' \in DatRecords
      <4>1. CASE ~sd_clk_en
        BY <3>1, <1>11, <1>12, <1>13, <4>1 DEF WriteStop
      <4>2. CASE sd_clk_en
        <5>1. dat_fsm' = [Cur EXCEPT !.state = "WRITE_CHECK_CRC", !.dat_oe = FALSE]
          BY <3>1, <1>13, <4>2 DEF WriteStop
        <5> QED
          BY <5>1, <1>2, <1>11 DEF DatRecords
      <4> QED
        BY <4>1, <4>2
    <3>4. /\ dat_fsm'.clk_req <=> ds' # "IDLE"
          /\ dat_fsm'.clk_stall <=> ds' \in Stalling
      BY <3>1, <1>2, <1>3, <2>13 DEF WriteStop, Cur, Counted, DatTypeOK, Stalling, ds
    <3> QED
      BY <3>2, <3>3, <3>4 DEF DatOutputs, DatTypeOK, DatRecords
  <2>14. CASE ds = "WRITE_CHECK_CRC"
    <3>0. db # TokenBits - 1 => (db + 1) % 64 = db + 1
      BY <1>4, <2>14, BlockAssumption DEF DatShape, DatCounts
    <3>1. dat_fsm' = WriteCheckCrc(sd_clk_en, crc)
      BY <1>1, <2>0, <2>14 DEF DatFsm, Move, ds
    <3>2. DatMove
      BY <3>1, <3>0, <1>2, <1>8, <2>0, <2>14
         DEF DatMove, DatFrame, IdleMoves, ReadMoves, BusyMoves, WriteMoves, Normal,
             DatStays, SameRegister, SameOutput, ReadStates, WriteStates, Sending,
             WriteCheckCrc, Cur, Counted, DatTypeOK,
             ds, db, dw, shifts, reads, runs, sends, done, first, drives
    <3>3. dat_fsm' \in DatRecords
      <4>1. CASE ~sd_clk_en
        BY <3>1, <1>11, <1>12, <1>13, <4>1 DEF WriteCheckCrc
      <4>2. CASE sd_clk_en /\ db # TokenBits - 1
        BY <3>1, <1>11, <1>12, <1>13, <4>2 DEF WriteCheckCrc
      <4>3. CASE sd_clk_en /\ db = TokenBits - 1
        <5>1. dat_fsm' = [Cur EXCEPT !.bit_counter = 0, !.write_start = TRUE, !.shift = FALSE,
                                     !.rstn_reg = FALSE, !.crc_ok = crc, !.state = "WRITE_BUSY"]
          BY <3>1, <1>13, <4>3 DEF WriteCheckCrc
        <5> QED
          BY <5>1, <1>2, <1>11 DEF DatRecords
      <4> QED
        BY <4>1, <4>2, <4>3
    <3>4. /\ dat_fsm'.clk_req <=> ds' # "IDLE"
          /\ dat_fsm'.clk_stall <=> ds' \in Stalling
      BY <3>1, <1>2, <1>3, <2>14 DEF WriteCheckCrc, Cur, Counted, DatTypeOK, Stalling, ds
    <3> QED
      BY <3>2, <3>3, <3>4 DEF DatOutputs, DatTypeOK, DatRecords
  <2>15. CASE ds = "WRITE_BUSY"
    <3>1. dat_fsm' = WriteBusy(sd_clk_en, dat_line)
      BY <1>1, <2>0, <2>15 DEF DatFsm, Move, ds
    <3>2. DatMove
      BY <3>1, <1>2, <1>8, <2>0, <2>15
         DEF DatMove, DatFrame, IdleMoves, ReadMoves, BusyMoves, WriteMoves, Normal,
             DatStays, SameRegister, SameOutput, ReadStates, WriteStates, Sending,
             WriteBusy, Cur, Counted, DatTypeOK,
             ds, db, dw, shifts, reads, runs, sends, done, first, drives
    <3>3. dat_fsm' \in DatRecords
      <4>1. CASE ~(sd_clk_en /\ ~IsLow(dat_line))
        BY <3>1, <1>11, <1>12, <1>13, <4>1 DEF WriteBusy
      <4>2. CASE sd_clk_en /\ ~IsLow(dat_line)
        <5>1. dat_fsm' = [Cur EXCEPT !.block_done = TRUE, !.state = "WRITE_TAIL"]
          BY <3>1, <1>13, <4>2 DEF WriteBusy
        <5> QED
          BY <5>1, <1>2, <1>11 DEF DatRecords
      <4> QED
        BY <4>1, <4>2
    <3>4. /\ dat_fsm'.clk_req <=> ds' # "IDLE"
          /\ dat_fsm'.clk_stall <=> ds' \in Stalling
      BY <3>1, <1>2, <1>3, <2>15 DEF WriteBusy, Cur, Counted, DatTypeOK, Stalling, ds
    <3> QED
      BY <3>2, <3>3, <3>4 DEF DatOutputs, DatTypeOK, DatRecords
  <2>16. CASE ds = "WRITE_TAIL"
    <3>0. db # DatTailBits - 1 => (db + 1) % 64 = db + 1
      BY <1>4, <2>16, BlockAssumption DEF DatShape, DatCounts
    <3>1. dat_fsm' = WriteTail(sd_clk_en)
      BY <1>1, <2>0, <2>16 DEF DatFsm, Move, ds
    <3>2. DatMove
      BY <3>1, <3>0, <1>2, <1>8, <2>0, <2>16
         DEF DatMove, DatFrame, IdleMoves, ReadMoves, BusyMoves, WriteMoves, Normal,
             DatStays, SameRegister, SameOutput, ReadStates, WriteStates, Sending,
             WriteTail, Cur, Counted, DatTypeOK,
             ds, db, dw, shifts, reads, runs, sends, done, first, drives
    <3>3. dat_fsm' \in DatRecords
      <4>1. CASE ~sd_clk_en
        BY <3>1, <1>11, <1>12, <1>13, <4>1 DEF WriteTail
      <4>2. CASE sd_clk_en /\ db # DatTailBits - 1
        BY <3>1, <1>11, <1>12, <1>13, <4>2 DEF WriteTail
      <4>3. CASE sd_clk_en /\ db = DatTailBits - 1
        <5>1. dat_fsm' = [Cur EXCEPT !.bit_counter = 0, !.clk_stall = TRUE, !.rstn_reg = TRUE,
                                     !.state = "WRITE_REGIN"]
          BY <3>1, <1>13, <4>3 DEF WriteTail
        <5> QED
          BY <5>1, <1>2, <1>11 DEF DatRecords
      <4> QED
        BY <4>1, <4>2, <4>3
    <3>4. /\ dat_fsm'.clk_req <=> ds' # "IDLE"
          /\ dat_fsm'.clk_stall <=> ds' \in Stalling
      BY <3>1, <1>2, <1>3, <2>16 DEF WriteTail, Cur, Counted, DatTypeOK, Stalling, ds
    <3> QED
      BY <3>2, <3>3, <3>4 DEF DatOutputs, DatTypeOK, DatRecords
  <2> QED
    BY <1>4, <2>1, <2>2, <2>3, <2>4, <2>5, <2>6, <2>7, <2>8, <2>9, <2>10, <2>11, <2>12, <2>13,
       <2>14, <2>15, <2>16
       DEF DatStates, ReadStates, WriteStates, Sending
<1>9. CASE clkstrb_o /\ "RST" \notin CTRL /\ abort
  <2>0. ds \in {"WAIT_BLOCK", "WRITE_TAIL", "WRITE_REGIN"} /\ ~drives
    BY <1>9 DEF AbortOK
  <2>1. CASE ds = "WAIT_BLOCK"
    <3>1. dat_fsm' = Aborted(WaitBlock(sd_clk_en, dat_line))
      BY <1>1, <1>9, <2>1 DEF DatFsm, Move, ds
    <3>2. DatMove
      BY <3>1, <1>2, <1>9, <2>0, <2>1
         DEF DatMove, DatFrame, Normal, Aborted, WaitBlock, Cur, DatTypeOK,
             ds, db, dw, shifts, reads, runs, sends, done, first, drives
    <3>5. WaitBlock(sd_clk_en, dat_line) \in DatRecords
      <4>1. [Cur EXCEPT !.state = "READ_BLOCK", !.bit_counter = 0,
                        !.word_counter = BlockWords] \in DatRecords
        BY <1>2, <1>11 DEF DatRecords
      <4> QED
        BY <4>1, <1>11 DEF WaitBlock
    <3>3. dat_fsm' \in DatRecords
      BY <3>1, <3>5, <1>2 DEF Aborted, DatRecords
    <3>4. /\ dat_fsm'.clk_req <=> ds' # "IDLE"
          /\ dat_fsm'.clk_stall <=> ds' \in Stalling
      BY <3>1, <1>2, <1>3, <2>1 DEF Aborted, WaitBlock, Cur, DatTypeOK, Stalling, ds
    <3> QED
      BY <3>2, <3>3, <3>4 DEF DatOutputs, DatTypeOK, DatRecords
  <2>2. CASE ds = "WRITE_TAIL"
    <3>1. dat_fsm' = Aborted(WriteTail(sd_clk_en))
      BY <1>1, <1>9, <2>2 DEF DatFsm, Move, ds
    <3>2. DatMove
      BY <3>1, <1>2, <1>9, <2>0, <2>2
         DEF DatMove, DatFrame, Normal, Aborted, WriteTail, Cur, Counted, DatTypeOK,
             ds, db, dw, shifts, reads, runs, sends, done, first, drives
    <3>5. WriteTail(sd_clk_en) \in DatRecords
      <4>1. [Cur EXCEPT !.bit_counter = 0, !.clk_stall = TRUE, !.rstn_reg = TRUE,
                        !.state = "WRITE_REGIN"] \in DatRecords
        BY <1>2, <1>11 DEF DatRecords
      <4> QED
        BY <4>1, <1>11, <1>12 DEF WriteTail
    <3>3. dat_fsm' \in DatRecords
      BY <3>1, <3>5, <1>2 DEF Aborted, DatRecords
    <3>4. /\ dat_fsm'.clk_req <=> ds' # "IDLE"
          /\ dat_fsm'.clk_stall <=> ds' \in Stalling
      BY <3>1, <1>2, <1>3, <2>2 DEF Aborted, WriteTail, Cur, Counted, DatTypeOK, Stalling, ds
    <3> QED
      BY <3>2, <3>3, <3>4 DEF DatOutputs, DatTypeOK, DatRecords
  <2>3. CASE ds = "WRITE_REGIN"
    <3>0. FLAG_DAT_DATA
      BY <1>9, <2>3 DEF AbortOK, Settled
    <3>1. dat_fsm' = Aborted(Cur)
      BY <1>1, <1>9, <2>3, <3>0 DEF DatFsm, Move, WriteRegIn, ds
    <3>2. DatMove
      BY <3>1, <1>2, <1>9, <2>0, <2>3
         DEF DatMove, DatFrame, Normal, Aborted, Cur, DatTypeOK,
             ds, db, dw, shifts, reads, runs, sends, done, first, drives
    <3>3. dat_fsm' \in DatRecords
      BY <3>1, <1>2, <1>11 DEF Aborted, DatRecords
    <3>4. /\ dat_fsm'.clk_req <=> ds' # "IDLE"
          /\ dat_fsm'.clk_stall <=> ds' \in Stalling
      BY <3>1, <1>2, <1>3, <2>3 DEF Aborted, Cur, DatTypeOK, Stalling, ds
    <3> QED
      BY <3>2, <3>3, <3>4 DEF DatOutputs, DatTypeOK, DatRecords
  <2> QED
    BY <2>0, <2>1, <2>2, <2>3
<1> QED
  BY <1>6, <1>7, <1>8, <1>9 DEF Normal

-----------------------------------------------------------------------------
(* What a clock does to the card, to the rates and to the registers.       *)

LEMMA EnableIs ==
  ASSUME CmdShape, DatShape, "IDLE_SDCLK" \notin CTRL
  PROVE  sd_clk_en <=> (cs # "IDLE" \/ ds # "IDLE") /\ cs # "REGOUT" /\ ds \notin Stalling
BY DEF CmdShape, CmdOutputs, DatShape, DatOutputs, sd_clk_en

(* The four kinds of clock: nothing moves; the card moves; the state       *)
(* machines move, and with them the card when they run at the full rate.   *)
Stand == ~clkstrb_o /\ ~Edge /\ ~Shift /\ lead' = lead
Tick == ~clkstrb_o /\ Edge /\ ~Shift /\ ~Late /\ lead = 0 /\ lead' = 1 /\ sd_clk_en
Slow == clkstrb_o /\ ~Late /\ ~Edge /\ lead' = 0 /\ (Shift <=> sd_clk_en) /\ (lead = 1 <=> sd_clk_en)
Fast == clkstrb_o /\ Late /\ lead = 1 /\ lead' = 1 /\ (Edge <=> sd_clk_en) /\ (Shift <=> sd_clk_en)

Beat == /\ lead \in {0, 1} /\ (Late' <=> Late) /\ (Late => lead = 1)
        /\ Stand \/ Tick \/ Slow \/ Fast

(* What a clock does to lead: a strobe shifts what the card has sent, an   *)
(* edge lets the card send a bit more.                                     *)
LEMMA BeatStep ==
  ASSUME Controller, NEW crc \in BOOLEAN, Machines(crc), CmdMove, DatMove,
         CmdShape', DatShape', "IDLE_SDCLK" \notin CTRL'
  PROVE  Beat
<1>1. /\ (Late' <=> Late)
      /\ Edge <=> sd_clk_strb /\ ~sd_clk_cont /\ sd_clk_en
      /\ clkstrb_o => ~Due /\ ~clkstrb_o'
      /\ Late /\ ~Due => sd_clk_strb /\ ~Due'
      /\ Late /\ Due => cs = "IDLE" /\ ds = "IDLE"
      /\ Late /\ clkstrb_o => (Edge <=> sd_clk_en)
      /\ Late /\ ~clkstrb_o /\ ~Due => ~Edge
      /\ ~Late /\ clkstrb_o => Due' /\ ~Edge
      /\ ~Late /\ ~clkstrb_o /\ ~Due => ~Due' /\ ~Edge
      /\ ~Late /\ Due /\ ~Edge /\ sd_clk_en => Due'
      /\ Edge => ~Due'
  BY ClockStep DEF Controller, Machines
<1>2. ~clkstrb_o => (sd_clk_en' <=> sd_clk_en)
  <2>1. sd_clk_en <=> (cs # "IDLE" \/ ds # "IDLE") /\ cs # "REGOUT" /\ ds \notin Stalling
    BY EnableIs DEF Controller, Registers
  <2>2. sd_clk_en' <=> (cs' # "IDLE" \/ ds' # "IDLE") /\ cs' # "REGOUT" /\ ds' \notin Stalling
    BY DEF CmdShape, CmdOutputs, DatShape, DatOutputs, sd_clk_en
  <2>3. ~clkstrb_o => cs' = cs /\ ds' = ds
    BY DEF CmdMove, CmdStays, DatMove, DatFrame, DatStays
  <2> QED
    BY <2>1, <2>2, <2>3
<1>3. Late /\ Due => ~sd_clk_en
  <2>1. sd_clk_en <=> (cs # "IDLE" \/ ds # "IDLE") /\ cs # "REGOUT" /\ ds \notin Stalling
    BY EnableIs DEF Controller, Registers
  <2> QED
    BY <1>1, <2>1
<1>4. /\ lead = IF Late \/ (~Due /\ sd_clk_en) THEN 1 ELSE 0
      /\ lead' = IF Late' \/ (~Due' /\ sd_clk_en') THEN 1 ELSE 0
      /\ Shift <=> clkstrb_o /\ sd_clk_en
  BY DEF lead, Shift
<1>5. Edge => sd_clk_en
  BY <1>1
<1>6. CASE ~clkstrb_o /\ ~Edge
  BY <1>1, <1>2, <1>3, <1>4, <1>6 DEF Beat, Stand
<1>7. CASE ~clkstrb_o /\ Edge
  BY <1>1, <1>2, <1>3, <1>4, <1>5, <1>7 DEF Beat, Tick
<1>8. CASE clkstrb_o /\ ~Late
  BY <1>1, <1>4, <1>8 DEF Beat, Slow
<1>9. CASE clkstrb_o /\ Late
  BY <1>1, <1>4, <1>9 DEF Beat, Fast
<1> QED
  BY <1>6, <1>7, <1>8, <1>9

(* The command line of the card.                                           *)
RespMove ==
  /\ ~Edge => bits' = bits /\ resp' = resp
  /\ Edge /\ cs = "WRITE" => bits' = (bits + 1) % CmdBits
  /\ Edge /\ cs # "WRITE" => bits' = bits
  /\ Edge /\ cs = "WRITE" /\ bits + 1 = CmdBits /\ answers => resp' \in -MaxRespDelay .. -2
  /\ Edge /\ ~(cs = "WRITE" /\ bits + 1 = CmdBits /\ answers) =>
       /\ resp < -1 => resp' = resp + 1
       /\ resp = -1 => resp' = 1
       /\ resp = 0 \/ (resp > 0 /\ resp = LastRespBit) => resp' = 0
       /\ resp > 0 /\ resp # LastRespBit => resp' = resp + 1

(* Its data line.                                                          *)
Asked == op = "read" /\ cs = "WRITE" /\ bits + 1 = CmdBits /\ answers
Replied == op = "busy" /\ resp' = LastRespBit
Ended == drives /\ ds = "WRITE_STOP"
DataMove ==
  /\ ~Edge => data' = data /\ held' = held
  /\ Edge /\ Asked => data' \in Int /\ data' <= -2 /\ held' = 0
  /\ Edge /\ ~Asked /\ Replied /\ ~Ended => data' \in {-2, -1} /\ held' = 0
  /\ Edge /\ ~Asked /\ ~Replied /\ Ended => data' = -(TokenBits + 1) /\ held' = 0
  /\ Edge /\ ~Asked /\ ~Replied /\ ~Ended =>
       /\ data < -1 => data' = data + 1 /\ held' = held
       /\ data = -1 /\ op = "read" => data' = Start /\ held' = held
       /\ data = -1 /\ op # "read" => data' = 0 /\ held' \in Nat
       /\ data \in {0, LastDataBit} => data' = 0
       /\ data > 0 /\ data # LastDataBit => data' = data + 1
       /\ data >= 0 /\ held = 0 => held' = 0
       /\ held' \in Nat

TakenMove ==
  /\ ~Edge \/ ~drives \/ sends # "data" \/ dat_reg # taken => taken' = taken
  /\ Edge /\ drives /\ sends = "data" /\ dat_reg = taken => taken' = taken + 1

CardMove == RespMove /\ DataMove /\ TakenMove

(* The length of a block, and the place of its last bit.                   *)
LEMMA BlockBitsIs ==
  /\ BlockBits \in Nat /\ BlockBits >= WordBits
  /\ LastDataBit = Start + BlockBits + CrcBits /\ LastDataBit > Start
<1>1. \A m, n \in Nat : m > 0 => m * n \in Nat /\ m * n >= n
  OBVIOUS
<1>2. BlockWords \in Nat /\ WordBits \in Nat /\ BlockWords > 0 /\ CrcBits \in Nat /\ CrcBits > 0
  BY BlockAssumption
<1>3. BlockBits \in Nat /\ BlockBits >= WordBits
  BY <1>1, <1>2 DEF BlockBits
<1> QED
  BY <1>2, <1>3 DEF LastDataBit, Start, BlockBits

(* The card as the proofs use it: it moves at an edge only, each of its    *)
(* counters by itself.                                                     *)
LEMMA CardStep ==
  ASSUME Controller, Program, NEW crc, Machines(crc)
  PROVE  CardMove
<1>1. Card /\ (cmd_fsm.cmd_oe <=> cs = "WRITE") /\ (drives <=> dat_fsm.dat_oe)
  BY DEF Machines, Controller, CmdShape, CmdOutputs, drives
<1>2. bits \in Nat /\ resp \in Int /\ data \in Int /\ held \in Nat /\ taken \in Nat
  BY DEF Controller, Registers
<1>3. CASE ~Edge
  BY <1>1, <1>3 DEF Card, Edge, CardMove, RespMove, DataMove, TakenMove
<1>4. CASE Edge
  <2>1. CardCommand /\ CardData /\ CardTakes
    BY <1>1, <1>4 DEF Card, Edge
  <2>2. CommandEnds <=> cs = "WRITE" /\ bits + 1 = CmdBits /\ answers
    BY <1>1 DEF CommandEnds
  <2>3. (BlockEnds <=> Ended) /\ (Receives <=> drives /\ sends = "data")
    BY <1>1 DEF BlockEnds, Ended, Receives, sends, ds, drives
  <2>4. RespMove
    <3>1. CommandEnds => resp' \in -MaxRespDelay .. -2
      BY <2>1, ProgramAssumption DEF CardCommand
    <3>2. ~CommandEnds => resp' = IF resp < -1 THEN resp + 1
                                  ELSE IF resp = -1 THEN 1
                                  ELSE IF resp \in {0, LastRespBit} THEN 0 ELSE resp + 1
      BY <2>1 DEF CardCommand
    <3>3. bits' = IF cs = "WRITE" THEN (bits + 1) % CmdBits ELSE bits
      BY <1>1, <2>1 DEF CardCommand
    <3> QED
      BY <1>2, <1>4, <2>2, <3>1, <3>2, <3>3 DEF RespMove
  <2>5. DataMove
    <3>1. CardData
      BY <2>1
    <3>2. Asked <=> op = "read" /\ CommandEnds
      BY <2>2 DEF Asked
    <3>3. Asked => ~Replied
      BY DEF Asked, Replied
    <3>4. MaxDataDelay \in Nat /\ TokenBits \in Nat /\ TokenBits > 0 /\ LastDataBit > 0 /\ MaxBusy \in Nat
      BY ProgramAssumption, BlockAssumption, BlockBitsIs DEF Start
    <3>5. CASE op = "read" /\ CommandEnds /\ \E d \in 2 .. MaxDataDelay : data' = -d /\ held' = 0
      BY <1>4, <3>2, <3>4, <3>5 DEF DataMove
    <3>6. CASE op = "busy" /\ resp' = LastRespBit /\ \E d \in 1 .. 2 : data' = -d /\ held' = 0
      BY <1>4, <3>2, <3>6 DEF DataMove, Replied, Asked
    <3>7. CASE BlockEnds /\ data' = -(TokenBits + 1) /\ held' = 0
      BY <1>4, <2>3, <3>2, <3>4, <3>7 DEF DataMove
    <3>8. CASE /\ ~(op = "read" /\ CommandEnds) /\ ~(op = "busy" /\ resp' = LastRespBit)
               /\ ~BlockEnds
               /\ \/ data < -1 /\ data' = data + 1 /\ UNCHANGED held
                  \/ data = -1 /\ op = "read" /\ data' = Start /\ UNCHANGED held
                  \/ data = -1 /\ op # "read" /\ data' = 0 /\ held' \in 0 .. MaxBusy
                  \/ /\ data >= 0
                     /\ data' = IF data \in {0, LastDataBit} THEN 0 ELSE data + 1
                     /\ held' = IF held = 0 THEN 0 ELSE held - 1
      <4>1. ~Asked /\ ~Replied /\ ~Ended
        BY <2>3, <3>2, <3>8 DEF Replied
      <4> QED
        BY <1>2, <1>4, <3>4, <3>8, <4>1 DEF DataMove
    <3> QED
      BY <3>1, <3>5, <3>6, <3>7, <3>8 DEF CardData
  <2>6. TakenMove
    BY <1>4, <2>1, <2>3 DEF CardTakes, TakenMove
  <2> QED
    BY <2>4, <2>5, <2>6 DEF CardMove
<1> QED
  BY <1>3, <1>4

(* What every clock does to the registers, but for an access.              *)
Lasts ==
  /\ status_idle_cmd_last' <=> cs = "IDLE"
  /\ status_idle_dat_last' <=> ds = "IDLE"
  /\ status_resp_cmd_last' <=> cs = "REGOUT"
  /\ status_data_dat_last' <=> ds \in {"REGOUT", "WRITE_REGIN"}
Ctrl == CTRL' = CTRL \cup Raised
Command == /\ CMD' = IF clkstrb_o THEN [CMD EXCEPT !.COMMIT = FALSE] ELSE CMD
           /\ resp_reg' = IF Shift /\ cs # "IDLE" THEN cmd_line ELSE resp_reg
RespSet == FLAG_CMD_RESP' <=> FLAG_CMD_RESP \/ (cs = "REGOUT" /\ ~status_resp_cmd_last)
DataSet == FLAG_DAT_DATA' <=>
             FLAG_DAT_DATA \/ (ds \in {"REGOUT", "WRITE_REGIN"} /\ ~status_data_dat_last)
Data == dat_reg' = IF ~runs' \/ ~runs THEN 0
                   ELSE IF ~(Shift /\ shifts) THEN dat_reg
                   ELSE IF ~reads THEN dat_reg + 1
                   ELSE IF dat_line > Start THEN dat_line - Start ELSE 0

(* What one access of the processor and the state machines do to each      *)
(* register of the controller, whatever the access is.                     *)
LEMMA BusStep ==
  ASSUME Controller, NEW crc, NEW bus, Clock(bus, cmd_line, dat_line, crc), Card
  PROVE  /\ Machines(crc) /\ Lasts
         /\ bus.adr # "CTRL" \/ ~bus.we => Ctrl
         /\ bus.adr # "CMD" \/ ~bus.we => Command
         /\ bus.adr # "RESP" \/ bus.we => RespSet
         /\ bus.adr # "DATA" => DataSet
         /\ bus.adr # "DATA" \/ ~bus.we => Data
         /\ bus.adr = "CTRL" /\ bus.we => CTRL' = bus.dat
         /\ bus.adr = "CMD" /\ bus.we => CMD' = bus.dat /\ resp_reg' = 0
         /\ bus.adr = "RESP" /\ ~bus.we => ~FLAG_CMD_RESP'
         /\ bus.adr = "DATA" => ~FLAG_DAT_DATA'
         /\ bus.adr = "DATA" /\ bus.we => dat_reg' = IF ~runs' \/ ~runs THEN 0 ELSE bus.dat
<1> USE DEF Clock
<1>1. Machines(crc)
  BY DEF Machines
<1>2. Lasts
  BY DEF CtrlRegister, RespFlag, DataFlag, Lasts, cmd_idle, dat_idle, status_resp, status_data,
         cs, ds
<1>3. cmd_fsm.clk_req <=> cs # "IDLE"
  BY DEF Controller, CmdShape, CmdOutputs
<1>4. /\ bus.adr # "CTRL" \/ ~bus.we => Ctrl
      /\ bus.adr = "CTRL" /\ bus.we => CTRL' = bus.dat
  BY DEF CtrlRegister, Ctrl
<1>5. /\ bus.adr # "CMD" \/ ~bus.we => Command
      /\ bus.adr = "CMD" /\ bus.we => CMD' = bus.dat /\ resp_reg' = 0
  BY <1>3 DEF CmdRegister, CmdReg, Command, Shift
<1>6. /\ bus.adr # "RESP" \/ bus.we => RespSet
      /\ bus.adr = "RESP" /\ ~bus.we => ~FLAG_CMD_RESP'
  BY DEF RespFlag, RespSet, status_resp, cs
<1>7. /\ bus.adr # "DATA" => DataSet
      /\ bus.adr = "DATA" => ~FLAG_DAT_DATA'
  BY DEF DataFlag, DataSet, status_data, ds
<1>8. /\ bus.adr # "DATA" \/ ~bus.we => Data
      /\ bus.adr = "DATA" /\ bus.we => dat_reg' = IF ~runs' \/ ~runs THEN 0 ELSE bus.dat
  BY DEF DatReg, Data, Shift, runs, shifts, reads
<1> QED
  BY <1>1, <1>2, <1>4, <1>5, <1>6, <1>7, <1>8

-----------------------------------------------------------------------------
(* The accesses of the program.                                            *)
Quietly == Ctrl /\ Command /\ RespSet /\ DataSet /\ Data

(* The same by the access that the program makes.                          *)
LEMMA Accessed ==
  ASSUME Controller
  PROVE  /\ Do(Quiet) => Quietly
         /\ Do(Reads("CTRL")) => Quietly
         /\ Do(Reads("RESP")) => Ctrl /\ Command /\ ~FLAG_CMD_RESP' /\ DataSet /\ Data
         /\ Do(Reads("DATA")) => Ctrl /\ Command /\ RespSet /\ ~FLAG_DAT_DATA' /\ Data
         /\ \A set : Do(Writes("CTRL", set)) =>
                       CTRL' = set /\ Command /\ RespSet /\ DataSet /\ Data
         /\ \A command : Do(Writes("CMD", command)) =>
                           Ctrl /\ CMD' = command /\ resp_reg' = 0 /\ RespSet /\ DataSet /\ Data
         /\ \A word : Do(Writes("DATA", word)) =>
                        /\ Ctrl /\ Command /\ RespSet /\ ~FLAG_DAT_DATA'
                        /\ dat_reg' = IF ~runs' \/ ~runs THEN 0 ELSE word
<1>1. ASSUME NEW bus, Do(bus)
      PROVE  /\ bus.adr # "CTRL" \/ ~bus.we => Ctrl
             /\ bus.adr # "CMD" \/ ~bus.we => Command
             /\ bus.adr # "RESP" \/ bus.we => RespSet
             /\ bus.adr # "DATA" => DataSet
             /\ bus.adr # "DATA" \/ ~bus.we => Data
             /\ bus.adr = "CTRL" /\ bus.we => CTRL' = bus.dat
             /\ bus.adr = "CMD" /\ bus.we => CMD' = bus.dat /\ resp_reg' = 0
             /\ bus.adr = "RESP" /\ ~bus.we => ~FLAG_CMD_RESP'
             /\ bus.adr = "DATA" => ~FLAG_DAT_DATA'
             /\ bus.adr = "DATA" /\ bus.we => dat_reg' = IF ~runs' \/ ~runs THEN 0 ELSE bus.dat
  <2>1. PICK crc \in BOOLEAN : Clock(bus, cmd_line, dat_line, crc) /\ Card
    BY <1>1 DEF Do
  <2> QED
    BY <2>1, BusStep
<1>2. Do(Quiet) => Quietly
  BY <1>1 DEF Quiet, Quietly
<1>3. Do(Reads("CTRL")) => Quietly
  BY <1>1 DEF Reads, Quietly
<1>4. Do(Reads("RESP")) => Ctrl /\ Command /\ ~FLAG_CMD_RESP' /\ DataSet /\ Data
  BY <1>1 DEF Reads
<1>5. Do(Reads("DATA")) => Ctrl /\ Command /\ RespSet /\ ~FLAG_DAT_DATA' /\ Data
  BY <1>1 DEF Reads
<1>6. \A set : Do(Writes("CTRL", set)) => CTRL' = set /\ Command /\ RespSet /\ DataSet /\ Data
  BY <1>1 DEF Writes
<1>7. \A command : Do(Writes("CMD", command)) =>
                     Ctrl /\ CMD' = command /\ resp_reg' = 0 /\ RespSet /\ DataSet /\ Data
  BY <1>1 DEF Writes
<1>8. \A word : Do(Writes("DATA", word)) =>
                  /\ Ctrl /\ Command /\ RespSet /\ ~FLAG_DAT_DATA'
                  /\ dat_reg' = IF ~runs' \/ ~runs THEN 0 ELSE word
  BY <1>1 DEF Writes
<1> QED
  BY <1>2, <1>3, <1>4, <1>5, <1>6, <1>7, <1>8

(* Every access is one clock.                                              *)
LEMMA NextDoes ==
  ASSUME Next
  PROVE  \E bus : Do(bus)
<1>1. CASE WriteWord
  BY <1>1 DEF WriteWord
<1> QED
  BY <1>1 DEF Next, Pause, Access, Call, Commit, Poll, Timeout, ReadResp, ReadData,
              Fetch, Store, Abort, WaitIdle, DropResp, DropData

(* CTRL never selects a clock for the idle card.                           *)
LEMMA CtrlStep ==
  ASSUME Controller, Program, Next
  PROVE  CTRL' \subseteq CtrlBits \ {"IDLE_SDCLK"} /\ (~Store => Ctrl)
<1>1. Ctrl => CTRL' \subseteq CtrlBits \ {"IDLE_SDCLK"}
  BY DEF Ctrl, Raised, Controller, Registers, CtrlBits
<1>2. CASE Store
  <2>1. Stored \subseteq CTRL \cup {"RST"}
    BY DEF Stored, Program
  <2>2. CTRL' = Stored
    BY <1>2, Accessed DEF Store
  <2> QED
    BY <1>2, <2>1, <2>2 DEF Controller, Registers, CtrlBits
<1>3. CASE ~Store
  <2>1. Ctrl
    BY <1>3, Accessed DEF Next, Pause, Access, Call, Commit, Poll, Timeout, ReadResp, ReadData,
              WriteWord, Fetch, Abort, WaitIdle, DropResp, DropData, Quietly
  <2> QED
    BY <1>1, <2>1
<1> QED
  BY <1>2, <1>3

(* The hardware in a step of the system.                                   *)
Moves == Beat /\ CmdMove /\ DatMove /\ CardMove /\ Lasts

(* Every action of the program is one clock of the controller and of the   *)
(* card.                                                                   *)
LEMMA SystemMoves ==
  ASSUME Controller, Program, Next
  PROVE  Moves /\ CmdShape' /\ DatShape'
<1>1. PICK bus, crc : crc \in BOOLEAN /\ Clock(bus, cmd_line, dat_line, crc) /\ Card
  BY NextDoes DEF Do
<1>2. Machines(crc) /\ Lasts
  BY <1>1, BusStep
<1>3. CmdMove /\ CmdShape'
  BY <1>2, CmdMoves DEF Controller
<1>4. DatMove /\ DatShape'
  BY <1>1, <1>2, DatMoves DEF Controller
<1>5. "IDLE_SDCLK" \notin CTRL'
  BY CtrlStep
<1>6. Beat
  BY <1>1, <1>2, <1>3, <1>4, <1>5, BeatStep
<1>7. CardMove
  BY <1>2, CardStep
<1> QED
  BY <1>2, <1>3, <1>4, <1>6, <1>7 DEF Moves

(* The clock divider and the settled outputs of the state machines.        *)
LEMMA ClockKept ==
  ASSUME Controller, Program, Next
  PROVE  ClockOK' /\ Settled'
<1>1. PICK bus, crc : crc \in BOOLEAN /\ Clock(bus, cmd_line, dat_line, crc) /\ Card
  BY NextDoes DEF Do
<1>2. Machines(crc) /\ Lasts /\ Moves
  BY <1>1, BusStep, SystemMoves
<1>3. ClockOK /\ ClkClock(sd_clk_en)
  BY <1>2 DEF Controller, Machines
<1>4. ~clkstrb_o => cs' = cs /\ ds' = ds
  BY <1>2 DEF Moves, CmdMove, CmdStays, DatMove, DatFrame, DatStays
<1>5. (Late' <=> Late) /\ (Late /\ ~Due => ~Due') /\ (Late /\ Due => cs = "IDLE" /\ ds = "IDLE")
  BY <1>3, ClockStep
<1>6. Late' /\ Due' => cs' = "IDLE" /\ ds' = "IDLE"
  BY <1>4, <1>5 DEF Due
<1>7. ClockOK'
  <2>1. /\ ClkTypeOK'
        /\ clkstrb_o' => ~sd_clk_cont'
        /\ sd_clk_o' => sd_clk_cont'
        /\ sd_clkhs_i' => ~clkgen_i'
        /\ Late' => cdiv_cnt' = 0 /\ (Due' \/ sd_clk_strb')
        /\ sd_clk_strb' /\ ~Late' => ~clkgen_i' /\ ~clkstrb_o' /\ (sd_clkhs_i' => cdiv_cnt' = 0)
    BY <1>3, <1>5, ClockStep
  <2> QED
    BY <1>6, <2>1 DEF ClockOK
<1>8. Settled'
  <2>1. clkstrb_o => ~clkstrb_o'
    BY <1>3, ClockStep
  <2>2. /\ status_idle_cmd_last' \in BOOLEAN /\ status_idle_dat_last' \in BOOLEAN
        /\ status_resp_cmd_last' \in BOOLEAN /\ status_data_dat_last' \in BOOLEAN
    BY <1>1 DEF Clock, CtrlRegister, RespFlag, DataFlag, cmd_idle, dat_idle, status_resp,
       status_data
  <2> QED
    BY <1>2, <1>4, <2>1, <2>2 DEF Settled, Lasts
<1> QED
  BY <1>7, <1>8

-----------------------------------------------------------------------------
(* The program.                                                            *)
LEMMA FirstFlag ==
  ASSUME NEW flags, flags \subseteq FlagNames
  PROVE  /\ First(flags) \in flags \cup {"poll"} /\ First(flags) \in FlagNames \cup {"poll"}
         /\ First(flags) = "poll" => flags = {}
         /\ First(flags) \in {"DAT_DATA", "BLK_DONE", "DAT_DONE"} => "CMD_DONE" \notin flags
BY DEF First, FlagNames

(* Fields of CMD.                                                          *)
CmdKept ==
  /\ CMD' \in Commands /\ (CMD'.ABRT_DAT <=> CMD.ABRT_DAT)
  /\ CMD'.DMODE = CMD.DMODE /\ CMD'.RMODE = CMD.RMODE
  /\ CMD'.COMMIT <=> CMD.COMMIT /\ ~clkstrb_o
  /\ resp_reg' = IF Shift /\ cs # "IDLE" THEN cmd_line ELSE resp_reg
  /\ RespWords' = RespWords /\ LastRespBit' = LastRespBit
  /\ FirstBits(CMD'.RMODE) = FirstBits(CMD.RMODE)

(* A command that the program does not write again keeps its modes; a      *)
(* strobe takes COMMIT away.                                               *)
LEMMA CommandKept ==
  ASSUME CMD \in Commands, Command
  PROVE  CmdKept
<1>1. /\ CMD'.ABRT_DAT <=> CMD.ABRT_DAT
      /\ CMD'.DMODE = CMD.DMODE /\ CMD'.RMODE = CMD.RMODE
      /\ CMD'.COMMIT <=> CMD.COMMIT /\ ~clkstrb_o
      /\ CMD' \in Commands
  <2>1. CASE clkstrb_o
    <3>1. CMD' = [CMD EXCEPT !.COMMIT = FALSE]
      BY <2>1 DEF Command
    <3> QED
      BY <2>1, <3>1 DEF Commands
  <2>2. CASE ~clkstrb_o
    BY <2>2 DEF Command, Commands
  <2> QED
    BY <2>1, <2>2
<1>2. RespWords' = RespWords
  BY <1>1 DEF RespWords
<1>3. FirstBits(CMD'.RMODE) = FirstBits(CMD.RMODE)
  BY <1>1
<1>4. LastRespBit' = LastRespBit
  BY <1>2, <1>3 DEF LastRespBit
<1> QED
  BY <1>1, <1>2, <1>3, <1>4 DEF CmdKept, Command

-----------------------------------------------------------------------------
(* The program stays where it may be.                                      *)
LEMMA WritingDrives ==
  ASSUME Inv, drives
  PROVE  Writing /\ Committed
<1>1. ds # "IDLE"
  BY DEF Inv, Controller, DatShape, DatCounts, Sending
<1>2. Committed
  BY <1>1 DEF Inv, Clean
<1>3. op \in {"none", "silent", "command", "long", "busy", "read", "write"}
  BY ProgramAssumption DEF Inv, Program
<1>4. op \notin Simple /\ op # "busy" /\ op # "read"
  BY <1>1, <1>2 DEF Inv, OtherOK, BusyOK, ReadOK
<1>5. op = "none" => at = "end"
  BY <1>2 DEF Inv, Program, Committed
<1> QED
  BY <1>2, <1>3, <1>4, <1>5 DEF Writing, Simple

(* The time runs out only for a command that has no data and that the card *)
(* does not answer.                                                        *)
LEMMA TimedOut ==
  ASSUME Inv, Timeout
  PROVE  op # "silent" /\ ~answers /\ op \in Simple /\ Committed /\ ~CMD.ABRT_DAT
<1>1. at = "poll" /\ op \notin {"read", "write"} /\ ~answers /\ cs = "WAIT_RESP"
  BY DEF Timeout, cs
<1>2. Committed /\ op \in Simple
  BY <1>1, ProgramAssumption DEF Inv, Program, Committed, Simple
<1>3. ~CMD.ABRT_DAT /\ CMD.RMODE # "NONE" /\ CMD.RMODE = Response
  BY <1>1, <1>2 DEF Inv, CommandOK, CmdPlace
<1> QED
  BY <1>1, <1>2, <1>3 DEF Response

(* Where the program goes when it has flags left to serve.                 *)
LEMMA Continues ==
  ASSUME NEW flags, flags \subseteq Polled, Continue(flags), op' = op
  PROVE  /\ todo' = flags /\ todo' \subseteq Polled' /\ at' \in Places
         /\ at' \in todo' \cup {"poll"} /\ at' \in FlagNames \cup {"poll"}
         /\ at' \in {"DAT_DATA", "BLK_DONE", "DAT_DONE"} => "CMD_DONE" \notin todo'
         /\ at' = "poll" => todo' = {}
         /\ op \notin {"read", "write"} => at' \in {"poll", "CMD_RESP", "CMD_DONE"}
<1>1. todo' = flags /\ at' = First(flags) /\ Polled' = Polled
  BY DEF Continue, Polled
<1>2. Polled \subseteq FlagNames
  BY DEF Polled, FlagNames
<1>3. /\ First(flags) \in flags \cup {"poll"} /\ First(flags) \in FlagNames \cup {"poll"}
      /\ First(flags) = "poll" => flags = {}
      /\ First(flags) \in {"DAT_DATA", "BLK_DONE", "DAT_DONE"} => "CMD_DONE" \notin flags
  BY <1>2, FirstFlag
<1>4. op \notin {"read", "write"} => Polled = {"CMD_RESP", "CMD_DONE"}
  BY DEF Polled
<1> QED
  BY <1>1, <1>2, <1>3, <1>4 DEF Places

(* The places of the program, and what it remembers there.                 *)
LEMMA ProgramStep ==
  ASSUME Inv, Next
  PROVE  Program'
<1>1. Moves
  BY SystemMoves DEF Inv
<1>2. (Late' <=> Late) /\ (~Writing => taken' = taken)
  BY <1>1, WritingDrives DEF Moves, Beat, CardMove, TakenMove
<1>3. ~Store => Ctrl
  BY CtrlStep DEF Inv
<1>4. Ctrl => CTRL \subseteq CTRL' /\ ("RST" \in CTRL' <=> "RST" \in CTRL)
  BY DEF Ctrl, Raised
<1>5. CMD \in Commands
  BY DEF Inv, Controller, Registers
<1>6. Command => (CMD'.ABRT_DAT <=> CMD.ABRT_DAT)
  BY <1>5, CommandKept DEF CmdKept
<1>7. Controller
  BY DEF Inv
<1>8. Polled \subseteq FlagNames /\ Status \cap Polled \subseteq Polled
  BY DEF Polled, FlagNames
<1> USE <1>2, <1>4, <1>6, <1>8 DEF Program, Writing
<1>10. CASE Pause
  <2>1. UNCHANGED program_vars /\ Ctrl /\ Command
    BY <1>7, <1>10, Accessed DEF Pause, Quietly
  <2> QED
    BY <2>1 DEF Inv, program_vars, Polled
<1>11. CASE Call
  <2>1. Ctrl
    BY <1>3, <1>11 DEF Call, Store, Modifications
  <2>2. /\ at' = "commit" /\ todo' = {} /\ got' = 0 /\ words' = 0 /\ old' = old /\ fetched' = fetched
        /\ op' \in Operations /\ (op' = "write" => ~Late)
        /\ answers' \in BOOLEAN /\ (op' = "silent" => ~answers')
        /\ op' \in {"busy", "read", "write"} => answers'
    BY <1>11 DEF Call, Go, Late
  <2>3. at = "call" /\ ~fetched /\ op = "none" /\ ~Writing
    BY <1>11 DEF Inv, Call, Modifications
  <2> QED
    BY <2>1, <2>2, <2>3, ProgramAssumption DEF Inv, Places, Resetting, FlagNames, Simple
<1>12. CASE Commit
  <2>1. /\ at = "commit" /\ at' = "poll" /\ todo' = {} /\ op' = op /\ old' = old
        /\ fetched' = fetched /\ answers' = answers
    BY <1>12 DEF Commit, Go
  <2>2. Ctrl
    BY <1>3, <1>12 DEF Commit, Store, Modifications
  <2> QED
    BY <2>1, <2>2 DEF Inv, Places, Resetting, FlagNames, Simple, Polled, Modifications
<1>13. CASE Poll
  <2>1. /\ at = "poll" /\ Continue(Status \cap Polled) /\ op' = op /\ old' = old
        /\ fetched' = fetched /\ answers' = answers
    BY <1>13 DEF Poll
  <2>2. Ctrl
    BY <1>3, <1>13 DEF Poll, Store, Modifications
  <2>3. ~fetched /\ op # "none"
    BY <2>1 DEF Inv, Modifications
  <2> QED
    BY <2>1, <2>2, <2>3, Continues
       DEF Inv, Resetting, FlagNames, Simple
<1>14. CASE Timeout
  <2>1. /\ at = "poll" /\ at' = "begin_reset" /\ todo' = {} /\ op' = op /\ old' = old
        /\ fetched' = fetched /\ answers' = answers
    BY <1>14 DEF Timeout, Go
  <2>2. Ctrl
    BY <1>3, <1>14 DEF Timeout, Store, Modifications
  <2>3. op # "silent" /\ ~answers /\ op \in Simple
    BY <1>14, TimedOut
  <2> QED
    BY <2>1, <2>2, <2>3 DEF Inv, Places, Resetting, FlagNames, Simple, Polled, Modifications
<1>15. CASE ReadResp
  <2>1. /\ at = "CMD_RESP" /\ Continue(todo \ {"CMD_RESP"}) /\ op' = op /\ old' = old
        /\ fetched' = fetched /\ answers' = answers
    BY <1>15 DEF ReadResp
  <2>2. Ctrl
    BY <1>3, <1>15 DEF ReadResp, Store, Modifications
  <2>3. ~fetched /\ op # "none" /\ todo \ {"CMD_RESP"} \subseteq Polled
    BY <2>1 DEF Inv, Modifications
  <2> QED
    BY <2>1, <2>2, <2>3, Continues
       DEF Inv, Resetting, FlagNames, Simple
<1>16. CASE ReadData \/ WriteWord
  <2>1. /\ at = "DAT_DATA" /\ Continue(todo \ {"DAT_DATA"}) /\ op' = op /\ old' = old
        /\ fetched' = fetched /\ answers' = answers /\ op \in {"read", "write"}
    BY <1>16 DEF ReadData, WriteWord
  <2>2. Ctrl
    BY <1>3, <2>1 DEF Store, Modifications
  <2>3. ~fetched /\ todo \ {"DAT_DATA"} \subseteq Polled
    BY <2>1 DEF Inv, Modifications
  <2> QED
    BY <2>1, <2>2, <2>3, Continues
       DEF Inv, Resetting, FlagNames, Simple
<1>17. CASE Fetch
  <2>1. /\ at' = at /\ todo' = todo /\ op' = op /\ old' = CTRL
        /\ fetched' = TRUE /\ answers' = answers /\ at \in Modifications /\ Quietly
    BY <1>7, <1>17, Accessed DEF Fetch
  <2> QED
    BY <2>1 DEF Inv, Quietly, Polled, Modifications
<1>18. CASE Store
  <2>1. /\ at \in Modifications /\ fetched' = FALSE /\ old' = {} /\ answers' = answers
        /\ CTRL' = Stored /\ Command /\ op # "none"
    <3>1. at \in Modifications /\ Do(Writes("CTRL", Stored)) /\ fetched' = FALSE /\ old' = {}
          /\ answers' = answers
      BY <1>18 DEF Store
    <3> QED
      BY <3>1, <1>7, Accessed DEF Inv, Modifications
  <2>2. fetched /\ old \subseteq CTRL /\ ("RST" \in CTRL <=> "RST" \in old)
    BY <1>18 DEF Inv, Store
  <2>3. CASE at = "CMD_DONE" /\ op \in {"read", "write"}
    <3>1. Continue(todo \ {"CMD_DONE"}) /\ op' = op
      BY <1>18, <2>3 DEF Store
    <3>2. todo \ {"CMD_DONE"} \subseteq Polled
      BY DEF Inv
    <3>3. "RST" \notin CTRL'
      BY <2>1, <2>2, <2>3 DEF Inv, Stored, Resetting
    <3> QED
      BY <2>1, <2>3, <3>1, <3>2, <3>3, Continues DEF Inv, Resetting, FlagNames, Simple
  <2>4. CASE at = "CMD_DONE" /\ op = "busy"
    <3>1. at' = "wait_idle" /\ todo' = {} /\ op' = op
      BY <1>18, <2>4 DEF Store, Go
    <3>3. "RST" \notin CTRL'
      BY <2>1, <2>2, <2>4 DEF Inv, Stored, Resetting
    <3> QED
      BY <2>1, <2>4, <3>1, <3>3 DEF Inv, Places, Resetting, FlagNames, Simple, Polled
  <2>5. CASE at = "BLK_DONE"
    <3>1. at' = "abort" /\ todo' = todo /\ op' = op
      BY <1>18, <2>5 DEF Store
    <3>2. op \in {"read", "write"} /\ Polled' = Polled
      BY <2>1, <2>5, <3>1, ProgramAssumption DEF Inv, Resetting, Simple, Polled
    <3>3. "RST" \notin CTRL'
      BY <2>1, <2>2, <2>5 DEF Inv, Stored, Resetting
    <3> QED
      BY <2>1, <2>5, <3>1, <3>2, <3>3 DEF Inv, Places, Resetting, FlagNames, Simple
  <2>6. CASE at = "begin_reset"
    <3>1. at' = "resetting" /\ todo' = {} /\ op' = op
      BY <1>18, <2>6 DEF Store, Go
    <3>2. op \in Simple
      BY <2>1, <2>6, ProgramAssumption DEF Inv, Simple, FlagNames
    <3>3. "RST" \in CTRL'
      BY <2>1, <2>2, <2>6 DEF Inv, Stored, Resetting
    <3> QED
      BY <2>1, <2>6, <3>1, <3>2, <3>3 DEF Inv, Places, Resetting, FlagNames, Simple
  <2>7. CASE at = "clear_flags"
    <3>1. at' = "end_reset" /\ todo' = {} /\ op' = op
      BY <1>18, <2>7 DEF Store, Go
    <3>2. op \in Simple
      BY <2>1, <2>7, ProgramAssumption DEF Inv, Simple, FlagNames
    <3>3. "RST" \in CTRL'
      BY <2>1, <2>2, <2>7 DEF Inv, Stored, Resetting
    <3> QED
      BY <2>1, <2>7, <3>1, <3>2, <3>3 DEF Inv, Places, Resetting, FlagNames, Simple
  <2>8. CASE at \in {"end_reset", "DAT_DONE"} \/ (at = "CMD_DONE" /\ op \in Simple)
    <3>1. op' = "none" /\ todo' = {} /\ at' = IF op = "write" THEN "end" ELSE "call"
      BY <1>18, <2>8 DEF Store, Return, Go, Simple
    <3>2. op = "write" => CMD.ABRT_DAT
      BY <2>1, <2>8 DEF Inv, DatFlags, Committed, Resetting, FlagNames, Simple
    <3>3. "RST" \notin CTRL'
      BY <2>1, <2>2, <2>8 DEF Inv, Stored, Resetting
    <3> QED
      BY <2>1, <2>8, <3>1, <3>2, <3>3 DEF Inv, Places, Resetting, FlagNames, Simple
  <2>9. op \in Simple \cup {"busy", "read", "write"}
    BY <2>1, ProgramAssumption DEF Inv, Simple
  <2> QED
    BY <2>1, <2>3, <2>4, <2>5, <2>6, <2>7, <2>8, <2>9 DEF Modifications
<1>19. CASE Abort
  <2>1. /\ at = "abort" /\ Continue(todo \ {"BLK_DONE"}) /\ op' = op /\ old' = old
        /\ fetched' = fetched /\ answers' = answers
    BY <1>19 DEF Abort
  <2>2. Ctrl
    BY <1>3, <1>19 DEF Abort, Store, Modifications
  <2>3. ~fetched /\ op # "none" /\ todo \ {"BLK_DONE"} \subseteq Polled
    BY <2>1 DEF Inv, Modifications
  <2> QED
    BY <2>1, <2>2, <2>3, Continues
       DEF Inv, Resetting, FlagNames, Simple
<1>20. CASE WaitIdle
  <2>1. /\ at \in {"wait_idle", "resetting"} /\ todo' = {} /\ op' = op /\ old' = old
        /\ fetched' = fetched /\ answers' = answers
        /\ at' = IF Status \cap {"CMD_BUSY", "DAT_BUSY"} # {} THEN at
                 ELSE IF at = "wait_idle" THEN "DAT_DONE" ELSE "drop_resp"
    BY <1>20 DEF WaitIdle, Go
  <2>2. Ctrl
    BY <1>3, <1>20 DEF WaitIdle, Store, Modifications
  <2>3. ~fetched /\ op # "none" /\ (at = "wait_idle" => op = "busy")
    BY <2>1, ProgramAssumption DEF Inv, Modifications, Resetting, FlagNames, Simple
  <2>4. at = "resetting" => op \in Simple
    BY <2>1, <2>3, ProgramAssumption DEF Inv, Modifications, Resetting, FlagNames, Simple
  <2> QED
    BY <2>1, <2>2, <2>3, <2>4 DEF Inv, Places, Resetting, FlagNames, Simple, Modifications
<1>21. CASE DropResp \/ DropData
  <2>1. /\ at \in {"drop_resp", "drop_data"} /\ todo' = {} /\ op' = op /\ old' = old
        /\ fetched' = fetched /\ answers' = answers
        /\ at' = IF at = "drop_resp" THEN "drop_data" ELSE "clear_flags"
    BY <1>21 DEF DropResp, DropData, Go
  <2>2. Ctrl
    BY <1>3, <2>1 DEF Store, Modifications
  <2>3. ~fetched /\ op \in Simple
    BY <2>1, ProgramAssumption DEF Inv, Modifications, Resetting, FlagNames, Simple
  <2> QED
    BY <2>1, <2>2, <2>3 DEF Inv, Places, Resetting, FlagNames, Simple, Modifications
<1> QED
  BY <1>10, <1>11, <1>12, <1>13, <1>14, <1>15, <1>16, <1>17, <1>18, <1>19, <1>20, <1>21
     DEF Next, Access

-----------------------------------------------------------------------------
(* Steps between two operations, at the start of one and at its end; and   *)
(* those within one: the command stays or is aborted, and the data         *)
(* register moves or is written.                                           *)
Begin ==
  /\ at = "commit" /\ at' = "poll" /\ op' = op /\ answers' = answers /\ words' = words /\ got' = got
  /\ CMD' = [COMMIT |-> TRUE, ABRT_DAT |-> FALSE, DMODE |-> Mode, RMODE |-> Response]
  /\ resp_reg' = 0 /\ Ctrl /\ RespSet /\ DataSet /\ Data /\ todo' = {}

Aborts ==
  /\ at = "abort" /\ at' # "end" /\ op' = op /\ Ctrl /\ RespSet /\ DataSet /\ Data
  /\ words' = words /\ got' = got
  /\ CMD' = [COMMIT |-> FALSE, ABRT_DAT |-> TRUE, DMODE |-> "NONE", RMODE |-> "NONE"]
  /\ resp_reg' = 0 /\ todo' = todo \ {"BLK_DONE"}
  /\ at' \in FlagNames \cup {"poll"} /\ at' \in todo' \cup {"poll"}

Loads ==
  /\ at = "DAT_DATA" /\ op = "write" /\ words < BlockWords
  /\ dat_reg' = IF ~runs' \/ ~runs THEN 0 ELSE words * WordBits
  /\ words' = words + 1 /\ ~FLAG_DAT_DATA'

Within ==
  /\ Committed /\ Committed' /\ answers' = answers
  /\ \/ op' = op /\ (at' = "end" <=> at = "end")
     \/ op = "write" /\ op' = "none" /\ at' = "end" /\ CMD.ABRT_DAT
  /\ CmdKept \/ Aborts
  /\ Data \/ Loads

(* A step is between two operations, begins one, ends one, or is within    *)
(* one.                                                                    *)
LEMMA Kinds ==
  ASSUME Inv, Next
  PROVE  \/ ~Committed /\ ~Committed' /\ Command /\ Ctrl /\ RespSet /\ DataSet /\ Data
         \/ Begin
         \/ Committed /\ ~Committed' /\ CmdKept /\ RespSet /\ DataSet /\ Data
         \/ Within
<1>5. CMD \in Commands
  BY DEF Inv, Controller, Registers
<1>6. Command => CmdKept
  BY <1>5, CommandKept
<1>7. Controller
  BY DEF Inv
<1>8. Polled \subseteq FlagNames /\ Status \cap Polled \subseteq Polled /\ todo \subseteq Polled
  BY DEF Polled, FlagNames, Inv, Program
<1>9. FlagNames \cap {"call", "commit", "end"} = {}
  BY DEF FlagNames
<1>10. CASE Pause
  <2>1. UNCHANGED program_vars /\ Quietly
    BY <1>7, <1>10, Accessed DEF Pause
  <2> QED
    BY <1>6, <2>1 DEF program_vars, Quietly, Committed, Within
<1>11. CASE Call
  <2>1. Quietly /\ at = "call" /\ at' = "commit"
    BY <1>7, <1>11, Accessed DEF Call, Go
  <2> QED
    BY <1>6, <2>1 DEF Quietly, Committed
<1>12. CASE Commit
  BY <1>7, <1>12, Accessed DEF Commit, Go, Begin
<1>13. CASE Poll
  <2>1. /\ at = "poll" /\ Continue(Status \cap Polled) /\ op' = op /\ answers' = answers /\ Quietly
    BY <1>7, <1>13, Accessed DEF Poll
  <2> QED
    BY <1>6, <1>8, <1>9, <2>1, Continues DEF Quietly, Committed, Within
<1>14. CASE Timeout
  <2>1. /\ at = "poll" /\ at' = "begin_reset" /\ op' = op /\ answers' = answers /\ Quietly
    BY <1>7, <1>14, Accessed DEF Timeout, Go
  <2> QED
    BY <1>6, <2>1 DEF Quietly, Committed, Within
<1>15. CASE ReadResp
  <2>1. /\ at = "CMD_RESP" /\ Continue(todo \ {"CMD_RESP"}) /\ op' = op /\ answers' = answers
        /\ Command /\ Data
    BY <1>7, <1>15, Accessed DEF ReadResp
  <2> QED
    BY <1>6, <1>8, <1>9, <2>1, Continues DEF Committed, Within
<1>16. CASE ReadData
  <2>1. /\ at = "DAT_DATA" /\ Continue(todo \ {"DAT_DATA"}) /\ op' = op /\ answers' = answers
        /\ Command /\ Data
    BY <1>7, <1>16, Accessed DEF ReadData
  <2> QED
    BY <1>6, <1>8, <1>9, <2>1, Continues DEF Committed, Within
<1>22. CASE WriteWord
  <2>1. /\ at = "DAT_DATA" /\ Continue(todo \ {"DAT_DATA"}) /\ op' = op /\ answers' = answers
        /\ op = "write"
    BY <1>22 DEF WriteWord
  <2>2. CASE words < BlockWords
    <3>1. Command /\ Loads
      BY <1>7, <1>22, <2>2, Accessed DEF WriteWord, Loads
    <3> QED
      BY <1>6, <1>8, <1>9, <2>1, <3>1, Continues DEF Committed, Within
  <2>3. CASE ~(words < BlockWords)
    <3>1. Quietly
      BY <1>7, <1>22, <2>3, Accessed DEF WriteWord
    <3> QED
      BY <1>6, <1>8, <1>9, <2>1, <3>1, Continues DEF Committed, Within, Quietly
  <2> QED
    BY <2>2, <2>3
<1>17. CASE Fetch
  <2>1. at' = at /\ op' = op /\ answers' = answers /\ at \in Modifications /\ Quietly
    BY <1>7, <1>17, Accessed DEF Fetch
  <2> QED
    BY <1>6, <2>1 DEF Quietly, Modifications, Committed, Within
<1>18. CASE Store
  <2>1. /\ at \in Modifications /\ answers' = answers /\ Command /\ RespSet /\ DataSet /\ Data
        /\ op # "none"
    <3>1. at \in Modifications /\ Do(Writes("CTRL", Stored)) /\ answers' = answers
      BY <1>18 DEF Store
    <3> QED
      BY <3>1, <1>7, Accessed DEF Inv, Program, Modifications
  <2>3. CASE at = "CMD_DONE" /\ op \in {"read", "write"}
    <3>1. Continue(todo \ {"CMD_DONE"}) /\ op' = op
      BY <1>18, <2>3 DEF Store
    <3> QED
      BY <1>6, <1>8, <1>9, <2>1, <2>3, <3>1, Continues DEF Committed, Within
  <2>4. CASE (at = "CMD_DONE" /\ op = "busy") \/ at \in {"BLK_DONE", "begin_reset", "clear_flags"}
    <3>1. at' \in {"wait_idle", "abort", "resetting", "end_reset"} /\ op' = op
      BY <1>18, <2>4 DEF Store, Go
    <3> QED
      BY <1>6, <2>1, <2>4, <3>1 DEF Committed, Within
  <2>8. CASE at \in {"end_reset", "DAT_DONE"} \/ (at = "CMD_DONE" /\ op \in Simple)
    <3>1. op' = "none" /\ at' = IF op = "write" THEN "end" ELSE "call"
      BY <1>18, <2>8 DEF Store, Return, Go, Simple
    <3>2. op = "write" => CMD.ABRT_DAT
      BY <2>1, <2>8 DEF Inv, Program, DatFlags, Committed, Resetting, FlagNames, Simple
    <3> QED
      BY <1>6, <2>1, <2>8, <3>1, <3>2 DEF Committed, Within
  <2>9. op \in Simple \cup {"busy", "read", "write"}
    BY <2>1, ProgramAssumption DEF Inv, Program, Simple
  <2> QED
    BY <2>1, <2>3, <2>4, <2>8, <2>9 DEF Modifications
<1>19. CASE Abort
  <2>1. /\ at = "abort" /\ Continue(todo \ {"BLK_DONE"}) /\ op' = op /\ answers' = answers
        /\ words' = words /\ got' = got
        /\ Do(Writes("CMD", [COMMIT |-> FALSE, ABRT_DAT |-> TRUE, DMODE |-> "NONE",
                             RMODE |-> "NONE"]))
    BY <1>19 DEF Abort
  <2>2. Aborts
    BY <1>7, <1>8, <1>9, <2>1, Accessed, Continues DEF Aborts
  <2> QED
    BY <1>8, <1>9, <2>1, <2>2, Continues DEF Committed, Within, Aborts
<1>20. CASE WaitIdle
  <2>1. /\ at \in {"wait_idle", "resetting"} /\ op' = op /\ answers' = answers /\ Quietly
        /\ at' \in {"wait_idle", "resetting", "DAT_DONE", "drop_resp"}
    BY <1>7, <1>20, Accessed DEF WaitIdle, Go
  <2> QED
    BY <1>6, <2>1 DEF Quietly, Committed, Within
<1>21. CASE DropResp \/ DropData
  <2>1. /\ at \in {"drop_resp", "drop_data"} /\ op' = op /\ answers' = answers /\ Command /\ Data
        /\ at' \in {"drop_data", "clear_flags"}
    BY <1>7, <1>21, Accessed DEF DropResp, DropData, Go
  <2> QED
    BY <1>6, <2>1 DEF Committed, Within
<1> QED
  BY <1>10, <1>11, <1>12, <1>13, <1>14, <1>15, <1>16, <1>17, <1>18, <1>19, <1>20, <1>21, <1>22
     DEF Next, Access

-----------------------------------------------------------------------------
(* The place of the command and of its response.                           *)

LEMMA Enabled ==
  ASSUME Inv
  PROVE  /\ sd_clk_en <=> (cs # "IDLE" \/ ds # "IDLE") /\ cs # "REGOUT" /\ ds \notin Stalling
         /\ cs \in CmdStates /\ ds \in DatStates
         /\ cb \in 0 .. 63 /\ cw \in 0 .. 7 /\ db \in 0 .. 63 /\ dw \in 0 .. BlockWords
<1>1. sd_clk_en <=> (cs # "IDLE" \/ ds # "IDLE") /\ cs # "REGOUT" /\ ds \notin Stalling
  BY EnableIs DEF Inv, Controller, Registers
<1>2. cs \in CmdStates /\ cb \in 0 .. 63 /\ cw \in 0 .. 7
  BY DEF Inv, Controller, CmdShape, CmdOutputs, cs, cb, cw
<1>3. ds \in DatStates /\ db \in 0 .. 63 /\ dw \in 0 .. BlockWords
  BY DEF Inv, Controller, DatShape, DatOutputs, DatTypeOK, ds, db, dw, DatStates, ReadStates,
         WriteStates, Sending
<1> QED
  BY <1>1, <1>2, <1>3

(* When everything rests, nothing moves.                                   *)
Rest == Over /\ ds = "IDLE" /\ bits = 0 /\ resp = 0 /\ data = 0 /\ held = 0

(* At rest a clock moves neither a state machine nor the card.             *)
LEMMA Rests ==
  ASSUME Inv, Rest, Moves
  PROVE  /\ cs' = "IDLE" /\ ds' = "IDLE" /\ ~starts' /\ ~done' /\ ~drives' /\ ~runs' /\ ~shifts'
         /\ bits' = 0 /\ resp' = 0 /\ data' = 0 /\ held' = 0 /\ taken' = taken
         /\ ~Edge /\ ~Shift
<1>1. cs = "IDLE" /\ ~CMD.COMMIT /\ ds = "IDLE" /\ bits = 0 /\ resp = 0 /\ data = 0 /\ held = 0
  BY DEF Rest, Over
<1>2. ~starts /\ ~drives /\ ~runs /\ ~done /\ ~shifts
  BY <1>1 DEF Inv, Controller, CmdShape, CmdCounts, DatShape, DatCounts, Sending
<1>3. ~sd_clk_en
  BY <1>1, Enabled
<1>4. ~Edge /\ ~Shift
  BY <1>3 DEF Moves, Beat, Stand, Tick, Slow, Fast
<1>5. cs' = "IDLE" /\ ~starts'
  BY <1>1, <1>2 DEF Moves, CmdMove, CmdStays
<1>6. ds' = "IDLE" /\ ~done' /\ ~drives' /\ ~runs' /\ ~shifts'
  BY <1>1, <1>2 DEF Moves, DatMove, DatFrame, DatStays, SameRegister, SameOutput, Normal,
     IdleMoves
<1>7. bits' = 0 /\ resp' = 0 /\ data' = 0 /\ held' = 0 /\ taken' = taken
  BY <1>1, <1>4 DEF Moves, CardMove, RespMove, DataMove, TakenMove
<1> QED
  BY <1>4, <1>5, <1>6, <1>7

(* Nothing moves outside an operation, and when one starts.                *)
LEMMA Begins ==
  ASSUME Inv, ~Committed, Moves
  PROVE  /\ cs' = "IDLE" /\ ds' = "IDLE" /\ ~starts' /\ ~done' /\ ~drives' /\ ~runs' /\ ~shifts'
         /\ bits' = 0 /\ resp' = 0 /\ data' = 0 /\ held' = 0 /\ taken' = taken
         /\ Raised = {}
<1>1. Rest /\ status_idle_cmd_last /\ status_idle_dat_last
  BY DEF Inv, Clean, Rest
<1>2. ~done
  BY <1>1 DEF Rest, Inv, Controller, DatShape, DatCounts
<1>3. Raised = {}
  BY <1>1, <1>2 DEF Raised, done
<1> QED
  BY <1>1, <1>3, Rests

(* The program aborts when the command and its response are over.          *)
LEMMA AbortPlace ==
  ASSUME Inv, at = "abort"
  PROVE  /\ cs \in {"IDLE", "TAIL"} /\ resp = 0 /\ ~CMD.COMMIT /\ Committed
         /\ op \in {"read", "write"} /\ words = BlockWords
         /\ ds \in {"IDLE", "TAIL", "WAIT_BLOCK", "WRITE_TAIL", "WRITE_REGIN"} /\ ~drives
<1>1. Committed
  BY DEF Committed
<1>2. op \in {"read", "write"}
  BY ProgramAssumption DEF Inv, Program, FlagNames, Resetting, Simple
<1>3. CASE op = "read"
  <2>1. Moved /\ ReadOver /\ Served /\ words = BlockWords
    BY <1>1, <1>3 DEF Inv, ReadFlags
  <2>2. cs = "IDLE" /\ ~CMD.COMMIT
    BY <2>1 DEF Served, CmdDone, Over
  <2> QED
    BY <1>1, <1>3, <2>1, <2>2 DEF Inv, CmdPlace, ReadOK, ReadOver
<1>4. CASE op = "write"
  <2>1. /\ ds \in {"WRITE_TAIL", "WRITE_REGIN", "TAIL", "IDLE"} /\ ~drives /\ words = BlockWords
    BY <1>1, <1>4 DEF Inv, WriteOK, WriteShape, WriteFlags, Writing
  <2>2. CASE ds # "IDLE"
    <3>1. (cs = "TAIL" \/ Over) /\ resp = 0
      BY <1>1, <1>4, <2>2 DEF Inv, WriteOK, WriteShape, WriteFlags, Writing
    <3> QED
      BY <1>1, <1>4, <2>1, <3>1 DEF Inv, CommandOK, Over
  <2>3. CASE ds = "IDLE"
    <3>1. CMD.ABRT_DAT
      BY <1>1, <1>4, <2>1, <2>3, BlockAssumption DEF Inv, WriteOK, WriteShape, WriteFlags, Writing
    <3> QED
      BY <1>1, <1>4, <2>1, <3>1 DEF Inv, CommandOK
  <2> QED
    BY <2>2, <2>3
<1> QED
  BY <1>2, <1>3, <1>4

(* A reset comes when nothing has answered.                                *)
LEMMA ResetPlace ==
  ASSUME Inv, "RST" \in CTRL
  PROVE  /\ cs \in {"WAIT_RESP", "IDLE"} /\ ~answers /\ op \in Simple /\ ds = "IDLE"
         /\ resp = 0 /\ Committed /\ ~CMD.COMMIT /\ at \in Resetting /\ at # "begin_reset"
<1>1. at \in Resetting \ {"begin_reset"}
  BY DEF Inv, Program
<1>2. op \in Simple /\ ~answers /\ Committed
  BY <1>1, ProgramAssumption DEF Inv, Program, Resetting, FlagNames, Simple, Committed
<1>3. cs \in {"WAIT_RESP", "IDLE"} /\ ~CMD.COMMIT
  BY <1>1 DEF Inv, CmdFlags, Resetting, CmdDone, Over
<1> QED
  BY <1>1, <1>2, <1>3 DEF Inv, OtherOK, CmdPlace

(* The bits of a response.                                                 *)
LEMMA ResponseBits ==
  ASSUME CMD \in Commands, CMD.RMODE # "NONE"
  PROVE  /\ RespWords \in 1 .. 7 /\ LastRespBit \in Int /\ LastRespBit >= 4
         /\ FirstBits(CMD.RMODE) \in 4 .. RespBits
         /\ LastRespBit = FirstBits(CMD.RMODE) + RespWords * RespBits - RespBits
         /\ \A w \in 0 .. 7 : w * RespBits \in Int
         /\ \A w \in 1 .. 7 : (w - 1) * RespBits = w * RespBits - RespBits
         /\ \A w \in 1 .. 7 : w * RespBits >= RespBits
         /\ \A w \in 2 .. 7 : w * RespBits >= 2 * RespBits
         /\ 0 * RespBits = 0 /\ 1 * RespBits = RespBits
<1>1. RespWords \in 1 .. 7 /\ FirstBits(CMD.RMODE) \in 4 .. RespBits /\ RespBits \in 1 .. 64
  BY FirstIs, ResponseAssumption
<1>2. \A b \in 1 .. 64 : /\ \A w \in 0 .. 7 : w * b \in Int
                         /\ \A w \in 1 .. 7 : (w - 1) * b = w * b - b
                         /\ \A w \in 1 .. 7 : w * b >= b
                         /\ \A w \in 2 .. 7 : w * b >= 2 * b
                         /\ 0 * b = 0 /\ 1 * b = b
  OBVIOUS
<1>3. /\ (RespWords - 1) * RespBits = RespWords * RespBits - RespBits
      /\ RespWords * RespBits >= RespBits /\ RespWords * RespBits \in Int
  BY <1>1, <1>2
<1>4. LastRespBit = FirstBits(CMD.RMODE) + (RespWords - 1) * RespBits
  BY DEF LastRespBit
<1> QED
  BY <1>1, <1>2, <1>3, <1>4

(* The command, the response, the counters and the shift register stay in  *)
(* step, state by state.                                                   *)
LEMMA CmdPlaceStep ==
  ASSUME Inv, Next
  PROVE  CmdPlace'
<1>1. Moves
  BY SystemMoves DEF Inv
<1>2. /\ sd_clk_en <=> (cs # "IDLE" \/ ds # "IDLE") /\ cs # "REGOUT" /\ ds \notin Stalling
      /\ cs \in CmdStates /\ cb \in 0 .. 63 /\ cw \in 0 .. 7
  BY Enabled
<1>3. /\ bits \in Nat /\ resp \in Int /\ resp_reg \in Nat /\ CMD \in Commands
      /\ MaxRespDelay \in Nat /\ CmdBits \in 1 .. 64 /\ RespBits \in 1 .. 64 /\ TailBits \in 1 .. 64
  BY ProgramAssumption, ResponseAssumption DEF Inv, Controller, Registers
<1>4. CASE ~Committed'
  BY <1>4 DEF CmdPlace
<1>5. CASE Begin
  <2>1. cs' = "IDLE" /\ bits' = 0 /\ resp' = 0
    BY <1>1, <1>5, Begins DEF Begin, Committed
  <2> QED
    BY <2>1 DEF CmdPlace
<1>6. CASE Aborts
  <2>1. cs \in {"IDLE", "TAIL"} /\ resp = 0 /\ ~CMD.COMMIT /\ Committed
    BY <1>6, AbortPlace DEF Aborts
  <2>2. "RST" \notin CTRL
    BY <2>1, ResetPlace, <1>6 DEF Aborts, Resetting
  <2>3. bits = 0
    BY <2>1 DEF Inv, CmdPlace
  <2>4. cs' \in {"IDLE", "TAIL"} /\ bits' = 0 /\ resp' = 0
    BY <1>1, <2>1, <2>2, <2>3 DEF Moves, CmdMove, CmdStays, CardMove, RespMove
  <2> QED
    BY <2>4 DEF CmdPlace
<1>7. CASE Within /\ CmdKept
  <2>1. Committed /\ Committed' /\ answers' = answers
    BY <1>7 DEF Within
  <2>2. CASE "RST" \in CTRL
    <3>1. cs \in {"WAIT_RESP", "IDLE"} /\ ~answers /\ resp = 0
      BY <2>2, ResetPlace
    <3>2. bits = 0
      BY <2>1, <3>1 DEF Inv, CmdPlace
    <3>3. bits' = 0 /\ resp' = 0
      BY <1>1, <3>1, <3>2 DEF Moves, CardMove, RespMove
    <3>4. CASE clkstrb_o
      <4>1. cs' = "IDLE"
        BY <1>1, <2>2, <3>4 DEF Moves, CmdMove
      <4> QED
        BY <3>3, <4>1 DEF CmdPlace
    <3>5. CASE ~clkstrb_o
      <4>1. cs' = cs /\ cb' = cb /\ cw' = cw /\ resp_reg' = resp_reg
        BY <1>1, <1>7, <3>5 DEF Moves, CmdMove, CmdStays, CmdKept, Shift
      <4> QED
        BY <1>7, <2>1, <3>1, <3>3, <4>1 DEF Inv, CmdPlace, CmdKept
    <3> QED
      BY <3>4, <3>5
  <2>3. CASE "RST" \notin CTRL
    <3>1. CMD.RMODE # "NONE" =>
            /\ RespWords \in 1 .. 7 /\ LastRespBit \in Int /\ LastRespBit >= 4
            /\ FirstBits(CMD.RMODE) \in 4 .. RespBits
            /\ LastRespBit = FirstBits(CMD.RMODE) + RespWords * RespBits - RespBits
            /\ cw = RespWords => Awaited = RespWords * RespBits
            /\ Awaited \in Int /\ (cw = 0 => Awaited = 0) /\ (cw = 1 => Awaited = RespBits)
            /\ cw > 0 => (cw - 1) * RespBits = Awaited - RespBits /\ Awaited >= RespBits
            /\ cw > 1 => Awaited >= 2 * RespBits
      BY <1>2, <1>3, ResponseBits DEF Awaited
    <3>14. /\ cw' = cw => Awaited' = Awaited
           /\ CMD.RMODE # "NONE" /\ cw > 0 /\ cw' = cw - 1 => Awaited' = Awaited - RespBits
      BY <1>2, <1>3, <3>1 DEF Awaited
    <3>2. CmdPlace /\ CmdKept /\ Beat /\ CmdMove /\ RespMove
      BY <1>1, <1>7 DEF Inv, Moves, CardMove
    <3>3. cs = "WRITE" => cb < CmdBits /\ ds = "IDLE"
      BY <2>1 DEF Inv, Controller, CmdShape, CmdCounts, CommandOK
    <3>4. cs \in {"WAIT_RESP", "READ_RESP"} => cb < RespBits /\ cw > 0
      BY DEF Inv, Controller, CmdShape, CmdCounts
    <3>5. cs = "WAIT_RESP" => sd_clk_en
      BY <1>2, <2>1 DEF Inv, CommandOK
    <3>6. cs = "WRITE" => sd_clk_en
      BY <1>2, <3>3 DEF Stalling
    <3>7. cs = "IDLE" /\ CMD.COMMIT => ds = "IDLE" /\ resp_reg = 0
      BY <2>1 DEF Inv, CommandOK
    <3>8. cs = "WRITE" => (CMD.RMODE = "NONE" => ~answers)
      BY <2>1, ProgramAssumption DEF Inv, CommandOK, Program, Response, Simple
    <3>9. cmd_line = IF resp > 0 THEN resp ELSE 0
      BY DEF cmd_line, High
    <3>10. CASE Stand
      <4>1. /\ cs' = cs /\ cb' = cb /\ cw' = cw /\ resp_reg' = resp_reg /\ bits' = bits
            /\ resp' = resp /\ lead' = lead
        BY <3>2, <3>10 DEF Stand, CmdMove, CmdStays, RespMove, CmdKept
      <4>2. /\ CMD'.RMODE = CMD.RMODE /\ RespWords' = RespWords /\ LastRespBit' = LastRespBit
            /\ FirstBits(CMD'.RMODE) = FirstBits(CMD.RMODE) /\ (Late' <=> Late)
        BY <3>2 DEF CmdKept, Beat
      <4> QED
        BY <2>1, <3>2, <3>14, <4>1, <4>2 DEF CmdPlace, Clocked
    <3>11. CASE Tick
      <4>1. /\ cs' = cs /\ cb' = cb /\ cw' = cw /\ resp_reg' = resp_reg
            /\ Edge /\ lead = 0 /\ lead' = 1 /\ ~Late /\ ~Late' /\ sd_clk_en
        BY <3>2, <3>11 DEF Tick, CmdMove, CmdStays, CmdKept, Beat
      <4>2. /\ CMD'.RMODE = CMD.RMODE /\ RespWords' = RespWords /\ LastRespBit' = LastRespBit
            /\ FirstBits(CMD'.RMODE) = FirstBits(CMD.RMODE)
        BY <3>2 DEF CmdKept
      <4>3. CASE cs = "IDLE"
        BY <1>2, <1>3, <2>1, <2>3, <3>1, <3>2, <3>3, <3>4, <3>5, <3>6, <3>7, <3>8, <3>9, <3>14,
           <4>1, <4>2, <4>3
           DEF CmdPlace, Clocked, RespMove, CmdMove, CmdStays, CmdKept
      <4>4. CASE cs = "WRITE"
        BY <1>2, <1>3, <2>1, <2>3, <3>1, <3>2, <3>3, <3>4, <3>5, <3>6, <3>7, <3>8, <3>9, <3>14,
           <4>1, <4>2, <4>4
           DEF CmdPlace, Clocked, RespMove, CmdMove, CmdStays, CmdKept
      <4>5. CASE cs = "WAIT_RESP"
        <5>1. /\ CMD.RMODE # "NONE" /\ cb = RespBits - FirstBits(CMD.RMODE) + 3 /\ cw = RespWords
              /\ ~answers => resp = 0 /\ resp_reg = 0
              /\ answers => \/ resp \in -MaxRespDelay .. -1 /\ resp_reg = 0
                            \/ resp > 0 /\ resp_reg \in 0 .. 2 /\ resp = resp_reg + lead
              /\ bits = 0
          BY <2>1, <3>2, <4>5 DEF CmdPlace
        <5>2. sd_clk_en /\ LastRespBit \in Int /\ LastRespBit >= 4
          BY <3>1, <3>5, <4>5, <5>1
        <5>3. bits' = 0
          BY <3>2, <4>5, <5>1 DEF RespMove
        <5>4. CASE resp_reg # 2
          <6>1. cs' = cs /\ cb' = cb /\ cw' = cw
            BY <4>1
          <6>2. /\ ~answers => resp' = 0 /\ resp_reg' = 0
                /\ answers => \/ resp' \in -MaxRespDelay .. -1 /\ resp_reg' = 0
                              \/ resp' > 0 /\ resp_reg' \in 0 .. 2 /\ resp' = resp_reg' + lead'
            BY <1>3, <3>2, <3>9, <4>1, <4>2, <4>5, <5>1, <5>2, <5>4 DEF RespMove
          <6> QED
            BY <2>1, <4>2, <4>5, <5>1, <5>3, <6>1, <6>2 DEF CmdPlace
        <5>5. CASE resp_reg = 2
          <6>1. cs' = cs /\ cb' = cb /\ cw' = cw
            BY <4>1
          <6>2. answers /\ resp' = resp_reg + 1 /\ resp_reg' = 2 /\ resp' > 0
            BY <1>3, <3>2, <4>1, <4>5, <5>1, <5>2, <5>5 DEF RespMove
          <6> QED
            BY <2>1, <4>1, <4>2, <4>5, <5>1, <5>3, <5>5, <6>1, <6>2 DEF CmdPlace
        <5> QED
          BY <5>4, <5>5
      <4>6. CASE cs = "READ_RESP"
        BY <1>2, <1>3, <2>1, <2>3, <3>1, <3>2, <3>3, <3>4, <3>5, <3>6, <3>7, <3>8, <3>9, <3>14,
           <4>1, <4>2, <4>6
           DEF CmdPlace, Clocked, RespMove, CmdMove, CmdStays, CmdKept
      <4>7. CASE cs = "REGOUT"
        BY <1>2, <1>3, <2>1, <2>3, <3>1, <3>2, <3>3, <3>4, <3>5, <3>6, <3>7, <3>8, <3>9, <3>14,
           <4>1, <4>2, <4>7
           DEF CmdPlace, Clocked, RespMove, CmdMove, CmdStays, CmdKept
      <4>8. CASE cs = "TAIL"
        BY <1>2, <1>3, <2>1, <2>3, <3>1, <3>2, <3>3, <3>4, <3>5, <3>6, <3>7, <3>8, <3>9, <3>14,
           <4>1, <4>2, <4>8
           DEF CmdPlace, Clocked, RespMove, CmdMove, CmdStays, CmdKept
      <4> QED
        BY <1>2, <4>3, <4>4, <4>5, <4>6, <4>7, <4>8 DEF CmdStates
    <3>12. CASE Slow
      <4>1. /\ ~Edge /\ lead' = 0 /\ ~Late /\ ~Late' /\ (lead = 1 <=> sd_clk_en) /\ clkstrb_o
            /\ (Shift <=> sd_clk_en) /\ lead \in {0, 1}
        BY <3>2, <3>12 DEF Slow, Beat
      <4>2. /\ CMD'.RMODE = CMD.RMODE /\ RespWords' = RespWords /\ LastRespBit' = LastRespBit
            /\ FirstBits(CMD'.RMODE) = FirstBits(CMD.RMODE) /\ bits' = bits /\ resp' = resp
            /\ resp_reg' = IF sd_clk_en /\ cs # "IDLE" THEN cmd_line ELSE resp_reg
        BY <3>2, <4>1 DEF CmdKept, RespMove
      <4>3. CASE cs = "IDLE"
        BY <1>2, <1>3, <2>1, <2>3, <3>1, <3>2, <3>3, <3>4, <3>5, <3>6, <3>7, <3>8, <3>9, <3>14,
           <4>1, <4>2, <4>3
           DEF CmdPlace, Clocked, RespMove, CmdMove, CmdStays, CmdKept
      <4>4. CASE cs = "WRITE"
        <5>1. CASE cb = CmdBits - 1
          <6>1. /\ CMD.RMODE = "NONE" => cs' = "TAIL" /\ cb' = 0
                /\ CMD.RMODE # "NONE" => /\ cs' = "WAIT_RESP" /\ cw' = RespWords
                                         /\ cb' = RespBits - FirstBits(CMD.RMODE) + 3
            BY <2>3, <3>2, <3>6, <4>1, <4>4, <5>1 DEF CmdMove
          <6>2. resp_reg' = 0 /\ bits' = 0 /\ (~answers => resp' = 0)
                /\ (answers => resp' \in -MaxRespDelay .. -1)
            BY <1>3, <2>1, <3>2, <3>3, <3>6, <3>9, <4>1, <4>2, <4>4, <5>1 DEF CmdPlace,
               Clocked, RespMove
          <6> QED
            BY <2>1, <3>8, <4>1, <4>2, <4>4, <6>1, <6>2 DEF CmdPlace
        <5>2. CASE cb # CmdBits - 1
          <6>1. cs' = "WRITE" /\ cb' = cb + 1
            BY <2>3, <3>2, <3>6, <4>1, <4>4, <5>2 DEF CmdMove
          <6> QED
            BY <1>2, <1>3, <2>1, <3>2, <3>3, <3>6, <3>9, <4>1, <4>2, <4>4, <5>2, <6>1
               DEF CmdPlace, Clocked, RespMove
        <5> QED
          BY <5>1, <5>2
      <4>5. CASE cs = "WAIT_RESP"
        <5>1. /\ CMD.RMODE # "NONE" /\ cb = RespBits - FirstBits(CMD.RMODE) + 3 /\ cw = RespWords
              /\ ~answers => resp = 0 /\ resp_reg = 0
              /\ answers => \/ resp \in -MaxRespDelay .. -1 /\ resp_reg = 0
                            \/ resp > 0 /\ resp_reg \in 0 .. 2 /\ resp = resp_reg + lead
              /\ bits = 0
          BY <2>1, <3>2, <4>5 DEF CmdPlace
        <5>2. sd_clk_en /\ LastRespBit \in Int /\ LastRespBit >= 4
          BY <3>1, <3>5, <4>5, <5>1
        <5>3. bits' = 0
          BY <3>2, <4>5, <5>1 DEF RespMove
        <5>4. CASE resp_reg # 2
          <6>1. cs' = cs /\ cb' = cb /\ cw' = cw
            BY <2>3, <3>2, <4>1, <4>5, <5>4 DEF CmdMove, CmdStays
          <6>2. /\ ~answers => resp' = 0 /\ resp_reg' = 0
                /\ answers => \/ resp' \in -MaxRespDelay .. -1 /\ resp_reg' = 0
                              \/ resp' > 0 /\ resp_reg' \in 0 .. 2 /\ resp' = resp_reg' + lead'
            BY <1>3, <3>2, <3>9, <4>1, <4>2, <4>5, <5>1, <5>2, <5>4 DEF RespMove
          <6> QED
            BY <2>1, <4>2, <4>5, <5>1, <5>3, <6>1, <6>2 DEF CmdPlace
        <5>5. CASE resp_reg = 2
          <6>1. cs' = "READ_RESP" /\ cb' = cb /\ cw' = cw
            BY <2>3, <3>2, <4>1, <4>5, <5>5 DEF CmdMove
          <6>2. answers /\ resp = 3 /\ resp_reg' = 3 /\ resp' = 3 + lead'
            BY <1>3, <3>2, <3>9, <4>1, <4>2, <4>5, <5>1, <5>2, <5>5 DEF RespMove
          <6>3. 3 = LastRespBit - Awaited' + cb'
            BY <1>3, <3>1, <3>14, <5>1, <6>1
          <6> QED
            BY <1>2, <1>3, <2>1, <4>2, <5>1, <5>3, <6>1, <6>2, <6>3 DEF CmdPlace
        <5> QED
          BY <5>4, <5>5
      <4>6. CASE cs = "READ_RESP"
        <5>1. /\ answers /\ CMD.RMODE # "NONE" /\ resp_reg >= 3 /\ cw <= RespWords
              /\ resp_reg = LastRespBit - Awaited + cb /\ resp = resp_reg + lead
              /\ bits = 0
          BY <2>1, <3>2, <4>6 DEF CmdPlace
        <5>2. bits' = 0 /\ (~Edge => resp' = resp) /\ (Edge => resp' = IF resp = LastRespBit THEN 0 ELSE resp + 1)
          BY <1>3, <3>1, <3>2, <4>1, <4>6, <5>1 DEF RespMove
        <5>3. CASE ~sd_clk_en
          <6>1. cs' = cs /\ cb' = cb /\ cw' = cw /\ resp' = resp /\ resp_reg' = resp_reg /\ lead' = lead
            BY <2>3, <3>2, <4>1, <4>2, <4>6, <5>2, <5>3 DEF CmdMove, CmdStays
          <6> QED
            BY <2>1, <3>14, <4>2, <4>6, <5>1, <5>2, <6>1 DEF CmdPlace
        <5>4. CASE sd_clk_en
          <6>1. resp_reg' = resp_reg + 1
            BY <1>3, <3>9, <4>1, <4>2, <4>6, <5>1, <5>4
          <6>2. CASE cb = RespBits - 1
            <7>1. cs' = "REGOUT" /\ cb' = 0 /\ cw' = cw - 1
              BY <2>3, <3>2, <4>1, <4>6, <5>4, <6>2 DEF CmdMove
            <7>2. Awaited' = Awaited - RespBits /\ resp_reg' = LastRespBit - Awaited'
              BY <1>2, <1>3, <3>1, <3>4, <3>14, <4>6, <5>1, <6>1, <6>2, <7>1
            <7>3. resp' = IF Late' /\ cw' = 0 THEN 0 ELSE resp_reg' + lead'
              BY <1>2, <1>3, <3>1, <3>4, <4>1, <4>6, <5>1, <5>2, <5>4, <6>1, <6>2, <7>1, <7>2
            <7> QED
              BY <1>2, <1>3, <2>1, <3>1, <3>4, <4>2, <4>6, <5>1, <5>2, <6>1, <7>1, <7>2,
                 <7>3 DEF CmdPlace
          <6>3. CASE cb # RespBits - 1
            <7>1. cs' = "READ_RESP" /\ cb' = cb + 1 /\ cw' = cw
              BY <2>3, <3>2, <4>1, <4>6, <5>4, <6>3 DEF CmdMove
            <7>2. resp_reg' = LastRespBit - Awaited' + cb'
              BY <1>2, <1>3, <3>1, <3>14, <5>1, <6>1, <7>1
            <7>3. resp' = resp_reg' + lead'
              BY <1>2, <1>3, <3>1, <3>4, <4>1, <4>6, <5>1, <5>2, <5>4, <6>1, <6>3
            <7> QED
              BY <1>2, <1>3, <2>1, <3>1, <4>2, <5>1, <5>2, <6>1, <7>1, <7>2, <7>3 DEF CmdPlace
          <6> QED
            BY <6>2, <6>3
        <5> QED
          BY <5>3, <5>4
      <4>7. CASE cs = "REGOUT"
        <5>1. /\ answers /\ CMD.RMODE # "NONE" /\ resp_reg >= 3 /\ cw < RespWords
              /\ resp_reg = LastRespBit - Awaited
              /\ resp = IF Late /\ cw = 0 THEN 0 ELSE resp_reg + lead
              /\ bits = 0
          BY <2>1, <3>2, <4>7 DEF CmdPlace
        <5>2. ~sd_clk_en /\ ~Edge
          BY <1>2, <4>1, <4>7
        <5>3. bits' = 0 /\ resp' = resp /\ resp_reg' = resp_reg
          BY <3>2, <4>1, <4>2, <5>1, <5>2 DEF RespMove
        <5>4. CASE FLAG_CMD_RESP
          <6>1. cs' = cs /\ cb' = cb /\ cw' = cw
            BY <2>3, <3>2, <4>1, <4>7, <5>4 DEF CmdMove, CmdStays
          <6>2. lead' = lead
            BY <4>1, <5>2
          <6> QED
            BY <2>1, <3>2, <3>14, <4>1, <4>2, <4>7, <5>1, <5>3, <6>1, <6>2 DEF CmdPlace
        <5>5. CASE ~FLAG_CMD_RESP /\ cw = 0
          <6>1. cs' = "TAIL" /\ cb' = 0
            BY <2>3, <3>2, <4>1, <4>7, <5>5 DEF CmdMove
          <6>2. resp' # 0 => resp' = LastRespBit /\ lead' = 0
            BY <3>1, <4>1, <5>1, <5>2, <5>3, <5>5
          <6> QED
            BY <2>1, <4>2, <5>1, <5>3, <6>1, <6>2 DEF CmdPlace
        <5>6. CASE ~FLAG_CMD_RESP /\ cw # 0
          <6>1. cs' = "READ_RESP" /\ cb' = 0 /\ cw' = cw
            BY <2>3, <3>2, <4>1, <4>7, <5>6 DEF CmdMove
          <6>2. resp' = resp_reg' + lead'
            BY <4>1, <5>1, <5>2, <5>3, <5>6
          <6>3. resp_reg' = LastRespBit - Awaited' + cb'
            BY <1>3, <3>1, <3>14, <5>1, <5>3, <6>1
          <6> QED
            BY <1>2, <1>3, <2>1, <3>1, <4>2, <5>1, <5>3, <6>1, <6>2, <6>3 DEF CmdPlace
        <5> QED
          BY <5>4, <5>5, <5>6
      <4>8. CASE cs = "TAIL"
        BY <1>2, <1>3, <2>1, <2>3, <3>1, <3>2, <3>3, <3>4, <3>5, <3>6, <3>7, <3>8, <3>9, <3>14,
           <4>1, <4>2, <4>8
           DEF CmdPlace, Clocked, RespMove, CmdMove, CmdStays, CmdKept
      <4> QED
        BY <1>2, <4>3, <4>4, <4>5, <4>6, <4>7, <4>8 DEF CmdStates
    <3>13. CASE Fast
      <4>1. /\ lead = 1 /\ lead' = 1 /\ Late /\ Late' /\ (Edge <=> sd_clk_en) /\ clkstrb_o
            /\ (Shift <=> sd_clk_en)
        BY <3>2, <3>13 DEF Fast, Beat
      <4>2. /\ CMD'.RMODE = CMD.RMODE /\ RespWords' = RespWords /\ LastRespBit' = LastRespBit
            /\ FirstBits(CMD'.RMODE) = FirstBits(CMD.RMODE)
            /\ resp_reg' = IF sd_clk_en /\ cs # "IDLE" THEN cmd_line ELSE resp_reg
        BY <3>2, <4>1 DEF CmdKept
      <4>3. CASE cs = "IDLE"
        BY <1>2, <1>3, <2>1, <2>3, <3>1, <3>2, <3>3, <3>4, <3>5, <3>6, <3>7, <3>8, <3>9, <3>14,
           <4>1, <4>2, <4>3
           DEF CmdPlace, Clocked, RespMove, CmdMove, CmdStays, CmdKept
      <4>4. CASE cs = "WRITE"
        <5>1. CASE cb = CmdBits - 1
          <6>1. /\ CMD.RMODE = "NONE" => cs' = "TAIL" /\ cb' = 0
                /\ CMD.RMODE # "NONE" => /\ cs' = "WAIT_RESP" /\ cw' = RespWords
                                         /\ cb' = RespBits - FirstBits(CMD.RMODE) + 3
            BY <2>3, <3>2, <3>6, <4>1, <4>4, <5>1 DEF CmdMove
          <6>2. resp_reg' = 0 /\ bits' = 0 /\ (~answers => resp' = 0)
                /\ (answers => resp' \in -MaxRespDelay .. -1)
            BY <1>3, <2>1, <3>2, <3>3, <3>6, <3>9, <4>1, <4>2, <4>4, <5>1 DEF CmdPlace,
               Clocked, RespMove
          <6> QED
            BY <2>1, <3>8, <4>1, <4>2, <4>4, <6>1, <6>2 DEF CmdPlace
        <5>2. CASE cb # CmdBits - 1
          <6>1. cs' = "WRITE" /\ cb' = cb + 1
            BY <2>3, <3>2, <3>6, <4>1, <4>4, <5>2 DEF CmdMove
          <6> QED
            BY <1>2, <1>3, <2>1, <3>2, <3>3, <3>6, <3>9, <4>1, <4>2, <4>4, <5>2, <6>1
               DEF CmdPlace, Clocked, RespMove
        <5> QED
          BY <5>1, <5>2
      <4>5. CASE cs = "WAIT_RESP"
        <5>1. /\ CMD.RMODE # "NONE" /\ cb = RespBits - FirstBits(CMD.RMODE) + 3 /\ cw = RespWords
              /\ ~answers => resp = 0 /\ resp_reg = 0
              /\ answers => \/ resp \in -MaxRespDelay .. -1 /\ resp_reg = 0
                            \/ resp > 0 /\ resp_reg \in 0 .. 2 /\ resp = resp_reg + lead
              /\ bits = 0
          BY <2>1, <3>2, <4>5 DEF CmdPlace
        <5>2. sd_clk_en /\ LastRespBit \in Int /\ LastRespBit >= 4
          BY <3>1, <3>5, <4>5, <5>1
        <5>3. bits' = 0
          BY <3>2, <4>5, <5>1 DEF RespMove
        <5>4. CASE resp_reg # 2
          <6>1. cs' = cs /\ cb' = cb /\ cw' = cw
            BY <2>3, <3>2, <4>1, <4>5, <5>4 DEF CmdMove, CmdStays
          <6>2. /\ ~answers => resp' = 0 /\ resp_reg' = 0
                /\ answers => \/ resp' \in -MaxRespDelay .. -1 /\ resp_reg' = 0
                              \/ resp' > 0 /\ resp_reg' \in 0 .. 2 /\ resp' = resp_reg' + lead'
            BY <1>3, <3>2, <3>9, <4>1, <4>2, <4>5, <5>1, <5>2, <5>4 DEF RespMove
          <6> QED
            BY <2>1, <4>2, <4>5, <5>1, <5>3, <6>1, <6>2 DEF CmdPlace
        <5>5. CASE resp_reg = 2
          <6>1. cs' = "READ_RESP" /\ cb' = cb /\ cw' = cw
            BY <2>3, <3>2, <4>1, <4>5, <5>5 DEF CmdMove
          <6>2. answers /\ resp = 3 /\ resp_reg' = 3 /\ resp' = 3 + lead'
            BY <1>3, <3>2, <3>9, <4>1, <4>2, <4>5, <5>1, <5>2, <5>5 DEF RespMove
          <6>3. 3 = LastRespBit - Awaited' + cb'
            BY <1>3, <3>1, <3>14, <5>1, <6>1
          <6> QED
            BY <1>2, <1>3, <2>1, <4>2, <5>1, <5>3, <6>1, <6>2, <6>3 DEF CmdPlace
        <5> QED
          BY <5>4, <5>5
      <4>6. CASE cs = "READ_RESP"
        <5>1. /\ answers /\ CMD.RMODE # "NONE" /\ resp_reg >= 3 /\ cw <= RespWords
              /\ resp_reg = LastRespBit - Awaited + cb /\ resp = resp_reg + lead
              /\ bits = 0
          BY <2>1, <3>2, <4>6 DEF CmdPlace
        <5>2. bits' = 0 /\ (~Edge => resp' = resp) /\ (Edge => resp' = IF resp = LastRespBit THEN 0 ELSE resp + 1)
          BY <1>3, <3>1, <3>2, <4>1, <4>6, <5>1 DEF RespMove
        <5>3. CASE ~sd_clk_en
          <6>1. cs' = cs /\ cb' = cb /\ cw' = cw /\ resp' = resp /\ resp_reg' = resp_reg /\ lead' = lead
            BY <2>3, <3>2, <4>1, <4>2, <4>6, <5>2, <5>3 DEF CmdMove, CmdStays
          <6> QED
            BY <2>1, <3>14, <4>2, <4>6, <5>1, <5>2, <6>1 DEF CmdPlace
        <5>4. CASE sd_clk_en
          <6>1. resp_reg' = resp_reg + 1
            BY <1>3, <3>9, <4>1, <4>2, <4>6, <5>1, <5>4
          <6>2. CASE cb = RespBits - 1
            <7>1. cs' = "REGOUT" /\ cb' = 0 /\ cw' = cw - 1
              BY <2>3, <3>2, <4>1, <4>6, <5>4, <6>2 DEF CmdMove
            <7>2. Awaited' = Awaited - RespBits /\ resp_reg' = LastRespBit - Awaited'
              BY <1>2, <1>3, <3>1, <3>4, <3>14, <4>6, <5>1, <6>1, <6>2, <7>1
            <7>3. resp' = IF Late' /\ cw' = 0 THEN 0 ELSE resp_reg' + lead'
              BY <1>2, <1>3, <3>1, <3>4, <4>1, <4>6, <5>1, <5>2, <5>4, <6>1, <6>2, <7>1, <7>2
            <7> QED
              BY <1>2, <1>3, <2>1, <3>1, <3>4, <4>2, <4>6, <5>1, <5>2, <6>1, <7>1, <7>2,
                 <7>3 DEF CmdPlace
          <6>3. CASE cb # RespBits - 1
            <7>1. cs' = "READ_RESP" /\ cb' = cb + 1 /\ cw' = cw
              BY <2>3, <3>2, <4>1, <4>6, <5>4, <6>3 DEF CmdMove
            <7>2. resp_reg' = LastRespBit - Awaited' + cb'
              BY <1>2, <1>3, <3>1, <3>14, <5>1, <6>1, <7>1
            <7>3. resp' = resp_reg' + lead'
              BY <1>2, <1>3, <3>1, <3>4, <4>1, <4>6, <5>1, <5>2, <5>4, <6>1, <6>3
            <7> QED
              BY <1>2, <1>3, <2>1, <3>1, <4>2, <5>1, <5>2, <6>1, <7>1, <7>2, <7>3 DEF CmdPlace
          <6> QED
            BY <6>2, <6>3
        <5> QED
          BY <5>3, <5>4
      <4>7. CASE cs = "REGOUT"
        <5>1. /\ answers /\ CMD.RMODE # "NONE" /\ resp_reg >= 3 /\ cw < RespWords
              /\ resp_reg = LastRespBit - Awaited
              /\ resp = IF Late /\ cw = 0 THEN 0 ELSE resp_reg + lead
              /\ bits = 0
          BY <2>1, <3>2, <4>7 DEF CmdPlace
        <5>2. ~sd_clk_en /\ ~Edge
          BY <1>2, <4>1, <4>7
        <5>3. bits' = 0 /\ resp' = resp /\ resp_reg' = resp_reg
          BY <3>2, <4>1, <4>2, <5>1, <5>2 DEF RespMove
        <5>4. CASE FLAG_CMD_RESP
          <6>1. cs' = cs /\ cb' = cb /\ cw' = cw
            BY <2>3, <3>2, <4>1, <4>7, <5>4 DEF CmdMove, CmdStays
          <6>2. lead' = lead
            BY <4>1, <5>2
          <6> QED
            BY <2>1, <3>2, <3>14, <4>1, <4>2, <4>7, <5>1, <5>3, <6>1, <6>2 DEF CmdPlace
        <5>5. CASE ~FLAG_CMD_RESP /\ cw = 0
          <6>1. cs' = "TAIL" /\ cb' = 0
            BY <2>3, <3>2, <4>1, <4>7, <5>5 DEF CmdMove
          <6>2. resp' # 0 => resp' = LastRespBit /\ lead' = 0
            BY <3>1, <4>1, <5>1, <5>2, <5>3, <5>5
          <6> QED
            BY <2>1, <4>2, <5>1, <5>3, <6>1, <6>2 DEF CmdPlace
        <5>6. CASE ~FLAG_CMD_RESP /\ cw # 0
          <6>1. cs' = "READ_RESP" /\ cb' = 0 /\ cw' = cw
            BY <2>3, <3>2, <4>1, <4>7, <5>6 DEF CmdMove
          <6>2. resp' = resp_reg' + lead'
            BY <4>1, <5>1, <5>2, <5>3, <5>6
          <6>3. resp_reg' = LastRespBit - Awaited' + cb'
            BY <1>3, <3>1, <3>14, <5>1, <5>3, <6>1
          <6> QED
            BY <1>2, <1>3, <2>1, <3>1, <4>2, <5>1, <5>3, <6>1, <6>2, <6>3 DEF CmdPlace
        <5> QED
          BY <5>4, <5>5, <5>6
      <4>8. CASE cs = "TAIL"
        BY <1>2, <1>3, <2>1, <2>3, <3>1, <3>2, <3>3, <3>4, <3>5, <3>6, <3>7, <3>8, <3>9, <3>14,
           <4>1, <4>2, <4>8
           DEF CmdPlace, Clocked, RespMove, CmdMove, CmdStays, CmdKept
      <4> QED
        BY <1>2, <4>3, <4>4, <4>5, <4>6, <4>7, <4>8 DEF CmdStates
    <3> QED
      BY <3>2, <3>10, <3>11, <3>12, <3>13 DEF Beat
  <2> QED
    BY <2>2, <2>3
<1> QED
  BY <1>4, <1>5, <1>6, <1>7, Kinds DEF Within

-----------------------------------------------------------------------------
(* The steps of the program, each with what its access does.               *)
Keeps == op' = op /\ answers' = answers /\ got' = got /\ words' = words
Idles == old' = old /\ fetched' = fetched
Turn == /\ at' \in todo' \cup {"poll"} /\ at' \in FlagNames \cup {"poll"}
        /\ at' \in {"DAT_DATA", "BLK_DONE", "DAT_DONE"} => "CMD_DONE" \notin todo'

Paused == Keeps /\ Idles /\ at' = at /\ todo' = todo /\ Quietly
Called == /\ at = "call" /\ at' = "commit" /\ todo' = {} /\ Idles /\ got' = 0 /\ words' = 0
          /\ op' \in Operations /\ (op' = "write" => ~Late) /\ Quietly
Commits == Begin /\ Idles
Polls == at = "poll" /\ Keeps /\ Idles /\ todo' = Status \cap Polled /\ Turn /\ Quietly
TimesOut == /\ at = "poll" /\ at' = "begin_reset" /\ todo' = {} /\ Keeps /\ Idles /\ Quietly
            /\ ~answers /\ cs = "WAIT_RESP" /\ op \in Simple
TakesResp ==
  /\ at = "CMD_RESP" /\ todo' = todo \ {"CMD_RESP"} /\ Turn /\ Idles
  /\ op' = op /\ answers' = answers /\ got' = got + 1 /\ words' = words
  /\ Ctrl /\ Command /\ ~FLAG_CMD_RESP' /\ DataSet /\ Data
TakesData ==
  /\ at = "DAT_DATA" /\ op = "read" /\ todo' = todo \ {"DAT_DATA"} /\ Turn /\ Idles
  /\ op' = op /\ answers' = answers /\ got' = got /\ words' = words + 1
  /\ Ctrl /\ Command /\ RespSet /\ ~FLAG_DAT_DATA' /\ Data
PutsWord ==
  /\ todo' = todo \ {"DAT_DATA"} /\ Turn /\ Idles /\ op' = op /\ answers' = answers
  /\ got' = got /\ Loads /\ Ctrl /\ Command /\ RespSet
PutsNone ==
  /\ at = "DAT_DATA" /\ op = "write" /\ todo' = todo \ {"DAT_DATA"} /\ Turn /\ Idles
  /\ Keeps /\ words >= BlockWords /\ Quietly
Fetches == /\ at \in Modifications /\ ~fetched /\ fetched' /\ old' = CTRL
           /\ at' = at /\ todo' = todo /\ Keeps /\ Quietly
Stores ==
  /\ at \in Modifications /\ fetched /\ ~fetched' /\ old' = {} /\ CTRL' = Stored
  /\ answers' = answers /\ got' = got /\ words' = words
  /\ Command /\ RespSet /\ DataSet /\ Data
Acknowledges == /\ Stores /\ at = "CMD_DONE" /\ op \in {"read", "write"} /\ op' = op
                /\ todo' = todo \ {"CMD_DONE"} /\ Turn
StopsBusy == /\ Stores /\ at = "CMD_DONE" /\ op = "busy" /\ op' = op
             /\ at' = "wait_idle" /\ todo' = {}
EndsBlock == /\ Stores /\ at = "BLK_DONE" /\ op \in {"read", "write"} /\ op' = op
             /\ at' = "abort" /\ todo' = todo
Resets == Stores /\ at = "begin_reset" /\ op' = op /\ at' = "resetting" /\ todo' = {}
Clears == Stores /\ at = "clear_flags" /\ op' = op /\ at' = "end_reset" /\ todo' = {}
Returning == /\ Stores /\ op' = "none" /\ todo' = {} /\ at' = (IF op = "write" THEN "end" ELSE "call")
            /\ \/ at = "end_reset" \/ at = "DAT_DONE"
               \/ at = "CMD_DONE" /\ op \in Simple
AbortsBlock == Aborts /\ Idles /\ answers' = answers /\ Turn
WaitsIdle ==
  /\ at \in {"wait_idle", "resetting"} /\ Keeps /\ Idles /\ Quietly /\ todo' = {}
  /\ at' = IF cs # "IDLE" \/ ds # "IDLE" THEN at
           ELSE IF at = "wait_idle" THEN "DAT_DONE" ELSE "drop_resp"
DropsResp == /\ at = "drop_resp" /\ at' = "drop_data" /\ todo' = {} /\ Keeps /\ Idles
             /\ Ctrl /\ Command /\ ~FLAG_CMD_RESP' /\ DataSet /\ Data
DropsData == /\ at = "drop_data" /\ at' = "clear_flags" /\ todo' = {} /\ Keeps /\ Idles
             /\ Ctrl /\ Command /\ RespSet /\ ~FLAG_DAT_DATA' /\ Data

(* Every action as its accesses and the places it goes between.            *)
LEMMA Steps ==
  ASSUME Inv, Next
  PROVE  \/ Paused \/ Called \/ Commits \/ Polls \/ TimesOut \/ TakesResp \/ TakesData
         \/ PutsWord \/ PutsNone \/ Fetches
         \/ Acknowledges \/ StopsBusy \/ EndsBlock \/ Resets \/ Clears \/ Returning
         \/ AbortsBlock \/ WaitsIdle \/ DropsResp \/ DropsData
<1>1. Controller
  BY DEF Inv
<1>2. Polled \subseteq FlagNames /\ Status \cap Polled \subseteq Polled /\ todo \subseteq Polled
  BY DEF Polled, FlagNames, Inv, Program
<1>3. ASSUME NEW flags, flags \subseteq Polled, Continue(flags), op' = op
      PROVE  todo' = flags /\ Turn
  BY <1>3, Continues DEF Turn
<1>4. op \in {"none", "silent", "command", "long", "busy", "read", "write"}
  BY ProgramAssumption DEF Inv, Program
<1>10. Pause => Paused
  BY <1>1, Accessed DEF Pause, program_vars, Paused, Keeps, Idles
<1>11. Call => Called
  BY <1>1, Accessed DEF Call, Go, Called, Idles, Late
<1>12. Commit => Commits
  BY <1>1, Accessed DEF Commit, Go, Begin, Commits, Idles
<1>13. CASE Poll
  <2>1. at = "poll" /\ Keeps /\ Idles /\ Continue(Status \cap Polled) /\ Quietly
    BY <1>1, <1>13, Accessed DEF Poll, Keeps, Idles
  <2> QED
    BY <1>2, <1>3, <2>1 DEF Polls, Keeps
<1>14. CASE Timeout
  <2>1. ~answers /\ op \in Simple
    BY <1>14, TimedOut
  <2> QED
    BY <1>1, <1>14, <2>1, Accessed DEF Timeout, Go, TimesOut, Keeps, Idles, cs
<1>15. CASE ReadResp
  <2>1. todo' = todo \ {"CMD_RESP"} /\ Turn
    BY <1>2, <1>3, <1>15 DEF ReadResp
  <2> QED
    BY <1>1, <1>15, <2>1, Accessed DEF ReadResp, TakesResp, Idles
<1>16. CASE ReadData
  <2>1. todo' = todo \ {"DAT_DATA"} /\ Turn
    BY <1>2, <1>3, <1>16 DEF ReadData
  <2> QED
    BY <1>1, <1>16, <2>1, Accessed DEF ReadData, TakesData, Idles
<1>17. CASE WriteWord
  <2>1. todo' = todo \ {"DAT_DATA"} /\ Turn
    BY <1>2, <1>3, <1>17 DEF WriteWord
  <2>2. CASE words < BlockWords
    BY <1>1, <1>17, <2>1, <2>2, Accessed DEF WriteWord, PutsWord, Loads, Idles
  <2>3. CASE ~(words < BlockWords)
    <3>1. words >= BlockWords
      BY <2>3, BlockAssumption DEF Inv, Controller, Registers
    <3> QED
      BY <1>1, <1>17, <2>1, <2>3, <3>1, Accessed DEF WriteWord, PutsNone, Keeps, Idles
  <2> QED
    BY <2>2, <2>3
<1>18. CASE Fetch
  BY <1>1, <1>18, Accessed DEF Fetch, Fetches, Keeps
<1>19. CASE Store
  <2>1. Stores
    BY <1>1, <1>19, Accessed DEF Store, Stores
  <2>2. op \in Simple \cup {"busy", "read", "write"}
    BY <1>4, <2>1 DEF Stores, Inv, Program, Modifications, Simple
  <2>3. CASE at = "CMD_DONE" /\ op \in {"read", "write"}
    <3>1. Continue(todo \ {"CMD_DONE"}) /\ op' = op
      BY <1>19, <2>3 DEF Store
    <3> QED
      BY <1>2, <1>3, <2>1, <2>3, <3>1 DEF Acknowledges
  <2>4. CASE at = "CMD_DONE" /\ op = "busy"
    BY <1>19, <2>1, <2>4 DEF Store, Go, StopsBusy
  <2>5. CASE at = "BLK_DONE"
    <3>1. at' = "abort" /\ todo' = todo /\ op' = op
      BY <1>19, <2>5 DEF Store
    <3>2. op \in {"read", "write"}
      BY <2>2, <2>5 DEF Inv, Program, Resetting, Simple
    <3> QED
      BY <2>1, <2>5, <3>1, <3>2 DEF EndsBlock
  <2>6. CASE at = "begin_reset"
    BY <1>19, <2>1, <2>6 DEF Store, Go, Resets
  <2>7. CASE at = "clear_flags"
    BY <1>19, <2>1, <2>7 DEF Store, Go, Clears
  <2>8. CASE at \in {"end_reset", "DAT_DONE"} \/ (at = "CMD_DONE" /\ op \in Simple)
    BY <1>19, <2>1, <2>8 DEF Store, Return, Go, Simple, Returning
  <2> QED
    BY <2>1, <2>2, <2>3, <2>4, <2>5, <2>6, <2>7, <2>8 DEF Stores, Modifications
<1>20. CASE Abort
  <2>1. todo' = todo \ {"BLK_DONE"} /\ Turn
    BY <1>2, <1>3, <1>20 DEF Abort
  <2>2. /\ at = "abort" /\ op' = op /\ Ctrl /\ RespSet /\ DataSet /\ Data
        /\ words' = words /\ got' = got /\ answers' = answers /\ Idles /\ resp_reg' = 0
        /\ CMD' = [COMMIT |-> FALSE, ABRT_DAT |-> TRUE, DMODE |-> "NONE", RMODE |-> "NONE"]
    BY <1>1, <1>20, Accessed DEF Abort, Idles
  <2> QED
    BY <2>1, <2>2 DEF AbortsBlock, Aborts, Turn, FlagNames
<1>21. CASE WaitIdle
  <2>1. Status \cap {"CMD_BUSY", "DAT_BUSY"} # {} <=> cs # "IDLE" \/ ds # "IDLE"
    <3>1. CTRL \subseteq CtrlBits
      BY DEF Inv, Controller, Registers
    <3> QED
      BY <3>1 DEF Status, cmd_idle, dat_idle, cs, ds, CtrlBits
  <2> QED
    BY <1>1, <1>21, <2>1, Accessed DEF WaitIdle, Go, WaitsIdle, Keeps, Idles
<1>22. DropResp => DropsResp
  BY <1>1, Accessed DEF DropResp, Go, DropsResp, Keeps, Idles
<1>23. DropData => DropsData
  BY <1>1, Accessed DEF DropData, Go, DropsData, Keeps, Idles
<1> QED
  BY <1>10, <1>11, <1>12, <1>13, <1>14, <1>15, <1>16, <1>17, <1>18, <1>19, <1>20, <1>21, <1>22,
     <1>23 DEF Next, Access

-----------------------------------------------------------------------------
(* The registers.                                                          *)
LEMMA Effects ==
  ASSUME Inv, Next
  PROVE  /\ Begin \/ Aborts \/ CmdKept
         /\ Data \/ (PutsWord /\ Loads)
         /\ RespSet \/ ((TakesResp \/ DropsResp) /\ ~FLAG_CMD_RESP')
         /\ DataSet \/ ((TakesData \/ PutsWord \/ DropsData) /\ ~FLAG_DAT_DATA')
<1>1. CMD \in Commands
  BY DEF Inv, Controller, Registers
<1>2. Command => CmdKept
  BY <1>1, CommandKept
<1>3. Quietly => CmdKept /\ Data /\ RespSet /\ DataSet
  BY <1>2 DEF Quietly
<1>4. Stores => CmdKept /\ Data /\ RespSet /\ DataSet
  BY <1>2 DEF Stores
<1>5. Commits => Begin /\ Data /\ RespSet /\ DataSet
  BY DEF Commits, Begin
<1>6. AbortsBlock => Aborts /\ Data /\ RespSet /\ DataSet
  BY DEF AbortsBlock, Aborts
<1>7. Paused \/ Called \/ Polls \/ TimesOut \/ PutsNone \/ Fetches \/ WaitsIdle => Quietly
  BY DEF Paused, Called, Polls, TimesOut, PutsNone, Fetches, WaitsIdle
<1>8. Acknowledges \/ StopsBusy \/ EndsBlock \/ Resets \/ Clears \/ Returning => Stores
  BY DEF Acknowledges, StopsBusy, EndsBlock, Resets, Clears, Returning
<1>9. TakesResp \/ DropsResp => CmdKept /\ Data /\ ~FLAG_CMD_RESP' /\ DataSet
  BY <1>2 DEF TakesResp, DropsResp
<1>10. TakesData \/ DropsData => CmdKept /\ Data /\ RespSet /\ ~FLAG_DAT_DATA'
  BY <1>2 DEF TakesData, DropsData
<1>11. PutsWord => CmdKept /\ Loads /\ RespSet /\ ~FLAG_DAT_DATA'
  BY <1>2 DEF PutsWord, Loads
<1> QED
  BY <1>3, <1>4, <1>5, <1>6, <1>7, <1>8, <1>9, <1>10, <1>11, Steps

(* The registers and the counters of the card keep their ranges.           *)
LEMMA RegistersStep ==
  ASSUME Inv, Next
  PROVE  Registers'
<1>1. Moves /\ DatShape'
  BY SystemMoves DEF Inv
<1>2. /\ CMD \in Commands /\ resp_reg \in Nat /\ dat_reg \in Nat /\ (~runs => dat_reg = 0)
      /\ bits \in Nat /\ resp \in Int /\ data \in Int /\ held \in Nat /\ taken \in Nat
      /\ got \in Nat /\ words \in Nat
  BY DEF Inv, Controller, Registers
<1>3. /\ CmdBits \in Nat /\ CmdBits > 0 /\ MaxRespDelay \in Nat /\ TokenBits \in Nat /\ WordBits \in Nat
      /\ LastDataBit \in Int /\ Start = 1
  <2>1. BlockBits \in Nat /\ LastDataBit = Start + BlockBits + CrcBits
    BY BlockBitsIs
  <2> QED
    BY <2>1, ProgramAssumption, ResponseAssumption, BlockAssumption DEF Start
<1>4. /\ FLAG_CMD_RESP' \in BOOLEAN /\ FLAG_DAT_DATA' \in BOOLEAN
      /\ status_idle_cmd_last' \in BOOLEAN /\ status_idle_dat_last' \in BOOLEAN
      /\ status_resp_cmd_last' \in BOOLEAN /\ status_data_dat_last' \in BOOLEAN
  <2>1. PICK bus, crc : Clock(bus, cmd_line, dat_line, crc)
    BY NextDoes DEF Do
  <2> QED
    BY <2>1 DEF Clock, CtrlRegister, RespFlag, DataFlag, cmd_idle, dat_idle, status_resp,
       status_data
<1>5. CTRL' \subseteq CtrlBits \ {"IDLE_SDCLK"}
  BY CtrlStep DEF Inv
<1>6. CMD' \in Commands /\ resp_reg' \in Nat
  <2>1. CASE Begin
    BY <2>1 DEF Begin, Commands, Mode, Response
  <2>2. CASE Aborts
    BY <2>2 DEF Aborts, Commands
  <2>3. CASE CmdKept
    BY <1>2, <2>3 DEF CmdKept, cmd_line, High
  <2> QED
    BY <2>1, <2>2, <2>3, Effects
<1>7. dat_reg' \in Nat /\ (~runs' => dat_reg' = 0)
  <2>1. dat_line \in Int
    BY <1>2 DEF dat_line, High, Low
  <2>2. CASE Data
    BY <1>2, <1>3, <2>1, <2>2 DEF Data
  <2>3. CASE Loads
    <3>1. \A m, n \in Nat : m * n \in Nat
      OBVIOUS
    <3>2. words * WordBits \in Nat
      BY <1>2, <1>3, <3>1
    <3> QED
      BY <2>3, <3>2 DEF Loads
  <2> QED
    BY <2>2, <2>3, Effects
<1>8. bits' \in Nat /\ resp' \in Int
  <2>1. bits' \in Nat
    BY <1>1, <1>2, <1>3 DEF Moves, CardMove, RespMove
  <2>2. RespMove
    BY <1>1 DEF Moves, CardMove
  <2>3. CASE ~Edge \/ (cs = "WRITE" /\ bits + 1 = CmdBits /\ answers)
    BY <1>2, <1>3, <2>2, <2>3 DEF RespMove
  <2>4. CASE Edge /\ ~(cs = "WRITE" /\ bits + 1 = CmdBits /\ answers)
    <3>1. /\ resp < -1 => resp' = resp + 1
          /\ resp = -1 => resp' = 1
          /\ resp = 0 \/ (resp > 0 /\ resp = LastRespBit) => resp' = 0
          /\ resp > 0 /\ resp # LastRespBit => resp' = resp + 1
      BY <2>2, <2>4 DEF RespMove
    <3> QED
      BY <1>2, <2>1, <3>1
  <2> QED
    BY <2>1, <2>3, <2>4
<1>9. data' \in Int /\ held' \in Nat
  <2>1. DataMove
    BY <1>1 DEF Moves, CardMove
  <2>2. ~(Replied /\ Ended) /\ ~(Asked /\ Replied) /\ ~(Asked /\ Ended)
    <3>1. Ended => Writing
      BY WritingDrives DEF Ended
    <3> QED
      BY <3>1 DEF Asked, Replied, Ended, Writing, Inv, Program
  <2>3. CASE ~Edge
    BY <1>2, <2>1, <2>3 DEF DataMove
  <2>4. CASE Edge /\ Asked
    BY <2>1, <2>4 DEF DataMove
  <2> QED
    BY <1>2, <1>3, <2>1, <2>2, <2>3, <2>4 DEF DataMove
<1>10. taken' \in Nat
  BY <1>1, <1>2 DEF Moves, CardMove, TakenMove
<1>11. got' \in Nat /\ words' \in Nat
  <2>1. (got' = got \/ got' = 0 \/ got' = got + 1) /\ (words' = words \/ words' = 0 \/ words' = words + 1)
    BY Steps DEF Keeps, Paused, Called, Commits, Begin, Polls, TimesOut, TakesResp, TakesData,
         PutsWord, Loads, PutsNone, Fetches, Stores, Acknowledges, StopsBusy, EndsBlock, Resets,
         Clears, Returning, AbortsBlock, Aborts, WaitsIdle, DropsResp, DropsData
  <2> QED
    BY <1>2, <2>1
<1> QED
  BY <1>4, <1>5, <1>6, <1>7, <1>8, <1>9, <1>10, <1>11 DEF Registers


(* While an abort is asked for, or asked for now, the state machine of the *)
(* data is where it may be aborted, and a word that was moved is over.     *)
LEMMA AbortState ==
  ASSUME Inv, CMD.ABRT_DAT \/ at = "abort"
  PROVE  /\ ds \in {"IDLE", "TAIL", "WAIT_BLOCK", "WRITE_TAIL", "WRITE_REGIN"} /\ ~drives
         /\ ds = "WRITE_REGIN" => /\ FLAG_DAT_DATA \/ ~status_data_dat_last
                                  /\ Writing /\ words = BlockWords
         /\ ds = "WAIT_BLOCK" => data = 0 /\ held = 0
         /\ ds = "IDLE" => ~starts \/ CMD.DMODE = "NONE"
         /\ "RST" \notin CTRL
<1>1. "RST" \notin CTRL
  <2>1. CASE "RST" \in CTRL
    <3>1. /\ op \in Simple /\ Committed /\ at \in Resetting
      BY <2>1, ResetPlace
    <3> QED
      BY <3>1 DEF Inv, CommandOK, Simple, Resetting
  <2> QED
    BY <2>1
<1>2. CASE ~Committed
  <2>1. ds = "IDLE" /\ cs = "IDLE"
    BY <1>2 DEF Inv, Clean, Over
  <2> QED
    BY <1>1, <2>1 DEF Inv, Controller, CmdShape, CmdCounts, DatShape, DatCounts, Sending
<1>3. CASE Committed
  <2>1. /\ ds \in {"IDLE", "TAIL", "WAIT_BLOCK", "WRITE_TAIL", "WRITE_REGIN"} /\ ~drives
    BY AbortPlace DEF Inv, Controller, AbortOK
  <2>2. op \in {"none", "silent", "command", "long", "busy", "read", "write"}
    BY ProgramAssumption DEF Inv, Program
  <2>3. op = "none" => at = "end"
    BY <1>3 DEF Inv, Program, Committed
  <2>4. op \notin Simple \cup {"busy"}
    <3>1. CMD.ABRT_DAT => op \in {"read", "write"} \/ at = "end"
      BY <1>3 DEF Inv, CommandOK
    <3>2. at = "abort" => op \in {"read", "write"}
      BY AbortPlace
    <3>3. at = "end" => op = "none"
      BY DEF Inv, Program
    <3> QED
      BY <3>1, <3>2, <3>3 DEF Simple
  <2>5. CASE op = "read"
    <3>1. Moved /\ ReadOver /\ held = 0 /\ ds \notin WriteStates
      BY <1>3, <2>5 DEF Inv, ReadOK, ReadFlags, ReadStates, WriteStates, Sending
    <3>2. ds = "IDLE" => CMD.DMODE = "NONE"
      BY <1>3, <3>1 DEF Inv, Moved, CommandOK
    <3> QED
      BY <1>1, <2>1, <3>1, <3>2 DEF ReadOver, WriteStates
  <2>6. CASE Writing
    <3>1. /\ words = BlockWords /\ taken = BlockBits /\ ds # "WAIT_BLOCK"
      BY <1>3, <2>6 DEF Inv, WriteOK, WriteShape, WriteFlags, WriteStates, Sending
    <3>2. BlockBits > 0
      BY BlockBitsIs, BlockAssumption
    <3>3. ds = "IDLE" => CMD.DMODE = "NONE"
      BY <1>3, <2>6, <3>1, <3>2 DEF Inv, WriteOK, WriteShape, WriteFlags, CommandOK
    <3>4. ds = "WRITE_REGIN" => FLAG_DAT_DATA \/ ~status_data_dat_last
      BY <1>3, <2>1, <2>6, <3>1, <3>2 DEF Inv, WriteOK, WriteShape, WriteFlags, DataTaken
    <3> QED
      BY <1>1, <2>1, <2>6, <3>1, <3>3, <3>4
  <2> QED
    BY <2>2, <2>3, <2>4, <2>5, <2>6 DEF Writing, Simple
<1> QED
  BY <1>2, <1>3

(* A data transfer is aborted only when no bit of it is under way.         *)
LEMMA AbortStep ==
  ASSUME Inv, Next
  PROVE  AbortOK'
<1>1. Moves
  BY SystemMoves DEF Inv
<1>2. CASE CMD.ABRT_DAT \/ Aborts
  <2>1. /\ ds \in {"IDLE", "TAIL", "WAIT_BLOCK", "WRITE_TAIL", "WRITE_REGIN"} /\ ~drives
        /\ ds = "WRITE_REGIN" => /\ FLAG_DAT_DATA \/ ~status_data_dat_last
                                 /\ Writing /\ words = BlockWords
        /\ ds = "WAIT_BLOCK" => data = 0 /\ held = 0
        /\ ds = "IDLE" => ~starts \/ CMD.DMODE = "NONE"
        /\ "RST" \notin CTRL
    BY <1>2, AbortState DEF Aborts
  <2>2. ds = "WAIT_BLOCK" => ~IsLow(dat_line)
    BY <2>1 DEF IsLow, dat_line, High, Start, Low
  <2>3. clkstrb_o /\ ds = "WRITE_REGIN" => FLAG_DAT_DATA
    BY <2>1 DEF Inv, Controller, Settled
  <2>4. /\ ds' \in {"IDLE", "TAIL", "WAIT_BLOCK", "WRITE_TAIL", "WRITE_REGIN"} /\ ~drives'
        /\ ds' = "WRITE_REGIN" => ds = "WRITE_REGIN" \/ ds = "WRITE_TAIL"
    <3>1. DatFrame /\ (Normal => IdleMoves /\ ReadMoves /\ WriteMoves)
      BY <1>1 DEF Moves, DatMove
    <3>2. CASE ~Normal
      BY <2>1, <3>1, <3>2 DEF DatFrame, DatStays, SameOutput, Normal
    <3>3. CASE Normal /\ ds \in {"IDLE", "TAIL"}
      BY <2>1, <3>1, <3>3 DEF IdleMoves, DatStays, SameOutput
    <3>4. CASE Normal /\ ds = "WAIT_BLOCK"
      BY <2>1, <2>2, <3>1, <3>4 DEF ReadMoves, DatStays, SameOutput, ReadStates
    <3>5. CASE Normal /\ ds = "WRITE_REGIN"
      BY <2>1, <2>3, <3>1, <3>5 DEF WriteMoves, DatStays, SameOutput, Normal
    <3>6. CASE Normal /\ ds = "WRITE_TAIL"
      BY <2>1, <3>1, <3>6 DEF WriteMoves, DatStays, SameOutput, WriteStates
    <3> QED
      BY <2>1, <3>2, <3>3, <3>4, <3>5, <3>6
  <2>5. status_data_dat_last' <=> ds \in {"REGOUT", "WRITE_REGIN"}
    BY <1>1 DEF Moves, Lasts
  <2>6. ds = "WRITE_REGIN" => FLAG_DAT_DATA'
    <3>1. ds = "WRITE_REGIN" => ~TakesData /\ ~PutsWord /\ ~DropsData
      BY <2>1, BlockAssumption
         DEF TakesData, PutsWord, Loads, DropsData, Writing, Inv, Program, FlagNames
    <3> QED
      BY <2>1, <3>1, Effects DEF DataSet
  <2> QED
    BY <2>4, <2>5, <2>6 DEF AbortOK
<1>3. CASE Begin
  BY <1>3 DEF Begin, AbortOK
<1>4. CASE CmdKept /\ ~CMD.ABRT_DAT
  BY <1>4 DEF CmdKept, AbortOK
<1> QED
  BY <1>2, <1>3, <1>4, Effects

(* The hardware's part of the invariant.                                   *)
LEMMA ControllerStep ==
  ASSUME Inv, Next
  PROVE  Controller'
<1>1. Controller /\ Program
  BY DEF Inv
<1> QED
  BY <1>1, ClockKept, SystemMoves, RegistersStep, AbortStep DEF Controller

-----------------------------------------------------------------------------
(* Between the operations.                                                 *)
LEMMA Leaves ==
  ASSUME Inv, Next, Committed, ~Committed'
  PROVE  Returning /\ op # "write" /\ op # "none" /\ at' = "call"
<1>1. at \notin {"call", "commit"} /\ at' \in {"call", "commit"}
  BY DEF Committed
<1>2. ~Paused /\ ~Called /\ ~Commits /\ ~Fetches
  BY <1>1 DEF Paused, Called, Commits, Begin, Fetches
<1>3. ~Turn
  BY <1>1 DEF Turn, FlagNames
<1>4. ~Polls /\ ~TakesResp /\ ~TakesData /\ ~PutsWord /\ ~PutsNone /\ ~Acknowledges /\ ~AbortsBlock
  BY <1>3 DEF Polls, TakesResp, TakesData, PutsWord, PutsNone, Acknowledges, AbortsBlock
<1>5. ~TimesOut /\ ~StopsBusy /\ ~EndsBlock /\ ~Resets /\ ~Clears
  BY <1>1 DEF TimesOut, StopsBusy, EndsBlock, Resets, Clears
<1>6. ~WaitsIdle /\ ~DropsResp /\ ~DropsData
  BY <1>1 DEF WaitsIdle, DropsResp, DropsData
<1>7. Returning
  BY <1>2, <1>4, <1>5, <1>6, Steps
<1> QED
  BY <1>1, <1>7 DEF Returning, Inv, Program

(* When an operation returns, everything rests.                            *)
LEMMA ReturnState ==
  ASSUME Inv, Returning, op # "write", op # "none"
  PROVE  /\ Rest /\ CTRL' \subseteq {"CRCERR"}
         /\ status_idle_cmd_last /\ status_idle_dat_last
         /\ ~FLAG_CMD_RESP /\ ~FLAG_DAT_DATA
<1>1. /\ at \in {"end_reset", "DAT_DONE"} \/ (at = "CMD_DONE" /\ op \in Simple)
      /\ CTRL' = Stored /\ old \subseteq CTRL
  BY DEF Returning, Stores, Inv, Program
<1>2. CTRL \subseteq CtrlBits \ {"IDLE_SDCLK"} /\ ("RST" \in CTRL => at \in Resetting)
  BY DEF Inv, Controller, Registers, Program
<1>3. Committed
  BY <1>1 DEF Committed
<1>4. CASE op \in Simple
  <2>1. CmdDone
    BY <1>1, <1>3, <1>4 DEF Inv, CmdFlags, Program, Simple, Resetting, FlagNames
  <2>2. ds = "IDLE" /\ data = 0 /\ held = 0
    BY <1>4 DEF Inv, OtherOK
  <2>3. bits = 0 /\ resp = 0 /\ ~CMD.ABRT_DAT /\ cs = "IDLE"
    BY <1>1, <1>3, <1>4, <2>1 DEF Inv, CmdPlace, CommandOK, CmdDone, Over, Simple
  <2>4. /\ status_idle_dat_last /\ "DAT_DONE" \notin CTRL /\ "BLK_DONE" \notin CTRL
        /\ ~FLAG_CMD_RESP /\ ~FLAG_DAT_DATA
    BY <1>1, <1>3, <1>4, <2>2, <2>3 DEF Inv, DatFlags, RespFlags, Simple, Writing
  <2>5. CTRL' \subseteq {"CRCERR"}
    <3>1. CASE at = "end_reset"
      BY <1>1, <1>2, <2>4, <3>1 DEF Stored, CtrlBits, Inv, CmdFlags
    <3>2. CASE at = "CMD_DONE"
      BY <1>1, <1>2, <1>4, <2>4, <3>2 DEF Stored, CtrlBits, Resetting, Simple
    <3>3. at # "DAT_DONE"
      BY <1>4 DEF Inv, Program, Resetting, Simple
    <3> QED
      BY <1>1, <3>1, <3>2, <3>3
  <2> QED
    BY <2>1, <2>2, <2>3, <2>4, <2>5 DEF Rest, CmdDone
<1>5. CASE op = "busy"
  <2>1. at = "DAT_DONE"
    BY <1>1, <1>5 DEF Inv, Program, Resetting, Simple
  <2>2. CmdDone /\ "CMD_DONE" \notin CTRL /\ DatDone
    BY <1>5, <2>1 DEF Inv, CmdFlags, DatFlags
  <2>3. cs = "IDLE" /\ ~starts /\ ~CMD.COMMIT
    BY <2>2 DEF CmdDone, Over, Inv, Controller, CmdShape, CmdCounts
  <2>4. data = 0 /\ held = 0
    BY <1>3, <1>5, <2>2, <2>3 DEF Inv, BusyOK, DatDone, Ending
  <2>5. bits = 0 /\ resp = 0
    BY <1>3, <2>3 DEF Inv, CmdPlace
  <2>6. "BLK_DONE" \notin CTRL /\ ~FLAG_CMD_RESP /\ ~FLAG_DAT_DATA
    BY <1>5, <2>1, <2>2, <2>3 DEF Inv, DatFlags, RespFlags, Writing, DatDone
  <2>7. CTRL' \subseteq {"CRCERR"}
    BY <1>1, <1>2, <1>5, <2>1, <2>2, <2>6 DEF Stored, CtrlBits, Resetting
  <2> QED
    BY <2>2, <2>4, <2>5, <2>6, <2>7 DEF Rest, CmdDone, DatDone
<1>6. CASE op = "read"
  <2>1. at = "DAT_DONE"
    BY <1>1, <1>6 DEF Inv, Program, Resetting, Simple, FlagNames
  <2>2. DatDone /\ CMD.ABRT_DAT
    BY <1>3, <1>6, <2>1 DEF Inv, Program, DatFlags
  <2>3. Served /\ data = 0 /\ "BLK_DONE" \notin CTRL /\ held = 0
    BY <1>3, <1>6, <2>2 DEF Inv, ReadFlags, ReadOver, ReadOK
  <2>4. cs = "IDLE" /\ CmdDone /\ "CMD_DONE" \notin CTRL
    BY <2>3 DEF Served, CmdDone, Over
  <2>5. bits = 0 /\ resp = 0
    BY <1>3, <2>4 DEF Inv, CmdPlace
  <2>6. ~FLAG_CMD_RESP /\ ~FLAG_DAT_DATA
    BY <1>6, <2>1, <2>2, <2>4 DEF Inv, DatFlags, RespFlags, Writing, DatDone
  <2>7. CTRL' \subseteq {"CRCERR"}
    BY <1>1, <1>2, <1>6, <2>1, <2>3, <2>4 DEF Stored, CtrlBits, Resetting
  <2> QED
    BY <2>2, <2>3, <2>4, <2>5, <2>6, <2>7 DEF Rest, CmdDone, DatDone
<1>7. op \in {"none", "silent", "command", "long", "busy", "read", "write"}
  BY ProgramAssumption DEF Inv, Program
<1> QED
  BY <1>4, <1>5, <1>6, <1>7 DEF Simple

(* An operation that ends leaves everything at rest, so that the next one  *)
(* begins as the first one did.                                            *)
LEMMA CleanStep ==
  ASSUME Inv, Next
  PROVE  Clean'
<1>1. Moves /\ Program'
  BY SystemMoves, ProgramStep DEF Inv
<1>2. ~Committed' => todo' = {}
  BY <1>1 DEF Program, Committed, FlagNames
<1>3. CASE ~Committed /\ ~Committed'
  <2>1. /\ cs' = "IDLE" /\ ds' = "IDLE"
        /\ bits' = 0 /\ resp' = 0 /\ data' = 0 /\ held' = 0 /\ taken' = taken /\ Raised = {}
    BY <1>1, <1>3, Begins
  <2>2. /\ cs = "IDLE" /\ ds = "IDLE" /\ ~CMD.COMMIT /\ CTRL \subseteq {"CRCERR"}
        /\ ~FLAG_CMD_RESP /\ ~FLAG_DAT_DATA /\ taken = 0
    BY <1>3 DEF Inv, Clean, Over
  <2>3. CmdKept /\ Ctrl /\ RespSet /\ DataSet
    <3>1. ~Begin
      BY <1>3 DEF Begin, Committed
    <3>2. Command /\ Ctrl /\ RespSet /\ DataSet
      BY <1>3, <3>1, Kinds DEF Within
    <3> QED
      BY <3>2, CommandKept DEF Inv, Controller, Registers
  <2>4. Lasts
    BY <1>1 DEF Moves
  <2> QED
    BY <1>2, <2>1, <2>2, <2>3, <2>4 DEF Clean, Over, CmdKept, Ctrl, RespSet, DataSet, Lasts
<1>4. CASE Committed /\ ~Committed'
  <2>1. Returning /\ op # "write" /\ op # "none"
    BY <1>4, Leaves
  <2>2. /\ Rest /\ CTRL' \subseteq {"CRCERR"}
        /\ status_idle_cmd_last /\ status_idle_dat_last
        /\ ~FLAG_CMD_RESP /\ ~FLAG_DAT_DATA
    BY <2>1, ReturnState
  <2>3. /\ cs' = "IDLE" /\ ds' = "IDLE"
        /\ bits' = 0 /\ resp' = 0 /\ data' = 0 /\ held' = 0 /\ taken' = taken
    BY <1>1, <2>2, Rests
  <2>6. taken = 0
    BY <2>1 DEF Inv, Program, Writing
  <2>4. CmdKept /\ RespSet /\ DataSet
    <3>1. Command /\ RespSet /\ DataSet
      BY <2>1 DEF Returning, Stores
    <3> QED
      BY <3>1, CommandKept DEF Inv, Controller, Registers
  <2>5. Lasts
    BY <1>1 DEF Moves
  <2> QED
    BY <1>2, <2>2, <2>3, <2>4, <2>5, <2>6 DEF Clean, Rest, Over, CmdKept, RespSet, DataSet, Lasts
<1> QED
  BY <1>3, <1>4 DEF Clean

-----------------------------------------------------------------------------
(* The command.                                                            *)

(* What a card must keep for a command that reads: its response comes      *)
(* before the data stops the clock, and is over before the data is.        *)
InTime == "read" \in Operations =>
  /\ MaxRespDelay <= WordBits
  /\ ShortFirst + (ShortWords - 1) * RespBits + MaxRespDelay + TailBits <= BlockBits + 3

(* Who has started the state machine of the data.                          *)
LEMMA Owner ==
  ASSUME Inv
  PROVE  /\ ds \in ReadStates => op = "read"
         /\ ds = "WAIT_BUSY" => op = "busy"
         /\ ds \in WriteStates => Writing
         /\ ds = "TAIL" => op \in {"read", "busy"} \/ Writing
         /\ ds # "IDLE" => Committed
<1>1. ds # "IDLE" => Committed
  BY DEF Inv, Clean
<1>2. op \in {"none", "silent", "command", "long", "busy", "read", "write"}
  BY ProgramAssumption DEF Inv, Program
<1>3. op = "none" /\ Committed => Writing
  BY DEF Inv, Program, Committed, Writing
<1>4. op \in Simple => ds = "IDLE"
  BY DEF Inv, OtherOK
<1>5. op = "busy" /\ Committed => ds \in {"IDLE", "WAIT_BUSY", "TAIL"}
  BY DEF Inv, BusyOK
<1>6. op = "read" /\ Committed => ds \in {"IDLE", "TAIL"} \cup ReadStates
  BY DEF Inv, ReadOK
<1>7. Writing /\ Committed => ds \in WriteStates \cup {"IDLE", "TAIL"}
  BY DEF Inv, WriteOK, WriteShape, WriteFlags
<1>8. op = "write" => Writing
  BY DEF Writing
<1> QED
  BY <1>1, <1>2, <1>3, <1>4, <1>5, <1>6, <1>7, <1>8
     DEF Simple, ReadStates, WriteStates, Sending

(* The bits of the words that are still to come.                           *)
LEMMA Words ==
  ASSUME Inv
  PROVE  /\ Missing \in Int /\ Missing >= 0 /\ Missing <= BlockBits
         /\ dw > 0 => Missing >= WordBits
         /\ dw < BlockWords => Missing <= BlockBits - WordBits
         /\ dw = 0 => Missing = 0
         /\ dw = 1 => Missing = WordBits
         /\ dw' = dw => Missing' = Missing
         /\ dw > 0 /\ dw' = dw - 1 => Missing' = Missing - WordBits
         /\ dw' = BlockWords => Missing' = BlockBits
<1>1. dw \in 0 .. BlockWords /\ BlockWords \in 1 .. 511 /\ WordBits \in 1 .. 64
  BY Enabled, BlockAssumption
<1>2. \A b \in 1 .. 64, n \in Nat : \A w \in 0 .. n :
        /\ w * b \in Int /\ w * b >= 0
        /\ w > 0 => w * b >= b /\ (w - 1) * b = w * b - b
  OBVIOUS
<1>3. \A b \in 1 .. 64, n \in Nat : \A w \in 0 .. n : w * b <= n * b /\ (w < n => w * b <= n * b - b)
  <2>1. \A b \in 1 .. 64, n, k \in Nat : (n - k) * b = n * b - k * b /\ k * b >= 0 /\ n * b \in Int
                                        /\ k * b \in Int /\ (k > 0 => k * b >= b)
    OBVIOUS
  <2> SUFFICES ASSUME NEW b \in 1 .. 64, NEW n \in Nat, NEW w \in 0 .. n
               PROVE  w * b <= n * b /\ (w < n => w * b <= n * b - b)
    OBVIOUS
  <2>2. n - w \in Nat /\ n - (n - w) = w
    OBVIOUS
  <2>3. w * b = n * b - (n - w) * b
    BY <2>1, <2>2
  <2> QED
    BY <2>1, <2>2, <2>3
<1>4. /\ Missing \in Int /\ Missing >= 0 /\ Missing <= BlockBits
      /\ dw < BlockWords => Missing <= BlockBits - WordBits
  BY <1>1, <1>2, <1>3 DEF Missing, BlockBits
<1>5. /\ dw > 0 => Missing >= WordBits
      /\ dw > 0 /\ dw' = dw - 1 => Missing' = Missing - WordBits
  BY <1>1, <1>2 DEF Missing
<1>6. /\ dw = 0 => Missing = 0
      /\ dw = 1 => Missing = WordBits
      /\ dw' = dw => Missing' = Missing
      /\ dw' = BlockWords => Missing' = BlockBits
  BY <1>1 DEF Missing, BlockBits
<1> QED
  BY <1>4, <1>5, <1>6

(* The data does not stop the clock before the response has begun.         *)
LEMMA NoStall ==
  ASSUME InTime, Inv, Next, cs = "WAIT_RESP", cs' = "WAIT_RESP"
  PROVE  ds' \notin Stalling
<1>1. Moves
  BY SystemMoves DEF Inv
<1>2. Committed /\ ds \notin Stalling /\ (starts => CMD.DMODE = "R") /\ ~CMD.ABRT_DAT
  BY DEF Inv, Clean, CommandOK, Over
<1>3. CASE ~Normal
  BY <1>1, <1>2, <1>3 DEF Moves, DatMove, DatFrame, DatStays, Normal, Stalling
<1>4. CASE Normal
  <2>1. /\ IdleMoves /\ ReadMoves /\ BusyMoves /\ CmdMove /\ Beat
        /\ clkstrb_o /\ "RST" \notin CTRL
    BY <1>1, <1>4 DEF Moves, DatMove, Normal
  <2>2. CASE ds = "IDLE"
    BY <1>2, <2>1, <2>2 DEF IdleMoves, DatStays, Stalling
  <2>3. CASE ds = "TAIL"
    <3>1. sd_clk_en \in BOOLEAN
      BY DEF sd_clk_en
    <3> QED
      BY <2>1, <2>3, <3>1 DEF IdleMoves, DatStays, Stalling
  <2>4. CASE ds = "WAIT_BUSY"
    BY <2>1, <2>4 DEF BusyMoves, DatStays, Stalling
  <2>5. CASE ds \in WriteStates
    BY <1>2, <2>5, Owner DEF Inv, WriteOK, WriteShape, WriteFlags, Over, WriteStates, Sending
  <2>6. CASE ds \in ReadStates
    <3>1. op = "read" /\ answers /\ "read" \in Operations
      BY <2>6, Owner DEF Inv, Program
    <3>2. CASE ds = "WAIT_BLOCK"
      BY <2>1, <3>2 DEF ReadMoves, DatStays, Stalling
    <3>3. CASE ds \in {"READ_BLOCK", "READ_CRC"} /\ ds' \in Stalling
      <4>1. sd_clk_en /\ lead = 1
        <5>1. sd_clk_en
          BY <1>2, <3>3, Enabled
        <5> QED
          BY <2>1, <5>1 DEF Beat, Stand, Tick, Slow, Fast
      <4>2. resp_reg # 2
        BY <2>1 DEF CmdMove
      <4>3. \/ resp \in -MaxRespDelay .. -1
            \/ resp > 0 /\ resp_reg \in 0 .. 2 /\ resp = resp_reg + lead
        BY <1>2, <3>1 DEF Inv, CmdPlace
      <4>4. MaxRespDelay \in Nat /\ WordBits \in Nat /\ MaxRespDelay <= WordBits
        BY <3>1, ProgramAssumption, BlockAssumption DEF InTime
      <4>5. Place(resp) <= 1
        BY <4>1, <4>2, <4>3, <4>4 DEF Place
      <4>6. data \in Int /\ data >= WordBits + 1
        <5>1. /\ dw \in 0 .. BlockWords /\ db \in 0 .. 63 /\ Missing \in Int /\ Missing <= BlockBits
              /\ BlockBits \in Nat /\ BlockBits >= WordBits /\ dat_reg \in Nat /\ data \in Int
          BY Enabled, Words, BlockBitsIs DEF Inv, Controller, Registers
        <5>2. CASE ds = "READ_BLOCK"
          <6>1. db = WordBits - 1
            BY <2>1, <3>3, <4>1, <5>2 DEF ReadMoves, Stalling
          <6>2. dat_reg = BlockBits - Missing + db /\ data = Start + dat_reg + lead
            BY <1>2, <3>1, <5>2 DEF Inv, ReadOK
          <6> QED
            BY <4>1, <4>4, <5>1, <6>1, <6>2 DEF Start
        <5>3. CASE ds = "READ_CRC"
          <6>1. data = Start + BlockBits + db + lead
            BY <1>2, <3>1, <5>3 DEF Inv, ReadOK
          <6> QED
            BY <4>1, <4>4, <5>1, <6>1 DEF Start
        <5> QED
          BY <3>3, <5>2, <5>3
      <4>7. Place(data) <= RespPlace + MaxRespDelay - 2
        BY <1>2, <3>1, <4>4, <4>6 DEF Inv, Race
      <4>8. RespPlace = Place(resp)
        BY DEF RespPlace
      <4>9. Place(data) = data - 1 /\ Place(resp) \in Int
        BY <4>1, <4>3, <4>4, <4>6 DEF Place
      <4> QED
        BY <4>4, <4>5, <4>6, <4>7, <4>8, <4>9
    <3> QED
      BY <1>2, <2>6, <3>2, <3>3 DEF ReadStates, Stalling
  <2> QED
    BY <2>2, <2>3, <2>4, <2>5, <2>6, Enabled DEF DatStates
<1> QED
  BY <1>3, <1>4

(* The command register is what the operation has committed, or the abort. *)
(* This is where a response in time is needed: otherwise the data could    *)
(* stall the controller while the command waits.                           *)
LEMMA CommandStep ==
  ASSUME InTime, Inv, Next
  PROVE  CommandOK'
<1>1. Moves
  BY SystemMoves DEF Inv
<1>2. starts => cs \in {"WAIT_RESP", "TAIL"}
  BY DEF Inv, Controller, CmdShape, CmdCounts
<1>3. ds = "IDLE" /\ ~starts => ds' = "IDLE"
  BY <1>1 DEF Moves, DatMove, DatFrame, DatStays, Normal, IdleMoves
<1>4. CASE ~Committed'
  BY <1>4 DEF CommandOK
<1>5. CASE Begin
  <2>1. cs' = "IDLE" /\ ds' = "IDLE"
    BY <1>1, <1>5, Begins DEF Begin, Committed
  <2>2. Mode' = Mode /\ Response' = Response
    BY <1>5 DEF Begin, Mode, Response
  <2> QED
    BY <1>5, <2>1, <2>2 DEF Begin, CommandOK
<1>6. CASE Within /\ (Aborts \/ CMD.ABRT_DAT)
  <2>1. /\ cs \in {"IDLE", "TAIL"} /\ resp = 0 /\ ~CMD.COMMIT /\ Committed
        /\ op \in {"read", "write"} \/ at = "end"
    BY <1>6, AbortPlace DEF Within, Aborts, Inv, CommandOK
  <2>2. cs' \in {"IDLE", "TAIL"} /\ resp' = 0
    <3>1. sd_clk_en \in BOOLEAN
      BY DEF sd_clk_en
    <3> QED
      BY <1>1, <2>1, <3>1 DEF Moves, CmdMove, CmdStays, CardMove, RespMove
  <2>3. /\ CMD'.ABRT_DAT /\ CMD'.DMODE = "NONE" /\ CMD'.RMODE = "NONE" /\ ~CMD'.COMMIT
    BY <1>6 DEF Within, Aborts, CmdKept, Inv, CommandOK
  <2>4. op' \in {"read", "write"} \/ at' = "end"
    BY <1>6, <2>1 DEF Within, Aborts
  <2> QED
    BY <2>2, <2>3, <2>4 DEF CommandOK
<1>7. CASE Within /\ CmdKept /\ ~CMD.ABRT_DAT
  <2>1. /\ Committed /\ op' = op
        /\ CMD.DMODE = Mode /\ CMD.RMODE = Response
        /\ CMD.COMMIT => cs = "IDLE" /\ resp_reg = 0
        /\ (cs = "IDLE" /\ CMD.COMMIT) \/ cs = "WRITE" => ds = "IDLE"
        /\ cs = "WAIT_RESP" => (starts => CMD.DMODE = "R")
    BY <1>7 DEF Within, Inv, CommandOK
  <2>2. ~CMD'.ABRT_DAT /\ CMD'.DMODE = Mode' /\ CMD'.RMODE = Response'
    BY <1>7, <2>1 DEF CmdKept, Mode, Response
  <2>3. CMD'.COMMIT => CMD.COMMIT /\ cs' = "IDLE" /\ cs = "IDLE" /\ resp_reg' = 0
    BY <1>1, <1>7, <2>1 DEF CmdKept, Moves, CmdMove, CmdStays, Shift
  <2>4. cs' = "WRITE" => cs = "WRITE" \/ (cs = "IDLE" /\ CMD.COMMIT)
    BY <1>1, Enabled DEF Moves, CmdMove, CmdStays, CmdStates
  <2>5. cs' = "WAIT_RESP" => \/ cs = "WRITE" /\ (starts' => CMD.DMODE = "R")
                             \/ cs = "WAIT_RESP" /\ (starts' => CMD.DMODE = "R")
    BY <1>1, <1>2, <2>1, Enabled DEF Moves, CmdMove, CmdStays, CmdStates
  <2>6. cs' = "WAIT_RESP" => ds' \notin Stalling
    BY <1>2, <1>3, <2>1, <2>5, NoStall DEF Stalling
  <2> QED
    BY <1>2, <1>3, <1>7, <2>1, <2>2, <2>3, <2>4, <2>5, <2>6 DEF CommandOK, CmdKept
<1> QED
  BY <1>4, <1>5, <1>6, <1>7, Kinds DEF Within

-----------------------------------------------------------------------------
(* The words of the response.                                              *)

LEMMA FlagMoves ==
  ASSUME Inv, Next
  PROVE  /\ FLAG_CMD_RESP' => cs' = "REGOUT" /\ status_resp_cmd_last'
         /\ cs = "REGOUT" /\ ~TakesResp => (RespTaken' <=> RespTaken)
         /\ cs = "REGOUT" => status_resp_cmd_last'
         /\ cs # "REGOUT" => ~RespTaken' /\ ~FLAG_CMD_RESP'
         /\ clkstrb_o /\ cs = "REGOUT" /\ ~FLAG_CMD_RESP => RespTaken
<1>1. Moves /\ (FLAG_CMD_RESP => cs = "REGOUT" /\ status_resp_cmd_last)
  BY SystemMoves DEF Inv, RespFlags
<1>2. status_resp_cmd_last' <=> cs = "REGOUT"
  BY <1>1 DEF Moves, Lasts
<1>3. clkstrb_o /\ cs = "REGOUT" => status_resp_cmd_last
  BY DEF Inv, Controller, Settled
<1>4. cs = "REGOUT" /\ FLAG_CMD_RESP => cs' = "REGOUT"
  <2>1. cs = "REGOUT" => "RST" \notin CTRL
    BY ResetPlace
  <2> QED
    BY <1>1, <2>1 DEF Moves, CmdMove, CmdStays
<1>5. cs = "REGOUT" /\ ~clkstrb_o => cs' = "REGOUT"
  BY <1>1 DEF Moves, CmdMove, CmdStays
<1>6. DropsResp => cs = "IDLE"
  BY DEF DropsResp, Inv, CmdFlags, Over
<1>7. RespSet \/ ((TakesResp \/ DropsResp) /\ ~FLAG_CMD_RESP')
  BY Effects
<1>8. /\ FLAG_CMD_RESP' => cs' = "REGOUT" /\ status_resp_cmd_last'
      /\ cs # "REGOUT" => ~FLAG_CMD_RESP'
  BY <1>1, <1>2, <1>3, <1>4, <1>5, <1>7 DEF RespSet
<1>9. cs = "REGOUT" /\ ~TakesResp => (RespTaken' <=> RespTaken)
  BY <1>1, <1>2, <1>6, <1>7 DEF RespSet, RespTaken
<1> QED
  BY <1>2, <1>3, <1>8, <1>9 DEF RespTaken

(* got and the flags that are still to be served, in a step.               *)
LEMMA Counts ==
  ASSUME Inv, Next
  PROVE  /\ got' = got \/ (Called /\ got' = 0) \/ (TakesResp /\ got' = got + 1)
         /\ words' = words \/ (Called /\ words' = 0) \/ ((TakesData \/ PutsWord) /\ words' = words + 1)
         /\ todo' \subseteq todo \/ (Polls /\ todo' = Status \cap Polled)
         /\ TakesResp => "CMD_RESP" \notin todo'
         /\ TakesData \/ PutsWord \/ DropsData => "DAT_DATA" \notin todo'
         /\ DropsResp => todo' = {}
<1>1. CASE Paused \/ Called \/ Commits \/ Polls \/ TimesOut
  BY <1>1 DEF Paused, Called, Commits, Begin, Polls, TimesOut, Keeps, TakesResp, TakesData,
              PutsWord, Loads, DropsData, DropsResp
<1>2. CASE TakesResp \/ TakesData \/ PutsWord \/ PutsNone \/ Fetches
  BY <1>2 DEF TakesResp, TakesData, PutsWord, Loads, PutsNone, Fetches, Keeps, DropsData,
     DropsResp
<1>3. CASE Acknowledges \/ StopsBusy \/ EndsBlock \/ Resets \/ Clears \/ Returning
  BY <1>3 DEF Acknowledges, StopsBusy, EndsBlock, Resets, Clears, Returning, Stores,
              Modifications, TakesResp, TakesData, PutsWord, Loads, DropsData, DropsResp
<1>4. CASE AbortsBlock \/ WaitsIdle \/ DropsResp \/ DropsData
  BY <1>4 DEF AbortsBlock, Aborts, WaitsIdle, DropsResp, DropsData, Keeps, TakesResp, TakesData,
              PutsWord, Loads
<1> QED
  BY <1>1, <1>2, <1>3, <1>4, Steps

(* A word of the response is taken when there is one.                      *)
LEMMA TakesOne ==
  ASSUME Inv, TakesResp
  PROVE  /\ cs = "REGOUT" /\ Committed /\ ~CMD.ABRT_DAT /\ ~RespTaken /\ FLAG_CMD_RESP
         /\ got = RespWords - cw - 1 /\ RespWords \in 1 .. LongWords
<1>1. at = "CMD_RESP" /\ Committed
  BY DEF TakesResp, Committed
<1>2. "CMD_RESP" \in todo /\ FLAG_CMD_RESP
  BY <1>1 DEF Inv, Program, FlagNames, RespFlags
<1>3. cs = "REGOUT" /\ ~RespTaken
  BY <1>2 DEF Inv, RespFlags, RespTaken
<1>4. ~CMD.ABRT_DAT /\ CMD.RMODE # "NONE"
  BY <1>1, <1>3 DEF Inv, CommandOK, CmdPlace
<1>5. RespWords \in 1 .. LongWords
  BY <1>4, FirstIs DEF Inv, Controller, Registers
<1> QED
  BY <1>1, <1>2, <1>3, <1>4, <1>5 DEF Inv, RespFlags

(* The words of the response that the program has moved, against the       *)
(* counter of the command state machine.                                   *)
LEMMA RespFlagsStep ==
  ASSUME Inv, Next
  PROVE  RespFlags'
<1>1. Moves
  BY SystemMoves DEF Inv
<1>2. FLAG_CMD_RESP' => cs' = "REGOUT" /\ status_resp_cmd_last'
  BY FlagMoves
<1>3. "CMD_RESP" \in todo' => FLAG_CMD_RESP'
  <2>1. "CMD_RESP" \in todo' => FLAG_CMD_RESP
    <3>1. "CMD_RESP" \in Status => FLAG_CMD_RESP
      BY DEF Status, Inv, Controller, Registers, CtrlBits
    <3> QED
      BY <3>1, Counts DEF Inv, RespFlags
  <2>2. "CMD_RESP" \in todo' => ~TakesResp /\ ~DropsResp
    BY Counts
  <2> QED
    BY <2>1, <2>2, Effects DEF RespSet
<1>4. /\ got \in Nat /\ got <= LongWords /\ LongWords \in 1 .. 7 /\ cw \in 0 .. 7
      /\ cs \in CmdStates /\ CMD \in Commands
  BY Enabled, ResponseAssumption DEF Inv, Controller, Registers, RespFlags
<1>5. got' <= LongWords
  BY <1>4, Counts, TakesOne
<1>6. ASSUME Committed', ~CMD'.ABRT_DAT
      PROVE  /\ CMD'.COMMIT \/ cs' \in {"WRITE", "WAIT_RESP"} => got' = 0
             /\ cs' = "READ_RESP" => got' = RespWords' - cw'
             /\ cs' = "REGOUT" => got' = RespWords' - cw' - (IF RespTaken' THEN 0 ELSE 1)
             /\ cs' = "TAIL" \/ Over' => got' = IF answers' THEN RespWords' ELSE 0
  <2>1. CASE Begin
    <3>1. cs' = "IDLE" /\ CMD'.COMMIT /\ got' = 0
      BY <1>1, <2>1, Begins DEF Begin, Committed, Inv, Program
    <3> QED
      BY <3>1 DEF Over
  <2>2. CASE Within /\ CmdKept
    <3>1. /\ Committed /\ ~CMD.ABRT_DAT /\ RespWords' = RespWords /\ answers' = answers
          /\ CMD'.COMMIT <=> CMD.COMMIT /\ ~clkstrb_o
      BY <1>6, <2>2 DEF CmdKept, Within
    <3>2. /\ CMD.COMMIT \/ cs \in {"WRITE", "WAIT_RESP"} => got = 0
          /\ cs = "READ_RESP" => got = RespWords - cw
          /\ cs = "REGOUT" => got = RespWords - cw - (IF RespTaken THEN 0 ELSE 1)
          /\ cs = "TAIL" \/ Over => got = IF answers THEN RespWords ELSE 0
      BY <3>1 DEF Inv, RespFlags
    <3>3. cs # "REGOUT" => got' = got /\ ~TakesResp
      BY <3>1, TakesOne, Counts DEF Called, Committed
    <3>4. RespWords \in 0 .. 7
      BY <1>4, FirstIs
    <3>5. CmdMove
      BY <1>1 DEF Moves
    <3>6. cs = "IDLE" => cs' \in {"IDLE", "WRITE"} /\ (CMD.COMMIT <=> cs' = "WRITE" \/ CMD'.COMMIT)
      <4>1. CMD.COMMIT => "RST" \notin CTRL
        BY ResetPlace
      <4> QED
        BY <3>1, <3>5, <4>1 DEF CmdMove, CmdStays
    <3>7. CASE cs = "IDLE"
      BY <3>1, <3>2, <3>3, <3>6, <3>7 DEF Over
    <3>8. CASE cs = "WRITE"
      <4>1. /\ cs' \in {"WRITE", "WAIT_RESP"} \/ (cs' = "TAIL" /\ CMD.RMODE = "NONE")
            /\ "RST" \notin CTRL
        BY <3>5, <3>8, ResetPlace DEF CmdMove, CmdStays
      <4>2. CMD.RMODE = "NONE" => RespWords = 0
        BY DEF RespWords
      <4>3. ~CMD.COMMIT
        BY <3>1, <3>8 DEF Inv, CommandOK
      <4> QED
        BY <3>1, <3>2, <3>3, <3>8, <4>1, <4>2, <4>3 DEF Over
    <3>9. CASE cs = "WAIT_RESP"
      <4>1. cw = RespWords /\ ~CMD.COMMIT
        BY <3>1, <3>9 DEF Inv, CmdPlace, CommandOK
      <4>2. cs' = "WAIT_RESP" \/ (cs' = "READ_RESP" /\ cw' = cw) \/ (cs' = "IDLE" /\ "RST" \in CTRL)
        BY <3>5, <3>9 DEF CmdMove, CmdStays
      <4>3. "RST" \in CTRL => ~answers
        BY ResetPlace
      <4> QED
        BY <3>1, <3>2, <3>3, <3>4, <3>9, <4>1, <4>2, <4>3 DEF Over
    <3>10. CASE cs = "READ_RESP"
      <4>1. ~CMD.COMMIT /\ "RST" \notin CTRL /\ cw > 0
        BY <3>1, <3>10, ResetPlace DEF Inv, CommandOK, Controller, CmdShape, CmdCounts
      <4>2. sd_clk_en \in BOOLEAN
        BY DEF sd_clk_en
      <4>3. (cs' = "READ_RESP" /\ cw' = cw) \/ (cs' = "REGOUT" /\ cw' = cw - 1)
        BY <3>5, <3>10, <4>1, <4>2 DEF CmdMove, CmdStays
      <4>4. ~RespTaken'
        BY <3>10, FlagMoves
      <4> QED
        BY <1>4, <3>1, <3>2, <3>3, <3>4, <3>10, <4>1, <4>3, <4>4 DEF Over
    <3>11. CASE cs = "REGOUT"
      <4>1. ~CMD.COMMIT /\ "RST" \notin CTRL /\ answers
        BY <3>1, <3>11, ResetPlace DEF Inv, CommandOK, CmdPlace
      <4>2. CASE TakesResp
        <5>1. /\ got' = got + 1 /\ ~RespTaken /\ FLAG_CMD_RESP /\ ~FLAG_CMD_RESP'
              /\ status_resp_cmd_last'
          BY <3>11, <4>2, TakesOne, FlagMoves DEF TakesResp
        <5>2. cs' = "REGOUT" /\ cw' = cw
          BY <3>5, <3>11, <4>1, <5>1 DEF CmdMove, CmdStays
        <5> QED
          BY <1>4, <3>1, <3>2, <3>4, <3>11, <4>1, <5>1, <5>2 DEF Over, RespTaken
      <4>3. CASE ~TakesResp
        <5>1. got' = got /\ (RespTaken' <=> RespTaken)
          BY <3>1, <3>11, <4>3, Counts, FlagMoves DEF Called, Committed
        <5>2. \/ cs' = "REGOUT" /\ cw' = cw
              \/ clkstrb_o /\ ~FLAG_CMD_RESP /\ cw = 0 /\ cs' = "TAIL"
              \/ clkstrb_o /\ ~FLAG_CMD_RESP /\ cw # 0 /\ cs' = "READ_RESP" /\ cw' = cw
          BY <3>5, <3>11, <4>1 DEF CmdMove, CmdStays
        <5>3. clkstrb_o /\ ~FLAG_CMD_RESP => RespTaken
          BY <3>11, FlagMoves
        <5> QED
          BY <1>4, <3>1, <3>2, <3>4, <3>11, <4>1, <5>1, <5>2, <5>3 DEF Over
      <4> QED
        BY <4>2, <4>3
    <3>12. CASE cs = "TAIL"
      <4>1. ~CMD.COMMIT /\ cs' \in {"TAIL", "IDLE"}
        <5>1. sd_clk_en \in BOOLEAN
          BY DEF sd_clk_en
        <5> QED
          BY <3>1, <3>5, <3>12, <5>1 DEF Inv, CommandOK, CmdMove, CmdStays
      <4> QED
        BY <3>1, <3>2, <3>3, <3>12, <4>1 DEF Over
    <3> QED
      BY <1>4, <3>7, <3>8, <3>9, <3>10, <3>11, <3>12 DEF CmdStates
  <2> QED
    BY <1>6, <2>1, <2>2, Kinds DEF Within, Aborts
<1>7. ASSUME CMD'.ABRT_DAT, op' \in {"read", "write"}, Committed'
      PROVE  got' = ShortWords
  <2>1. Within
    BY <1>7, Kinds DEF Begin
  <2>2. Committed /\ op = op'
    BY <1>7, <2>1 DEF Within
  <2>3. CASE CMD.ABRT_DAT
    <3>1. got = ShortWords
      BY <1>7, <2>2, <2>3 DEF Inv, RespFlags
    <3>2. ~Called /\ ~TakesResp
      BY <2>2, <2>3, TakesOne DEF Called, Committed
    <3> QED
      BY <3>1, <3>2, Counts
  <2>4. CASE Aborts /\ ~CMD.ABRT_DAT
    <3>1. cs \in {"IDLE", "TAIL"} /\ ~CMD.COMMIT /\ got' = got
      BY <2>4, AbortPlace DEF Aborts
    <3>2. answers /\ CMD.RMODE = "SHORT"
      BY <1>7, <2>2, <2>4 DEF Inv, Program, CommandOK, Response
    <3>3. got = RespWords
      BY <2>2, <2>4, <3>1, <3>2 DEF Inv, RespFlags, Over
    <3> QED
      BY <3>1, <3>2, <3>3 DEF RespWords
  <2> QED
    BY <1>7, <2>1, <2>3, <2>4 DEF Within, CmdKept
<1> QED
  BY <1>2, <1>3, <1>5, <1>6, <1>7 DEF RespFlags

-----------------------------------------------------------------------------
(* The flags.                                                              *)

LEMMA RaisedIs ==
  /\ "CMD_DONE" \in Raised <=> cs = "IDLE" /\ ~status_idle_cmd_last
  /\ "DAT_DONE" \in Raised <=> ds = "IDLE" /\ ~status_idle_dat_last
  /\ "BLK_DONE" \in Raised <=> clkstrb_o /\ done
  /\ "CRCERR" \in Raised => clkstrb_o /\ done
  /\ Raised \subseteq {"CMD_DONE", "DAT_DONE", "BLK_DONE", "CRCERR"}
BY DEF Raised, cmd_idle, dat_idle, cs, ds, done

(* CTRL gains what the controller raises, except when the program stores   *)
(* it: then it loses what the program has cleared.                         *)
LEMMA CtrlMoves ==
  ASSUME Inv, Next
  PROVE  /\ Stores \/ CTRL' = CTRL \cup Raised
         /\ Stores => CTRL' = Stored /\ Stored \subseteq CTRL \cup {"RST"}
                      /\ ("RST" \in Stored => at # "CMD_DONE")
         /\ CTRL' \subseteq CTRL \cup Raised \cup {"RST"}
<1>1. Stores \/ CTRL' = CTRL \cup Raised
  BY Steps DEF Paused, Called, Commits, Begin, Polls, TimesOut, TakesResp, TakesData, PutsWord,
       PutsNone, Fetches, Acknowledges, StopsBusy, EndsBlock, Resets, Clears, Returning,
       AbortsBlock, Aborts, WaitsIdle, DropsResp, DropsData, Quietly, Ctrl
<1>2. Stored \subseteq CTRL \cup {"RST"}
  BY DEF Stored, Inv, Program
<1>3. "RST" \in Stored => at # "CMD_DONE"
  BY DEF Stored, Inv, Program, Resetting
<1> QED
  BY <1>1, <1>2, <1>3 DEF Stores

(* Where a place is reached from.                                          *)
LEMMA Whence ==
  ASSUME Inv, Next
  PROVE  /\ at' = "begin_reset" => TimesOut \/ (at = at' /\ ~Stores)
         /\ at' = "resetting" => Resets \/ at = at'
         /\ at' = "drop_resp" => at = at' \/ (at = "resetting" /\ cs = "IDLE" /\ ds = "IDLE")
         /\ at' = "drop_data" => at = at' \/ at = "drop_resp"
         /\ at' = "clear_flags" => (at = at' /\ ~Stores) \/ at = "drop_data"
         /\ at' = "end_reset" => Clears \/ (at = at' /\ ~Stores)
         /\ at' = "wait_idle" => StopsBusy \/ at = at'
         /\ at' = "abort" => EndsBlock \/ at = at'
         /\ at' = "end" => (Returning /\ op = "write") \/ at = at'
         /\ at' = "poll" => at \in FlagNames \cup {"commit", "poll", "abort"}
         /\ at' \in FlagNames => \/ at' = at /\ ~Stores
                                 \/ Turn
                                 \/ at = "wait_idle" /\ at' = "DAT_DONE" /\ cs = "IDLE" /\ ds = "IDLE"
         /\ op' = op \/ Called \/ (Returning /\ op' = "none")
<1>1. CASE Paused \/ Called \/ Commits \/ Polls \/ TimesOut
  <2>1. CASE Paused
    BY <2>1 DEF Paused, Keeps, Idles, Stores
  <2>2. CASE Called
    BY <2>2 DEF Called, FlagNames
  <2>3. CASE Commits
    BY <2>3 DEF Commits, Begin, FlagNames
  <2>4. CASE Polls
    BY <2>4 DEF Polls, Keeps, Turn, FlagNames
  <2>5. CASE TimesOut
    BY <2>5 DEF TimesOut, Keeps, FlagNames
  <2> QED
    BY <1>1, <2>1, <2>2, <2>3, <2>4, <2>5
<1>2. CASE TakesResp \/ TakesData \/ PutsWord \/ PutsNone
  BY <1>2 DEF TakesResp, TakesData, PutsWord, Loads, PutsNone, Keeps, Turn, FlagNames
<1>3. CASE Fetches
  BY <1>3 DEF Fetches, Stores, Keeps
<1>4. CASE Acknowledges \/ StopsBusy \/ EndsBlock
  BY <1>4 DEF Acknowledges, StopsBusy, EndsBlock, Turn, FlagNames
<1>5. CASE Resets \/ Clears \/ Returning
  BY <1>5 DEF Resets, Clears, Returning, FlagNames
<1>6. CASE AbortsBlock
  BY <1>6 DEF AbortsBlock, Aborts, Turn, FlagNames
<1>7. CASE WaitsIdle
  BY <1>7 DEF WaitsIdle, Keeps, FlagNames
<1>8. CASE DropsResp \/ DropsData
  BY <1>8 DEF DropsResp, DropsData, Keeps, FlagNames
<1> QED
  BY <1>1, <1>2, <1>3, <1>4, <1>5, <1>6, <1>7, <1>8, Steps

(* A command that is over stays over.                                      *)
LEMMA OverStays ==
  ASSUME Inv, Next, Over, ~Begin
  PROVE  CmdDone' /\ Over'
<1>1. Moves
  BY SystemMoves DEF Inv
<1>2. cs' = "IDLE" /\ status_idle_cmd_last'
  BY <1>1 DEF Over, Moves, CmdMove, CmdStays, Lasts
<1>3. ~CMD'.COMMIT
  BY Effects DEF Over, Aborts, CmdKept
<1> QED
  BY <1>2, <1>3 DEF Over, CmdDone

(* CMD_DONE, and the places the program reaches on it, tell that the       *)
(* command state machine is over.                                          *)
LEMMA CmdFlagsStep ==
  ASSUME Inv, Next
  PROVE  CmdFlags'
<1>1. Moves
  BY SystemMoves DEF Inv
<1>2. status_idle_cmd_last' <=> cs = "IDLE"
  BY <1>1 DEF Moves, Lasts
<1>3. Committed' /\ CMD'.COMMIT => status_idle_cmd_last'
  <2>1. CASE Begin
    BY <1>2, <2>1 DEF Begin, Committed, Inv, Clean, Over
  <2>2. CASE CmdKept
    BY <1>2, <2>2 DEF CmdKept, Inv, Clean, Over, CommandOK
  <2> QED
    BY <2>1, <2>2, Effects DEF Aborts
<1>4. Committed' /\ "CMD_DONE" \in CTRL' \cup todo' => CmdDone'
  <2>1. CASE Begin
    <3>1. CTRL \subseteq {"CRCERR"} /\ Raised = {} /\ todo' = {} /\ CTRL' = CTRL \cup Raised
      BY <1>1, <2>1, Begins DEF Begin, Committed, Ctrl, Inv, Clean
    <3> QED
      BY <3>1
  <2>2. CASE ~Begin /\ Committed' /\ "CMD_DONE" \in CTRL' \cup todo'
    <3>1. Committed
      BY <2>2, Kinds DEF Within
    <3>2. "CMD_DONE" \in CTRL \cup todo \cup Raised
      <4>1. "CMD_DONE" \in Status => "CMD_DONE" \in CTRL
        BY DEF Status
      <4> QED
        BY <2>2, <4>1, CtrlMoves, Counts
    <3>3. Over
      BY <3>1, <3>2, RaisedIs DEF Inv, CmdFlags, CmdDone, Over
    <3> QED
      BY <2>2, <3>3, OverStays
  <2> QED
    BY <2>1, <2>2
<1>5. "CMD_DONE" \in todo' => "CMD_DONE" \in CTRL'
  <2>1. CASE Stores
    <3>1. CASE Acknowledges
      BY <3>1 DEF Acknowledges
    <3>2. CASE EndsBlock
      BY <3>2 DEF EndsBlock, Inv, Program
    <3>3. todo' = {} \/ Acknowledges \/ EndsBlock \/ Turn \/ Paused \/ Fetches
      BY Steps DEF Called, Commits, Begin, Polls, TimesOut, TakesResp, TakesData, PutsWord,
           PutsNone, StopsBusy, Resets, Clears, Returning, AbortsBlock, WaitsIdle, DropsResp, DropsData
    <3>4. ~Paused /\ ~Fetches
      BY <2>1 DEF Stores, Paused, Idles, Fetches
    <3>5. CASE Turn /\ ~Acknowledges
      <4>1. Polls \/ TakesResp \/ TakesData \/ PutsWord \/ PutsNone \/ AbortsBlock \/ todo' = {} \/ EndsBlock
        BY <3>4, <3>5, Steps DEF Called, Commits, Begin, TimesOut, StopsBusy, Resets, Clears,
             Returning, WaitsIdle, DropsResp, DropsData
      <4>2. ~Polls /\ ~TakesResp /\ ~TakesData /\ ~PutsWord /\ ~PutsNone /\ ~AbortsBlock
        BY <2>1 DEF Stores, Modifications, Polls, TakesResp, TakesData, PutsWord, Loads, PutsNone,
             AbortsBlock, Aborts
      <4> QED
        BY <3>2, <4>1, <4>2
    <3> QED
      BY <3>1, <3>2, <3>3, <3>4, <3>5
  <2>2. CASE ~Stores
    <3>1. "CMD_DONE" \in Status => "CMD_DONE" \in CTRL
      BY DEF Status
    <3> QED
      BY <2>2, <3>1, Counts, CtrlMoves DEF Inv, CmdFlags
  <2> QED
    BY <2>1, <2>2
<1>6. at' \in {"drop_data", "clear_flags", "end_reset", "wait_idle", "drop_resp"} => CmdDone' /\ Over'
  <2>1. ASSUME at' \in {"drop_data", "clear_flags", "end_reset", "wait_idle", "drop_resp"}
        PROVE  Over /\ ~Begin
    <3>1. ~Begin
      BY <2>1 DEF Begin
    <3>2. StopsBusy => Over
      BY DEF StopsBusy, Inv, Program, FlagNames, CmdFlags, Committed, CmdDone
    <3>3. at = "resetting" /\ cs = "IDLE" => Over
      BY DEF Inv, CmdFlags, Over
    <3>4. at \in {"drop_data", "clear_flags", "end_reset", "wait_idle", "drop_resp"} => Over
      BY DEF Inv, CmdFlags, CmdDone
    <3>5. Clears => at = "clear_flags"
      BY DEF Clears
    <3> QED
      BY <2>1, <3>1, <3>2, <3>3, <3>4, <3>5, Whence
  <2> QED
    BY <2>1, OverStays
<1>7. op' = "busy" /\ at' \in {"wait_idle", "DAT_DONE"} => CmdDone' /\ "CMD_DONE" \notin CTRL'
  <2>1. ASSUME op' = "busy", at' \in {"wait_idle", "DAT_DONE"}
        PROVE  CmdDone' /\ "CMD_DONE" \notin CTRL'
    <3>1. op = "busy"
      BY <2>1, Whence DEF Called
    <3>2. CASE StopsBusy
      <4>1. CmdDone /\ CTRL' = Stored /\ at = "CMD_DONE"
        BY <3>2 DEF StopsBusy, Stores, Inv, Program, FlagNames, CmdFlags, Committed
      <4>2. "CMD_DONE" \notin CTRL'
        BY <3>1, <4>1 DEF Stored
      <4> QED
        BY <2>1, <4>1, <4>2, OverStays DEF CmdDone, Begin
    <3>3. CASE at \in {"wait_idle", "DAT_DONE"}
      <4>1. CmdDone /\ "CMD_DONE" \notin CTRL
        BY <3>1, <3>3 DEF Inv, CmdFlags
      <4>2. "CMD_DONE" \notin Raised
        BY <4>1, RaisedIs DEF CmdDone
      <4> QED
        BY <3>3, <4>1, <4>2, OverStays, CtrlMoves DEF CmdDone, Begin
    <3>4. CASE Turn /\ at' = "DAT_DONE"
      <4>1. at' \in todo' /\ todo' \subseteq {"CMD_RESP", "CMD_DONE"}
        BY <2>1, <3>4, ProgramStep DEF Turn, Program, Polled
      <4> QED
        BY <2>1, <3>4, <4>1
    <3> QED
      BY <2>1, <3>2, <3>3, <3>4, Whence DEF FlagNames
  <2> QED
    BY <2>1
<1>8. at' = "begin_reset" => cs' = "WAIT_RESP"
  <2>1. ASSUME at' = "begin_reset"
        PROVE  cs' = "WAIT_RESP"
    <3>1. cs = "WAIT_RESP" /\ ~answers /\ Committed /\ "RST" \notin CTRL
      BY <2>1, Whence DEF TimesOut, Inv, CmdFlags, Program, Committed, Resetting
    <3>2. resp_reg = 0
      BY <3>1 DEF Inv, CmdPlace
    <3> QED
      BY <1>1, <3>1, <3>2 DEF Moves, CmdMove, CmdStays
  <2> QED
    BY <2>1
<1>9. at' = "resetting" => cs' \in {"WAIT_RESP", "IDLE"} /\ ~CMD'.COMMIT
  <2>1. ASSUME at' = "resetting"
        PROVE  cs' \in {"WAIT_RESP", "IDLE"} /\ ~CMD'.COMMIT
    <3>1. /\ cs \in {"WAIT_RESP", "IDLE"} /\ ~answers /\ Committed
          /\ ~CMD.COMMIT /\ ~Begin
      BY <2>1, Whence DEF Resets, Inv, CmdFlags, Program, Committed, Resetting, CommandOK, Begin
    <3>2. cs = "WAIT_RESP" => resp_reg = 0
      BY <3>1 DEF Inv, CmdPlace
    <3>3. ~CMD'.COMMIT
      BY <3>1, Effects DEF Aborts, CmdKept
    <3> QED
      BY <1>1, <3>1, <3>2, <3>3 DEF Moves, CmdMove, CmdStays
  <2> QED
    BY <2>1
<1>10. at' = "end_reset" => "CMD_DONE" \notin CTRL'
  <2>1. ASSUME at' = "end_reset"
        PROVE  "CMD_DONE" \notin CTRL'
    <3>1. CASE Clears
      BY <3>1 DEF Clears, Stores, Stored
    <3>2. CASE at = "end_reset"
      <4>1. CmdDone /\ "CMD_DONE" \notin CTRL
        BY <3>2 DEF Inv, CmdFlags
      <4>2. "CMD_DONE" \notin Raised
        BY <4>1, RaisedIs DEF CmdDone
      <4> QED
        BY <4>1, <4>2, CtrlMoves
    <3> QED
      BY <2>1, <3>1, <3>2, Whence
  <2> QED
    BY <2>1
<1>11. op' \in {"command", "long"} /\ ~answers' /\ at' \in {"poll", "CMD_RESP", "CMD_DONE"} =>
         ~Over' /\ cs' # "TAIL"
  <2>1. ASSUME op' \in {"command", "long"}, ~answers', at' \in {"poll", "CMD_RESP", "CMD_DONE"}
        PROVE  ~Over' /\ cs' # "TAIL"
    <3>1. CASE Begin
      <4>1. cs' = "IDLE" /\ CMD'.COMMIT
        BY <1>1, <3>1, Begins DEF Begin, Committed
      <4> QED
        BY <4>1 DEF Over
    <3>2. CASE ~Begin
      <4>1. Committed'
        BY <2>1 DEF Committed
      <4>2. Within
        BY <3>2, <4>1, Kinds
      <4>3. op' = op /\ answers' = answers /\ Committed
        BY <2>1, <4>2 DEF Within
      <4>4. at \in {"poll", "CMD_RESP", "CMD_DONE"}
        <5>3. at \in {"commit", "poll", "CMD_RESP", "CMD_DONE"} \cup Resetting
          BY <2>1, <4>3 DEF Inv, Program, Simple
        <5>4. at # "commit"
          BY <4>3 DEF Committed
        <5>5. at \notin Resetting \/ at' = at
          BY <2>1, Steps DEF Paused, Called, Commits, Begin, Polls, TimesOut, TakesResp,
             TakesData,
               PutsWord, Loads, PutsNone, Fetches, Acknowledges, StopsBusy, EndsBlock,
               Resets, Clears, Returning, AbortsBlock, Aborts, WaitsIdle, DropsResp, DropsData, Resetting
        <5> QED
          BY <2>1, <5>3, <5>4, <5>5
      <4>5. ~Over /\ cs # "TAIL" /\ "RST" \notin CTRL
        BY <2>1, <4>3, <4>4 DEF Inv, CmdFlags, Program, Resetting
      <4>6. ~CMD.ABRT_DAT /\ CMD.RMODE = Response /\ CmdKept
        BY <2>1, <4>2, <4>3, <4>4 DEF Inv, CommandOK, Within, Aborts, Simple
      <4>7. CMD.RMODE # "NONE"
        BY <2>1, <4>3, <4>6 DEF Response
      <4>8. cs \notin {"READ_RESP", "REGOUT"} /\ (cs = "WAIT_RESP" => resp_reg = 0)
        BY <2>1, <4>3 DEF Inv, CmdPlace
      <4>9. cs' \in {"WRITE", "WAIT_RESP"} \/ (cs' = "IDLE" /\ ~clkstrb_o /\ cs = "IDLE")
        BY <1>1, <4>5, <4>7, <4>8, Enabled DEF Moves, CmdMove, CmdStays, Over, CmdStates
      <4> QED
        BY <4>5, <4>6, <4>9 DEF Over, CmdKept
    <3> QED
      BY <3>1, <3>2
  <2> QED
    BY <2>1
<1> QED
  BY <1>3, <1>4, <1>5, <1>6, <1>7, <1>8, <1>9, <1>10, <1>11 DEF CmdFlags


(* How the state machine of the data comes to rest.                        *)
LEMMA IdleFrom ==
  ASSUME Inv, Next
  PROVE  /\ ds' = "IDLE" => ds \in {"IDLE", "TAIL"}
         /\ ds = "IDLE" /\ (~starts \/ CMD.DMODE = "NONE") => ds' = "IDLE"
         /\ done' => (done /\ ~clkstrb_o) \/ ds \in {"READ_FINISH", "WRITE_BUSY"}
         /\ status_data_dat_last' <=> ds \in {"REGOUT", "WRITE_REGIN"}
         /\ status_idle_dat_last' <=> ds = "IDLE"
<1>1. Moves /\ ("RST" \in CTRL => ds = "IDLE")
  BY SystemMoves, ResetPlace DEF Inv
<1>2. ds \in DatStates
  BY Enabled
<1>3. CASE ~Normal
  BY <1>1, <1>2, <1>3 DEF Moves, DatMove, DatFrame, DatStays, Normal, Lasts
<1>4. CASE Normal
  <2>1. DatFrame /\ IdleMoves /\ ReadMoves /\ BusyMoves /\ WriteMoves /\ Lasts
    BY <1>1, <1>4 DEF Moves, DatMove
  <2>2. sd_clk_en \in BOOLEAN
    BY DEF sd_clk_en
  <2>3. CASE ds \in {"IDLE", "TAIL", "WAIT_BUSY"}
    BY <1>4, <2>1, <2>2, <2>3 DEF DatFrame, IdleMoves, BusyMoves, DatStays, Lasts
  <2>4. CASE ds \in ReadStates
    BY <1>4, <2>1, <2>2, <2>4 DEF DatFrame, ReadMoves, DatStays, ReadStates, Lasts
  <2>5. CASE ds \in WriteStates
    <3>1. ds' # "IDLE"
      BY <2>1, <2>2, <2>5 DEF WriteMoves, DatStays, WriteStates, Sending
    <3> QED
      BY <1>4, <2>1, <2>5, <3>1 DEF DatFrame, WriteStates, Sending, Lasts
  <2> QED
    BY <1>2, <2>3, <2>4, <2>5 DEF DatStates
<1> QED
  BY <1>3, <1>4

(* DAT_DATA and DAT_DONE, and the places the program reaches on them, tell *)
(* where the data state machine is.                                        *)
LEMMA DatFlagsStep ==
  ASSUME Inv, Next
  PROVE  DatFlags'
<1>1. Moves
  BY SystemMoves DEF Inv
<1>2. /\ ds' = "IDLE" => ds \in {"IDLE", "TAIL"}
      /\ ds = "IDLE" /\ (~starts \/ CMD.DMODE = "NONE") => ds' = "IDLE"
      /\ done' => (done /\ ~clkstrb_o) \/ ds \in {"READ_FINISH", "WRITE_BUSY"}
      /\ status_data_dat_last' <=> ds \in {"REGOUT", "WRITE_REGIN"}
      /\ status_idle_dat_last' <=> ds = "IDLE"
  BY IdleFrom
<1>3. FLAG_DAT_DATA' => FLAG_DAT_DATA \/ (ds \in {"REGOUT", "WRITE_REGIN"} /\ ~status_data_dat_last)
  BY Effects DEF DataSet
<1>4. FLAG_DAT_DATA' => Within
  <2>1. CASE ~Committed
    BY <1>3, <2>1 DEF Inv, Clean
  <2>2. CASE Committed /\ ~Committed'
    <3>1. ds = "IDLE" /\ ~FLAG_DAT_DATA
      BY <2>2, Leaves, ReturnState DEF Rest
    <3> QED
      BY <1>3, <3>1
  <2>3. CASE Committed /\ Committed'
    BY <2>3, Kinds DEF Begin, Committed
  <2> QED
    BY <2>1, <2>2, <2>3
<1>5. Writing /\ words = BlockWords /\ Within =>
        Writing' /\ words' = BlockWords /\ (CMD.ABRT_DAT => CMD'.ABRT_DAT)
  <2>1. ASSUME Writing, words = BlockWords, Within
        PROVE  ~TakesData /\ ~PutsWord /\ ~Called
    <3>1. BlockWords \in Nat
      BY BlockAssumption
    <3>2. ~TakesData /\ ~Called
      BY <2>1 DEF TakesData, Called, Writing, Within, Committed
    <3> QED
      BY <2>1, <3>1, <3>2 DEF PutsWord, Loads
  <2>2. Writing /\ words = BlockWords /\ Within => words' = words
    BY <2>1, Counts
  <2> QED
    BY <2>2 DEF Within, Writing, CmdKept, Aborts
<1>6. FLAG_DAT_DATA' => \/ ds' \in {"REGOUT", "WRITE_REGIN"} /\ status_data_dat_last'
                        \/ Writing' /\ words' = BlockWords /\ CMD'.ABRT_DAT
  <2>1. CASE Writing /\ words = BlockWords /\ CMD.ABRT_DAT
    BY <1>4, <1>5, <2>1
  <2>2. CASE ds \in {"REGOUT", "WRITE_REGIN"} /\ FLAG_DAT_DATA' /\ clkstrb_o /\ ds' # ds
    <3>1. status_data_dat_last /\ FLAG_DAT_DATA /\ "RST" \notin CTRL
      BY <1>3, <2>2, ResetPlace DEF Inv, Controller, Settled
    <3>2. CASE CMD.ABRT_DAT
      <4>1. Writing /\ words = BlockWords
        BY <2>2, <3>2, AbortState
      <4> QED
        BY <1>4, <1>5, <3>2, <4>1
    <3>3. CASE ~CMD.ABRT_DAT
      BY <1>1, <2>2, <3>1, <3>3 DEF Moves, DatMove, Normal, ReadMoves, WriteMoves, DatStays
    <3> QED
      BY <3>2, <3>3
  <2>3. CASE ds \in {"REGOUT", "WRITE_REGIN"} /\ (~clkstrb_o \/ ds' = ds)
    BY <1>1, <1>2, <2>3 DEF Moves, DatMove, DatFrame, DatStays
  <2>4. FLAG_DAT_DATA' => \/ ds \in {"REGOUT", "WRITE_REGIN"}
                          \/ Writing /\ words = BlockWords /\ CMD.ABRT_DAT
    BY <1>3 DEF Inv, DatFlags
  <2> QED
    BY <2>1, <2>2, <2>3, <2>4
<1>7. "DAT_DATA" \in todo' => FLAG_DAT_DATA'
  <2>1. "DAT_DATA" \in todo' => FLAG_DAT_DATA
    <3>1. "DAT_DATA" \in Status => FLAG_DAT_DATA
      BY DEF Status, Inv, Controller, Registers, CtrlBits
    <3> QED
      BY <3>1, Counts DEF Inv, DatFlags
  <2>2. "DAT_DATA" \in todo' => ~TakesData /\ ~PutsWord /\ ~DropsData
    BY Counts
  <2> QED
    BY <2>1, <2>2, Effects DEF DataSet
<1>8. Begin => CTRL' \subseteq {"CRCERR"} /\ todo' = {} /\ ds = "IDLE" /\ ds' = "IDLE" /\ ~done'
  BY <1>1, Begins DEF Begin, Committed, Ctrl, Inv, Clean
<1>9. Committed' /\ "DAT_DONE" \in CTRL' \cup todo' =>
        DatDone' /\ (op' = "busy" \/ CMD'.ABRT_DAT)
  <2>1. ASSUME Within, "DAT_DONE" \in CTRL' \cup todo'
        PROVE  DatDone' /\ (op' = "busy" \/ CMD'.ABRT_DAT)
    <3>1. "DAT_DONE" \in CTRL \cup todo \cup Raised /\ Committed
      <4>1. "DAT_DONE" \in Status => "DAT_DONE" \in CTRL
        BY DEF Status
      <4> QED
        BY <2>1, <4>1, CtrlMoves, Counts DEF Within
    <3>2. ds = "IDLE" /\ (op = "busy" \/ CMD.ABRT_DAT)
      BY <3>1, RaisedIs DEF Inv, DatFlags, DatDone
    <3>3. ~starts \/ CMD.DMODE = "NONE"
      <4>1. CASE CMD.ABRT_DAT
        BY <3>1, <4>1 DEF Inv, CommandOK
      <4>2. CASE op = "busy" /\ starts
        <5>1. "DAT_DONE" \notin CTRL /\ status_idle_dat_last
          BY <3>1, <4>2 DEF Inv, BusyOK
        <5>2. "DAT_DONE" \notin todo
          BY <4>2 DEF Inv, Program, Polled
        <5> QED
          BY <3>1, <5>1, <5>2, RaisedIs
      <4> QED
        BY <3>2, <4>1, <4>2
    <3>4. DatDone'
      BY <1>2, <3>2, <3>3 DEF DatDone
    <3>5. op' = "busy" \/ CMD'.ABRT_DAT
      BY <2>1, <3>2 DEF Within, CmdKept, Aborts
    <3> QED
      BY <3>4, <3>5
  <2> QED
    BY <1>8, <2>1, Kinds
<1>10. Committed' /\ ds' = "IDLE" /\ ~CMD'.ABRT_DAT /\ op' # "busy" => status_idle_dat_last'
  <2>1. ASSUME Within, ds' = "IDLE", ~CMD'.ABRT_DAT, op' # "busy"
        PROVE  ds = "IDLE"
    <3>1. op # "busy" /\ ~CMD.ABRT_DAT /\ Committed
      BY <2>1 DEF Within, CmdKept, Aborts
    <3>2. ds # "TAIL"
      BY <3>1, Owner DEF Inv, ReadOK, WriteOK, WriteShape, WriteFlags
    <3> QED
      BY <1>2, <2>1, <3>2
  <2> QED
    BY <1>2, <1>8, <2>1, Kinds
<1>11. op' = "busy" /\ at' = "DAT_DONE" => DatDone'
  <2>1. ASSUME op' = "busy", at' = "DAT_DONE"
        PROVE  DatDone'
    <3>1. op = "busy"
      BY <2>1, Whence DEF Called
    <3>2. CASE at = "DAT_DONE"
      <4>1. ds = "IDLE" /\ cs = "IDLE"
        BY <3>1, <3>2 DEF Inv, CmdFlags, DatFlags, DatDone, CmdDone, Over
      <4>2. ~starts
        BY <4>1 DEF Inv, Controller, CmdShape, CmdCounts
      <4> QED
        BY <1>2, <4>1, <4>2 DEF DatDone
    <3>3. CASE at = "wait_idle" /\ cs = "IDLE" /\ ds = "IDLE"
      <4>1. ~starts
        BY <3>3 DEF Inv, Controller, CmdShape, CmdCounts
      <4> QED
        BY <1>2, <3>3, <4>1 DEF DatDone
    <3>4. CASE Turn
      <4>1. at' \in todo' /\ todo' \subseteq {"CMD_RESP", "CMD_DONE"}
        BY <2>1, <3>4, ProgramStep DEF Turn, Program, Polled
      <4> QED
        BY <2>1, <3>4, <4>1
    <3> QED
      BY <2>1, <3>2, <3>3, <3>4, Whence DEF FlagNames
  <2> QED
    BY <2>1
<1>12. op' \notin {"read", "write"} /\ at' # "end" => ~done' /\ "BLK_DONE" \notin CTRL'
  <2>1. ASSUME Within, op' \notin {"read", "write"}, at' # "end"
        PROVE  ~done' /\ "BLK_DONE" \notin CTRL'
    <3>1. op' = op /\ op \notin {"read", "write"} /\ at # "end"
      BY <2>1 DEF Within
    <3>2. ~done /\ "BLK_DONE" \notin CTRL
      BY <3>1 DEF Inv, DatFlags
    <3>3. ds \notin {"READ_FINISH", "WRITE_BUSY"}
      BY <3>1, Owner DEF ReadStates, WriteStates, Writing
    <3> QED
      BY <1>2, <3>2, <3>3, CtrlMoves, RaisedIs
  <2>2. CASE ~Committed'
    <3>1. CTRL' \subseteq {"CRCERR"} /\ ds' = "IDLE" /\ DatShape'
      BY <2>2, CleanStep, SystemMoves DEF Clean, Inv
    <3> QED
      BY <3>1 DEF DatShape, DatCounts
  <2> QED
    BY <1>8, <2>1, <2>2, Kinds
<1> QED
  BY <1>6, <1>7, <1>9, <1>10, <1>11, <1>12 DEF DatFlags

(* An operation without data leaves the data state machine alone.          *)
LEMMA OtherOKStep ==
  ASSUME Inv, Next
  PROVE  OtherOK'
<1>1. Moves
  BY SystemMoves DEF Inv
<1> SUFFICES ASSUME op' \in Simple
             PROVE  ds' = "IDLE" /\ data' = 0 /\ held' = 0 /\ words' = 0
  BY DEF OtherOK
<1>2. CASE Called
  BY <1>1, <1>2, Begins DEF Called, Committed
<1>3. CASE ~Called
  <2>1. op' = op
    BY <1>3, Whence DEF Simple
  <2>2. ds = "IDLE" /\ data = 0 /\ held = 0 /\ words = 0
    BY <2>1 DEF Inv, OtherOK
  <2>3. words' = 0
    BY <1>3, <2>1, <2>2, Counts DEF TakesData, PutsWord, Loads, Simple
  <2>4. data' = 0 /\ held' = 0
    <3>1. ~Asked /\ ~Replied /\ ~Ended
      BY <2>1, <2>2 DEF Asked, Replied, Ended, Simple
    <3> QED
      BY <1>1, <2>2, <3>1 DEF Moves, CardMove, DataMove
  <2>5. ~starts \/ CMD.DMODE = "NONE"
    <3>1. CASE Committed
      BY <2>1, <3>1 DEF Inv, CommandOK, Mode, Simple
    <3>2. CASE ~Committed
      BY <3>2 DEF Inv, Clean, Over, Controller, CmdShape, CmdCounts
    <3> QED
      BY <3>1, <3>2
  <2> QED
    BY <2>2, <2>3, <2>4, <2>5, IdleFrom
<1> QED
  BY <1>2, <1>3

-----------------------------------------------------------------------------
(* A read block.                                                           *)

(* The hardware in a step within a block that is read.                     *)
ReadFrame ==
  /\ Committed /\ op = "read" /\ Committed' /\ op' = "read" /\ answers /\ "read" \in Operations
  /\ Late' <=> Late
  /\ held = 0 /\ held' = 0 /\ ~drives'
  /\ ~CMD.ABRT_DAT /\ ~CMD'.ABRT_DAT /\ (CMD'.COMMIT <=> CMD.COMMIT /\ ~clkstrb_o)
  /\ CMD.DMODE = "R" /\ CMD.RMODE = "SHORT"
  /\ ds \in {"IDLE"} \cup ReadStates
  /\ ~clkstrb_o => /\ CmdStays /\ DatStays /\ SameRegister /\ starts' = starts
                   /\ done' = done /\ dat_reg' = dat_reg
  /\ clkstrb_o => /\ IdleMoves /\ ReadMoves
                  /\ done' <=> ds = "READ_FINISH"
  /\ dat_reg' = IF ~runs' \/ ~runs THEN 0
                ELSE IF ~(Shift /\ shifts) THEN dat_reg
                ELSE IF ~reads THEN dat_reg + 1
                ELSE IF data > Start THEN data - Start ELSE 0
  /\ IsLow(dat_line) <=> data = Start

DataSteps ==
  /\ data' \in Int
  /\ ~Edge => data' = data
  /\ Edge /\ Asked => data' <= -2
  /\ Edge /\ ~Asked => /\ data < -1 => data' = data + 1
                       /\ data = -1 => data' = Start
                       /\ data \in {0, LastDataBit} => data' = 0
                       /\ data > 0 /\ data # LastDataBit => data' = data + 1

(* What a clock can do while a block is read.                              *)
LEMMA Reading ==
  ASSUME Inv, Next, Within, op' = "read", CmdKept, ~CMD.ABRT_DAT
  PROVE  ReadFrame /\ DataSteps
<1>1. Moves /\ data \in Int /\ dat_reg \in Nat
  BY SystemMoves DEF Inv, Controller, Registers
<1>2. /\ Committed /\ op = "read" /\ Committed' /\ op' = "read" /\ answers /\ "read" \in Operations
      /\ ~CMD'.ABRT_DAT /\ (CMD'.COMMIT <=> CMD.COMMIT /\ ~clkstrb_o)
  BY DEF Within, CmdKept, Inv, Program
<1>3. CMD.DMODE = "R" /\ CMD.RMODE = "SHORT"
  BY <1>2 DEF Inv, CommandOK, Mode, Response
<1>4. /\ held = 0 /\ ~drives /\ ds \in {"IDLE"} \cup ReadStates
  BY <1>2 DEF Inv, ReadOK
<1>5. "RST" \notin CTRL
  BY <1>2, ResetPlace DEF Simple
<1>6. clkstrb_o => Normal
  BY <1>5 DEF Normal
<1>7. /\ ~clkstrb_o => /\ CmdStays /\ DatStays /\ SameRegister /\ starts' = starts
                       /\ done' = done
      /\ clkstrb_o => /\ IdleMoves /\ ReadMoves
                      /\ done' <=> ds = "READ_FINISH"
  BY <1>1, <1>4, <1>6 DEF Moves, DatMove, DatFrame, CmdMove, CmdStays, ReadStates
<1>8. ~drives'
  <2>1. CASE ~clkstrb_o
    BY <1>1, <1>4, <2>1 DEF Moves, DatMove, DatFrame, SameOutput
  <2>2. CASE clkstrb_o
    BY <1>3, <1>4, <1>7, <2>2 DEF IdleMoves, ReadMoves, SameOutput
  <2> QED
    BY <2>1, <2>2
<1>9. dat_line = IF data > 0 THEN data ELSE 0
  BY <1>4 DEF dat_line, High
<1>10. IsLow(dat_line) <=> data = Start
  BY <1>1, <1>9 DEF IsLow, Start, Low
<1>11. dat_reg' = IF ~runs' \/ ~runs THEN 0
                  ELSE IF ~(Shift /\ shifts) THEN dat_reg
                  ELSE IF ~reads THEN dat_reg + 1
                  ELSE IF data > Start THEN data - Start ELSE 0
  <2>1. Data
    BY <1>2 DEF Within, Loads
  <2> QED
    BY <1>1, <1>9, <2>1 DEF Data, Start
<1>12. ~clkstrb_o => dat_reg' = dat_reg
  <2>1. ~runs => dat_reg = 0
    BY DEF Inv, Controller, Registers
  <2> QED
    BY <1>7, <1>11, <2>1 DEF Shift, SameRegister
<1>13. ~Replied /\ ~Ended
  BY <1>2, <1>4 DEF Replied, Ended
<1>14. DataMove
  BY <1>1 DEF Moves, CardMove
<1>15. DataSteps /\ held' = 0
  <2>1. CASE ~Edge
    BY <1>1, <1>4, <1>14, <2>1 DEF DataSteps, DataMove
  <2>2. CASE Edge /\ Asked
    BY <1>14, <2>2 DEF DataSteps, DataMove
  <2>3. CASE Edge /\ ~Asked
    <3>1. LastDataBit \in Int /\ LastDataBit > 0 /\ Start = 1
      BY BlockBitsIs DEF Start
    <3> QED
      BY <1>1, <1>2, <1>4, <1>13, <1>14, <2>3, <3>1 DEF DataSteps, DataMove
  <2> QED
    BY <2>1, <2>2, <2>3
<1>16. Late' <=> Late
  BY <1>1 DEF Moves, Beat
<1> QED
  BY <1>2, <1>3, <1>4, <1>7, <1>8, <1>10, <1>11, <1>12, <1>15, <1>16 DEF ReadFrame

(* The command of a block that is read.                                    *)
LEMMA ReadIdle ==
  ASSUME Inv, Moves, ReadFrame, DataSteps, ds = "IDLE"
  PROVE  ReadOK'
<1>1. /\ data \in Int /\ Beat /\ CmdMove /\ CmdBits \in 1 .. 64 /\ bits \in Nat /\ cb \in 0 .. 63
      /\ "RST" \notin CTRL
  BY ResponseAssumption, Enabled, ResetPlace DEF Moves, Inv, Controller, Registers, ReadFrame,
     Simple
<1>2. sd_clk_en <=> cs # "IDLE" /\ cs # "REGOUT"
  BY Enabled DEF Stalling
<1>3. ~done'
  BY DEF ReadFrame, Inv, Controller, DatShape, DatCounts
<1>4. /\ Committed' /\ op' = "read" /\ held' = 0 /\ ~drives' /\ ~CMD'.ABRT_DAT
      /\ CMD'.COMMIT <=> CMD.COMMIT /\ ~clkstrb_o
      /\ Late' <=> Late
  BY DEF ReadFrame
<1>5. \/ CMD.COMMIT /\ data = 0
      \/ cs = "WRITE" /\ IF Clocked = CmdBits THEN data <= -2 ELSE data = 0
      \/ cs = "WAIT_RESP" /\ starts /\ data <= lead - 2
  BY DEF Inv, ReadOK, ReadFrame
<1>6. CASE CMD.COMMIT
  <2>1. cs = "IDLE" /\ data = 0 /\ ~starts
    BY <1>5, <1>6 DEF ReadFrame, Inv, CommandOK, Controller, CmdShape, CmdCounts
  <2>2. data' = 0 /\ ds' = "IDLE"
    <3>1. ~Edge
      BY <1>1, <1>2, <2>1 DEF Beat, Stand, Tick, Slow, Fast
    <3> QED
      BY <2>1, <3>1, IdleFrom DEF DataSteps, ReadFrame, DatStays, IdleMoves
  <2>3. CASE ~clkstrb_o
    BY <1>3, <1>4, <1>6, <2>2, <2>3 DEF ReadOK, ReadStates
  <2>4. CASE clkstrb_o
    <3>1. cs' = "WRITE" /\ cb' = 0
      BY <1>1, <1>6, <2>1, <2>4 DEF CmdMove
    <3>2. Clocked' = 0
      BY <1>1, <1>4, <2>4, <3>1 DEF Clocked, Beat, Stand, Tick, Slow, Fast
    <3> QED
      BY <1>1, <1>3, <1>4, <2>2, <3>1, <3>2 DEF ReadOK, ReadStates
  <2> QED
    BY <2>3, <2>4
<1>7. CASE cs = "WRITE" /\ ~CMD.COMMIT
  <2>1. /\ cb < CmdBits /\ ~starts /\ sd_clk_en
        /\ bits = IF Clocked = CmdBits THEN 0 ELSE Clocked
        /\ IF Clocked = CmdBits THEN data <= -2 ELSE data = 0
    BY <1>2, <1>5, <1>7 DEF Inv, ReadFrame, Controller, CmdShape, CmdCounts, CmdPlace
  <2>2. ds' = "IDLE"
    BY <2>1 DEF ReadFrame, DatStays, IdleMoves
  <2>3. Asked <=> bits + 1 = CmdBits
    BY <1>7 DEF Asked, ReadFrame
  <2>4. CASE Stand
    <3>1. data' = data /\ cs' = cs /\ Clocked' = Clocked
      BY <1>4, <2>4 DEF Stand, ReadFrame, DataSteps, CmdStays, Clocked
    <3> QED
      BY <1>3, <1>4, <1>7, <2>1, <2>2, <3>1 DEF ReadOK, ReadStates
  <2>5. CASE Tick
    <3>1. cs' = cs /\ Clocked = cb /\ Clocked' = cb + 1 /\ Edge
      BY <1>1, <1>4, <2>5 DEF Tick, ReadFrame, CmdStays, Clocked
    <3>2. IF Clocked' = CmdBits THEN data' <= -2 ELSE data' = 0
      BY <1>1, <2>1, <2>3, <3>1 DEF DataSteps
    <3> QED
      BY <1>3, <1>4, <1>7, <2>2, <3>1, <3>2 DEF ReadOK, ReadStates
  <2>6. CASE Slow
    <3>1. data' = data /\ Clocked = cb + 1 /\ lead' = 0 /\ ~Late
      BY <1>1, <2>1, <2>6 DEF Slow, DataSteps, Clocked
    <3>2. CASE cb # CmdBits - 1
      <4>1. cs' = "WRITE" /\ Clocked' = Clocked
        BY <1>1, <1>4, <1>7, <2>1, <2>6, <3>1, <3>2 DEF Slow, CmdMove, Clocked
      <4> QED
        BY <1>3, <1>4, <2>1, <2>2, <3>1, <4>1 DEF ReadOK, ReadStates
    <3>3. CASE cb = CmdBits - 1
      <4>1. cs' = "WAIT_RESP" /\ starts' /\ data' <= -2
        BY <1>1, <1>7, <2>1, <2>6, <3>1, <3>3 DEF Slow, CmdMove, ReadFrame
      <4> QED
        BY <1>3, <1>4, <2>2, <3>1, <4>1 DEF ReadOK, ReadStates
    <3> QED
      BY <3>2, <3>3
  <2>7. CASE Fast
    <3>1. Edge /\ Clocked = cb /\ lead' = 1 /\ Late /\ data = 0 /\ bits = cb
      BY <1>1, <2>1, <2>7 DEF Fast, Clocked
    <3>2. CASE cb # CmdBits - 1
      <4>1. cs' = "WRITE" /\ Clocked' = cb + 1 /\ data' = 0
        BY <1>1, <1>4, <1>7, <2>1, <2>3, <2>7, <3>1, <3>2 DEF Fast, CmdMove, Clocked, DataSteps
      <4>2. Clocked' # CmdBits
        BY <1>1, <3>2, <4>1
      <4> QED
        BY <1>3, <1>4, <2>2, <4>1, <4>2 DEF ReadOK, ReadStates
    <3>3. CASE cb = CmdBits - 1
      <4>1. cs' = "WAIT_RESP" /\ starts' /\ data' <= -2
        BY <1>1, <1>7, <2>1, <2>3, <2>7, <3>1, <3>3 DEF Fast, CmdMove, ReadFrame, DataSteps
      <4>2. data' <= lead' - 2
        BY <3>1, <4>1 DEF DataSteps
      <4> QED
        BY <1>3, <1>4, <2>2, <4>1, <4>2 DEF ReadOK, ReadStates
    <3> QED
      BY <3>2, <3>3
  <2> QED
    BY <1>1, <2>4, <2>5, <2>6, <2>7 DEF Beat
<1>8. CASE cs = "WAIT_RESP"
  <2>1. starts /\ data <= lead - 2 /\ sd_clk_en /\ ~CMD.COMMIT
    BY <1>2, <1>5, <1>8 DEF Inv, CommandOK, ReadFrame
  <2>2. ~Asked
    BY <1>8 DEF Asked
  <2>3. CASE Stand
    <3>1. data' = data /\ cs' = cs /\ starts' = starts /\ ds' = ds /\ lead' = lead
      BY <2>3 DEF Stand, ReadFrame, DataSteps, CmdStays, DatStays
    <3> QED
      BY <1>3, <1>4, <1>8, <2>1, <3>1 DEF ReadOK, ReadStates
  <2>4. CASE Tick
    <3>1. cs' = cs /\ starts' = starts /\ ds' = ds /\ lead' = 1 /\ data' <= -1
      BY <1>1, <2>1, <2>2, <2>4 DEF Tick, ReadFrame, DataSteps, CmdStays, DatStays
    <3> QED
      BY <1>3, <1>4, <1>8, <2>1, <3>1 DEF ReadOK, ReadStates
  <2>5. CASE Slow \/ Fast
    <3>1. /\ ds' = "WAIT_BLOCK" /\ shifts' /\ reads' /\ runs'
      BY <2>1, <2>5 DEF Slow, Fast, ReadFrame, IdleMoves
    <3>2. data' <= 0 \/ (data' = Start /\ lead' = 1)
      BY <1>1, <2>1, <2>2, <2>5 DEF Slow, Fast, DataSteps
    <3> QED
      BY <1>3, <1>4, <3>1, <3>2 DEF ReadOK, ReadStates
  <2> QED
    BY <1>1, <2>3, <2>4, <2>5 DEF Beat
<1> QED
  BY <1>5, <1>6, <1>7, <1>8

(* A block that the card is about to send, or has sent.                    *)
LEMMA ReadWait ==
  ASSUME Inv, Moves, ReadFrame, DataSteps, ds = "WAIT_BLOCK"
  PROVE  ReadOK'
<1>1. /\ data \in Int /\ Beat /\ Start = 1 /\ LastDataBit \in Int /\ LastDataBit > Start
      /\ BlockBits \in Nat
  BY BlockBitsIs DEF Moves, Inv, Controller, Registers, Start
<1>2. reads /\ shifts /\ runs /\ (done => ~Before) /\ cs # "WRITE"
  BY DEF Inv, ReadOK, ReadFrame, ReadStates, CommandOK
<1>3. \/ data <= 0
      \/ data = Start /\ lead = 1
      \/ data = LastDataBit /\ lead = 0 /\ done
  BY DEF Inv, ReadOK, ReadFrame
<1>4. data = LastDataBit => sd_clk_en
  <2>1. data = LastDataBit => cs = "IDLE"
    BY <1>1 DEF Inv, ReadFlags, ReadFrame, Moved, Before, Served, CmdDone, Over
  <2> QED
    BY <2>1, Enabled DEF Stalling
<1>5. ~Asked
  BY <1>2 DEF Asked
<1>6. /\ Committed' /\ op' = "read" /\ held' = 0 /\ ~drives' /\ ~CMD'.ABRT_DAT
      /\ Late' <=> Late
  BY DEF ReadFrame
<1>7. CASE ~clkstrb_o
  <2>1. /\ ds' = "WAIT_BLOCK" /\ reads' /\ shifts' /\ runs' /\ (done' <=> done)
    BY <1>2, <1>7 DEF ReadFrame, DatStays, SameRegister
  <2>2. CASE Stand
    <3>1. data' = data /\ lead' = lead
      BY <2>2 DEF Stand, DataSteps
    <3>2. (done' => ~Before')
      BY <1>2, <2>1, <3>1 DEF Before
    <3> QED
      BY <1>3, <1>6, <2>1, <3>1, <3>2 DEF ReadOK, ReadStates
  <2>3. CASE Tick
    <3>1. data' <= 0 \/ (data' = Start /\ lead' = 1 /\ data = -1)
      BY <1>1, <1>3, <1>5, <2>3 DEF Tick, DataSteps
    <3>2. (done' => ~Before')
      <4>1. done => data' = 0
        BY <1>1, <1>2, <1>3, <1>5, <2>3 DEF Tick, DataSteps, Before
      <4> QED
        BY <1>1, <2>1, <4>1 DEF Before
    <3> QED
      BY <1>6, <2>1, <3>1, <3>2 DEF ReadOK, ReadStates
  <2> QED
    BY <1>1, <1>7, <2>2, <2>3 DEF Beat, Slow, Fast
<1>8. CASE clkstrb_o
  <2>1. ReadMoves /\ ~done' /\ reads' /\ shifts' /\ runs'
    BY <1>2, <1>8 DEF ReadFrame, ReadMoves, SameRegister, ReadStates
  <2>2. CASE data = Start /\ sd_clk_en
    <3>1. ds' = "READ_BLOCK" /\ db' = 0 /\ dw' = BlockWords
      BY <2>1, <2>2 DEF ReadMoves, ReadFrame
    <3>2. dat_reg' = 0 /\ Missing' = BlockBits
      <4>1. Missing' = BlockBits
        BY <3>1, Words
      <4>2. Shift
        BY <1>8, <2>2 DEF Shift
      <4> QED
        BY <1>1, <1>2, <2>1, <2>2, <4>1, <4>2 DEF ReadFrame
    <3>3. data' = Start + lead'
      <4>1. CASE Slow
        BY <1>1, <2>2, <4>1 DEF Slow, DataSteps
      <4>2. CASE Fast
        BY <1>1, <1>5, <2>2, <4>2 DEF Fast, DataSteps
      <4> QED
        BY <1>1, <1>8, <4>1, <4>2 DEF Beat, Stand, Tick
    <3>4. dat_reg' = BlockBits - Missing' + db' /\ data' = Start + dat_reg' + lead'
      <4>1. lead' \in {0, 1}
        BY DEF lead
      <4> QED
        BY <1>1, <3>1, <3>2, <3>3, <4>1
    <3> QED
      BY <1>6, <2>1, <3>1, <3>4 DEF ReadOK, ReadStates
  <2>3. CASE ~(data = Start /\ sd_clk_en)
    <3>1. ds' = "WAIT_BLOCK"
      BY <2>1, <2>3 DEF ReadMoves, ReadFrame, DatStays
    <3>2. data' <= 0 \/ (data' = Start /\ lead' = 1)
      <4>1. CASE Slow
        <5>1. data' = data /\ ~(data = LastDataBit /\ lead = 0)
          BY <1>4, <4>1 DEF Slow, DataSteps
        <5> QED
          BY <1>1, <1>3, <2>3, <4>1, <5>1 DEF Slow
      <4>2. CASE Fast
        BY <1>1, <1>3, <1>5, <2>3, <4>2 DEF Fast, DataSteps
      <4> QED
        BY <1>1, <1>8, <4>1, <4>2 DEF Beat, Stand, Tick
    <3> QED
      BY <1>6, <2>1, <3>1, <3>2 DEF ReadOK, ReadStates
  <2> QED
    BY <2>2, <2>3
<1> QED
  BY <1>7, <1>8

(* A block that is coming in.                                              *)
LEMMA ReadTakes ==
  ASSUME Inv, Moves, ReadFrame, DataSteps, ds = "READ_BLOCK"
  PROVE  ReadOK'
<1>1. /\ data \in Int /\ Beat /\ Start = 1 /\ LastDataBit = 1 + BlockBits + CrcBits
      /\ BlockBits \in Nat /\ CrcBits \in Nat /\ WordBits \in 1 .. 64 /\ dat_reg \in Nat
      /\ db \in 0 .. 63 /\ dw \in 0 .. BlockWords
      /\ BlockWords \in Nat /\ db < WordBits /\ dw > 0
  BY BlockBitsIs, BlockAssumption, Enabled
     DEF Moves, Inv, Controller, Registers, Start, DatShape, DatCounts
<1>2. reads /\ shifts /\ runs /\ cs # "WRITE" /\ ~done
  BY DEF Inv, ReadOK, ReadFrame, ReadStates, CommandOK
<1>3. dat_reg = BlockBits - Missing + db /\ data = Start + dat_reg + lead
  BY DEF Inv, ReadOK, ReadFrame
<1>4. /\ Missing \in Int /\ Missing >= WordBits
      /\ dw' = dw => Missing' = Missing
      /\ dw' = dw - 1 => Missing' = Missing - WordBits
  BY <1>1, Words
<1>5. ~Asked
  BY <1>2 DEF Asked
<1>6. /\ Committed' /\ op' = "read" /\ held' = 0 /\ ~drives' /\ ~CMD'.ABRT_DAT
      /\ Late' <=> Late
  BY DEF ReadFrame
<1>7. ~done' /\ reads' /\ shifts' /\ runs'
  <2>1. CASE clkstrb_o
    BY <1>2, <2>1 DEF ReadFrame, ReadMoves, SameRegister, ReadStates
  <2>2. CASE ~clkstrb_o
    BY <1>2, <2>2 DEF ReadFrame, SameRegister
  <2> QED
    BY <2>1, <2>2
<1>8. dat_reg < BlockBits
  BY <1>1, <1>3, <1>4
<1>9. CASE ~clkstrb_o
  <2>1. /\ ds' = "READ_BLOCK" /\ db' = db /\ dw' = dw /\ dat_reg' = dat_reg /\ Missing' = Missing
    BY <1>4, <1>9 DEF ReadFrame, DatStays
  <2>2. data' = Start + dat_reg' + lead'
    <3>1. CASE Stand
      BY <1>3, <2>1, <3>1 DEF Stand, DataSteps
    <3>2. CASE Tick
      BY <1>1, <1>3, <1>5, <1>8, <2>1, <3>2 DEF Tick, DataSteps
    <3> QED
      BY <1>1, <1>9, <3>1, <3>2 DEF Beat, Slow, Fast
  <2> QED
    BY <1>3, <1>6, <1>7, <2>1, <2>2 DEF ReadOK, ReadStates
<1>10. CASE clkstrb_o /\ ~sd_clk_en
  <2>1. /\ ds' = "READ_BLOCK" /\ db' = db /\ dw' = dw /\ dat_reg' = dat_reg /\ Missing' = Missing
    BY <1>2, <1>4, <1>7, <1>10 DEF ReadFrame, DatStays, ReadMoves, Shift
  <2>2. data' = Start + dat_reg' + lead'
    <3>1. ~Edge /\ lead' = lead /\ lead \in {0, 1}
      BY <1>1, <1>10 DEF Beat, Stand, Tick, Slow, Fast
    <3> QED
      BY <1>3, <2>1, <3>1 DEF DataSteps
  <2> QED
    BY <1>3, <1>6, <1>7, <2>1, <2>2 DEF ReadOK, ReadStates
<1>11. CASE clkstrb_o /\ sd_clk_en
  <2>1. lead = 1 /\ Shift /\ (Late => Edge /\ lead' = 1) /\ (~Late => ~Edge /\ lead' = 0)
    BY <1>1, <1>11 DEF Beat, Stand, Tick, Slow, Fast, Shift
  <2>2. dat_reg' = dat_reg + 1
    BY <1>1, <1>2, <1>3, <1>7, <2>1 DEF ReadFrame
  <2>3. data' = Start + dat_reg' + lead'
    <3>1. data = 2 + dat_reg /\ data > 0 /\ data # LastDataBit
      <4>1. data = 2 + dat_reg
        BY <1>1, <1>3, <2>1
      <4>2. CrcBits >= 1
        BY BlockAssumption
      <4> QED
        BY <1>1, <1>8, <4>1, <4>2
    <3>2. CASE Late
      BY <1>1, <1>5, <2>1, <2>2, <3>1, <3>2 DEF DataSteps
    <3>3. CASE ~Late
      BY <1>1, <2>1, <2>2, <3>1, <3>3 DEF DataSteps
    <3> QED
      BY <3>2, <3>3
  <2>4. CASE db # WordBits - 1
    <3>1. ds' = "READ_BLOCK" /\ db' = db + 1 /\ dw' = dw
      BY <1>11, <2>4 DEF ReadFrame, ReadMoves
    <3>2. dat_reg' = BlockBits - Missing' + db'
      BY <1>1, <1>3, <1>4, <2>2, <3>1
    <3> QED
      BY <1>6, <1>7, <2>3, <3>1, <3>2 DEF ReadOK, ReadStates
  <2>5. CASE db = WordBits - 1
    <3>1. ds' = "REGOUT" /\ db' = 0 /\ dw' = dw - 1
      BY <1>11, <2>5 DEF ReadFrame, ReadMoves
    <3>2. dat_reg' = BlockBits - Missing' /\ dw' < BlockWords
      BY <1>1, <1>3, <1>4, <2>2, <2>5, <3>1
    <3> QED
      BY <1>6, <1>7, <2>3, <3>1, <3>2 DEF ReadOK, ReadStates
  <2> QED
    BY <2>4, <2>5
<1> QED
  BY <1>9, <1>10, <1>11

(* A word that waits, and the end of a block.                              *)
LEMMA ReadRest ==
  ASSUME Inv, Moves, ReadFrame, DataSteps, ds \in {"REGOUT", "READ_CRC", "READ_FINISH"}
  PROVE  ReadOK'
<1>1. /\ data \in Int /\ Beat /\ Start = 1 /\ LastDataBit = 1 + BlockBits + CrcBits
      /\ BlockBits \in Nat /\ CrcBits \in 1 .. 64 /\ dat_reg \in Nat
      /\ db \in 0 .. 63 /\ dw \in 0 .. BlockWords
  BY BlockBitsIs, BlockAssumption, Enabled DEF Moves, Inv, Controller, Registers, Start
<1>2. /\ reads /\ shifts /\ (ds # "READ_FINISH" => runs) /\ cs # "WRITE" /\ ~done
      /\ ds \in ReadStates
  BY DEF Inv, ReadOK, ReadFrame, ReadStates, CommandOK
<1>3. /\ ds = "REGOUT" => /\ dw < BlockWords /\ dat_reg = BlockBits - Missing
                          /\ data = Start + dat_reg + lead
      /\ ds = "READ_CRC" => data = Start + BlockBits + db + lead
      /\ ds = "READ_FINISH" => data = IF Late THEN 0 ELSE LastDataBit
      /\ ds = "READ_CRC" => db < CrcBits
  BY DEF Inv, ReadOK, ReadFrame, Controller, DatShape, DatCounts
<1>4. Missing \in Int /\ (dw = 0 => Missing = 0) /\ (dw' = dw => Missing' = Missing)
  BY Words
<1>5. ~Asked
  BY <1>2 DEF Asked
<1>6. /\ Committed' /\ op' = "read" /\ held' = 0 /\ ~drives' /\ ~CMD'.ABRT_DAT
      /\ Late' <=> Late
  BY DEF ReadFrame
<1>7. reads' /\ shifts' /\ (ds = "REGOUT" => runs')
  BY <1>2 DEF ReadFrame, ReadMoves, SameRegister, ReadStates
<1>8. /\ ds \in Stalling => ~sd_clk_en
      /\ ~sd_clk_en => ~Edge /\ ~Shift /\ data' = data
      /\ lead \in {0, 1}
  BY <1>1, Enabled DEF Beat, Stand, Tick, Slow, Fast, DataSteps, Shift
<1>9. CASE ~clkstrb_o
  <2>1. /\ ds' = ds /\ db' = db /\ dw' = dw /\ dat_reg' = dat_reg /\ Missing' = Missing
        /\ runs' = runs /\ done' = done
    BY <1>4, <1>9 DEF ReadFrame, DatStays, SameRegister
  <2>2. CASE Stand
    <3>1. data' = data /\ lead' = lead
      BY <2>2 DEF Stand, DataSteps
    <3> QED
      BY <1>2, <1>3, <1>6, <1>7, <2>1, <3>1 DEF ReadOK, ReadStates
  <2>3. CASE Tick
    <3>1. ds = "READ_CRC"
      BY <1>8, <2>3 DEF Tick, Stalling
    <3>2. data' = Start + BlockBits + db' + lead'
      BY <1>1, <1>3, <1>5, <2>1, <2>3, <3>1 DEF Tick, DataSteps
    <3> QED
      BY <1>2, <1>6, <1>7, <2>1, <3>1, <3>2 DEF ReadOK, ReadStates
  <2> QED
    BY <1>1, <1>9, <2>2, <2>3 DEF Beat, Slow, Fast
<1>10. CASE clkstrb_o /\ ds = "REGOUT"
  <2>1. ~sd_clk_en /\ data' = data /\ lead' = lead /\ ~done'
    BY <1>1, <1>8, <1>10 DEF Stalling, Beat, Stand, Tick, Slow, Fast, ReadFrame
  <2>2. dat_reg' = dat_reg
    BY <1>2, <1>7, <1>8, <1>10, <2>1 DEF ReadFrame
  <2>3. CASE FLAG_DAT_DATA
    <3>1. ds' = ds /\ db' = db /\ dw' = dw
      BY <1>10, <2>3 DEF ReadFrame, ReadMoves, DatStays
    <3> QED
      BY <1>3, <1>4, <1>6, <1>7, <1>10, <2>1, <2>2, <3>1 DEF ReadOK, ReadStates
  <2>4. CASE ~FLAG_DAT_DATA /\ dw = 0
    <3>1. ds' = "READ_CRC" /\ db' = 0
      BY <1>10, <2>4 DEF ReadFrame, ReadMoves
    <3>2. data' = Start + BlockBits + db' + lead'
      BY <1>1, <1>3, <1>4, <1>8, <1>10, <2>1, <2>4, <3>1
    <3> QED
      BY <1>6, <1>7, <1>10, <2>1, <3>1, <3>2 DEF ReadOK, ReadStates
  <2>5. CASE ~FLAG_DAT_DATA /\ dw # 0
    <3>1. ds' = "READ_BLOCK" /\ db' = 0 /\ dw' = dw
      BY <1>10, <2>5 DEF ReadFrame, ReadMoves
    <3>2. dat_reg' = BlockBits - Missing' + db' /\ data' = Start + dat_reg' + lead'
      BY <1>1, <1>3, <1>4, <1>8, <1>10, <2>1, <2>2, <3>1
    <3> QED
      BY <1>6, <1>7, <1>10, <2>1, <3>1, <3>2 DEF ReadOK, ReadStates
  <2> QED
    BY <2>3, <2>4, <2>5
<1>11. CASE clkstrb_o /\ ds = "READ_CRC"
  <2>1. ~done'
    BY <1>11 DEF ReadFrame
  <2>2. CASE ~sd_clk_en
    <3>1. ds' = "READ_CRC" /\ db' = db /\ runs'
      BY <1>2, <1>11, <2>2 DEF ReadFrame, ReadMoves, DatStays
    <3>2. data' = data /\ lead' = lead
      BY <1>1, <1>8, <1>11, <2>2 DEF Beat, Stand, Tick, Slow, Fast
    <3> QED
      BY <1>3, <1>6, <1>7, <1>11, <2>1, <3>1, <3>2 DEF ReadOK, ReadStates
  <2>3. CASE sd_clk_en
    <3>1. lead = 1 /\ (Late => Edge /\ lead' = 1) /\ (~Late => ~Edge /\ lead' = 0)
      BY <1>1, <1>11, <2>3 DEF Beat, Stand, Tick, Slow, Fast
    <3>2. CASE db # CrcBits - 1
      <4>1. ds' = "READ_CRC" /\ db' = db + 1 /\ runs'
        BY <1>2, <1>11, <2>3, <3>2 DEF ReadFrame, ReadMoves
      <4>2. data' = Start + BlockBits + db' + lead'
        BY <1>1, <1>3, <1>5, <1>11, <3>1, <3>2, <4>1 DEF DataSteps
      <4> QED
        BY <1>6, <1>7, <2>1, <4>1, <4>2 DEF ReadOK, ReadStates
    <3>3. CASE db = CrcBits - 1
      <4>1. ds' = "READ_FINISH"
        BY <1>11, <2>3, <3>3 DEF ReadFrame, ReadMoves
      <4>2. data = LastDataBit
        BY <1>1, <1>3, <1>11, <3>1, <3>3
      <4>3. data' = IF Late' THEN 0 ELSE LastDataBit
        BY <1>1, <1>5, <1>6, <3>1, <4>2 DEF DataSteps
      <4> QED
        BY <1>6, <1>7, <2>1, <4>1, <4>3 DEF ReadOK, ReadStates
    <3> QED
      BY <3>2, <3>3
  <2> QED
    BY <2>2, <2>3
<1>12. CASE clkstrb_o /\ ds = "READ_FINISH"
  <2>1. ds' = "WAIT_BLOCK" /\ runs' /\ done' /\ data' = data
    BY <1>8, <1>12 DEF ReadFrame, ReadMoves, Stalling
  <2>2. data' <= 0 \/ (data' = LastDataBit /\ lead' = 0)
    <3>1. ~Late => lead' = 0
      BY <1>1, <1>12 DEF Beat, Stand, Tick, Slow, Fast
    <3> QED
      BY <1>3, <1>12, <2>1, <3>1
  <2>3. ~Before'
    BY <1>1, <1>3, <1>12, <2>1 DEF Before
  <2> QED
    BY <1>6, <1>7, <2>1, <2>2, <2>3 DEF ReadOK, ReadStates
<1> QED
  BY <1>9, <1>10, <1>11, <1>12

(* A block that is over, while the program aborts the next.                *)
LEMMA ReadAborted ==
  ASSUME Inv, Next, Within, op' = "read", Aborts \/ CMD.ABRT_DAT
  PROVE  /\ Committed /\ op = "read" /\ CMD'.ABRT_DAT /\ Moved /\ ReadOver
         /\ data' = 0 /\ held' = 0 /\ ds' \in {"IDLE", "TAIL", "WAIT_BLOCK"} /\ ~done' /\ ~drives'
         /\ ds' = "WAIT_BLOCK" => reads' /\ shifts' /\ runs'
<1>0. Moves
  BY SystemMoves DEF Inv
<1>1. CMD.ABRT_DAT \/ at = "abort"
  BY DEF Aborts
<1>2. /\ Committed /\ op = "read" /\ CMD'.ABRT_DAT
  BY DEF Within, CmdKept, Aborts
<1>3. /\ Moved /\ ReadOver /\ held = 0
      /\ ds \in ReadStates => reads /\ shifts
      /\ ds \in ReadStates \ {"READ_FINISH"} => runs
  BY <1>1, <1>2 DEF Inv, ReadFlags, ReadOK
<1>4. /\ ds \in {"IDLE", "TAIL", "WAIT_BLOCK"} /\ ~drives /\ data = 0 /\ ~done
      /\ ds = "IDLE" => ~starts \/ CMD.DMODE = "NONE"
      /\ "RST" \notin CTRL
  BY <1>1, <1>3, AbortState DEF ReadOver
<1>5. cs # "WRITE"
  BY <1>1, <1>2, AbortPlace DEF Inv, CommandOK
<1>6. data' = 0 /\ held' = 0
  <2>1. ~Asked /\ ~Replied /\ ~Ended
    BY <1>2, <1>4, <1>5 DEF Asked, Replied, Ended
  <2> QED
    BY <1>0, <1>3, <1>4, <2>1 DEF Moves, CardMove, DataMove
<1>7. ~IsLow(dat_line)
  BY <1>3, <1>4 DEF IsLow, dat_line, High, Start, Low
<1>8. /\ ds' \in {"IDLE", "TAIL", "WAIT_BLOCK"} /\ ~done' /\ ~drives'
      /\ ds' = "WAIT_BLOCK" => ds = "WAIT_BLOCK" /\ reads' /\ shifts' /\ runs'
  <2>1. DatFrame /\ (Normal => IdleMoves /\ ReadMoves)
    BY <1>0 DEF Moves, DatMove
  <2>2. CASE ~Normal
    BY <1>3, <1>4, <2>1, <2>2 DEF DatFrame, DatStays, SameRegister, SameOutput, Normal, ReadStates
  <2>3. CASE Normal /\ ds \in {"IDLE", "TAIL"}
    <3>1. sd_clk_en \in BOOLEAN
      BY DEF sd_clk_en
    <3> QED
      BY <1>4, <2>1, <2>3, <3>1 DEF DatFrame, IdleMoves, DatStays, SameOutput
  <2>4. CASE Normal /\ ds = "WAIT_BLOCK"
    BY <1>3, <1>4, <1>7, <2>1, <2>4 DEF DatFrame, ReadMoves, DatStays, SameRegister,
       SameOutput, ReadStates
  <2> QED
    BY <1>4, <2>2, <2>3, <2>4
<1> QED
  BY <1>2, <1>3, <1>4, <1>6, <1>8

(* The bit of the block that is on the line, from the counters and the     *)
(* register of the controller, in every step of a read.                    *)
LEMMA ReadOKStep ==
  ASSUME Inv, Next
  PROVE  ReadOK'
<1>1. Moves
  BY SystemMoves DEF Inv
<1> SUFFICES ASSUME Committed', op' = "read"
             PROVE  ReadOK'
  BY DEF ReadOK
<1>2. CASE Begin
  <2>1. /\ ds' = "IDLE" /\ ~done' /\ ~drives' /\ data' = 0 /\ held' = 0
        /\ CMD'.COMMIT /\ ~CMD'.ABRT_DAT
    BY <1>1, <1>2, Begins DEF Begin, Committed
  <2> QED
    BY <2>1 DEF ReadOK, ReadStates
<1>3. CASE Within /\ (Aborts \/ CMD.ABRT_DAT)
  <2>1. /\ CMD'.ABRT_DAT /\ data' = 0 /\ held' = 0 /\ ~done' /\ ~drives'
        /\ ds' \in {"IDLE", "TAIL", "WAIT_BLOCK"}
        /\ ds' = "WAIT_BLOCK" => reads' /\ shifts' /\ runs'
    BY <1>3, ReadAborted
  <2> QED
    BY <2>1 DEF ReadOK, ReadStates
<1>4. CASE Within /\ CmdKept /\ ~CMD.ABRT_DAT
  <2>1. ReadFrame /\ DataSteps
    BY <1>4, Reading
  <2> QED
    BY <1>1, <2>1, ReadIdle, ReadWait, ReadTakes, ReadRest DEF ReadFrame, ReadStates
<1> QED
  BY <1>2, <1>3, <1>4, Kinds DEF Within

-----------------------------------------------------------------------------
(* The data and the response.                                              *)

(* The place of the response goes on with every edge.                      *)
LEMMA RespPlaceStep ==
  ASSUME Inv, Moves, ReadFrame, CmdKept, cs # "IDLE", cs' # "IDLE",
         cs = "WRITE" => Clocked = CmdBits
  PROVE  /\ RespPlace \in Int /\ RespPlace' = RespPlace + (IF Edge THEN 1 ELSE 0)
<1>1. /\ resp \in Int /\ resp_reg \in Nat /\ Beat /\ CmdMove /\ RespMove /\ lead \in {0, 1}
      /\ CmdBits \in 1 .. 64 /\ RespBits \in 1 .. 64 /\ cs \in CmdStates /\ cb \in 0 .. 63 /\ cw \in 0 .. 7
      /\ MaxRespDelay \in Nat
  BY Enabled, ResponseAssumption, ProgramAssumption DEF Moves, CardMove, Inv, Controller,
     Registers, Beat
<1>2. "RST" \notin CTRL /\ CMD.RMODE # "NONE" /\ CMD \in Commands
  BY ResetPlace DEF ReadFrame, Simple, Inv, Controller, Registers
<1>3. /\ LastRespBit \in Int /\ LastRespBit >= 4 /\ LastRespBit' = LastRespBit
      /\ cw = 0 => Awaited = 0
      /\ Awaited \in Int /\ (cw > 0 => Awaited >= RespBits)
  BY <1>1, <1>2, ResponseBits DEF Awaited, CmdKept
<1>4. sd_clk_en <=> cs # "REGOUT" /\ ds \notin Stalling
  BY Enabled
<1>5. /\ resp_reg' = IF Shift THEN cmd_line ELSE resp_reg
      /\ cmd_line = IF resp > 0 THEN resp ELSE 0
  BY DEF CmdKept, cmd_line, High
<1>6. /\ Edge => sd_clk_en
      /\ ~Late /\ clkstrb_o => ~Edge /\ lead' = 0 /\ (lead = 1 <=> sd_clk_en) /\ (Shift <=> sd_clk_en)
      /\ Late /\ clkstrb_o => (Edge <=> sd_clk_en) /\ lead = 1 /\ lead' = 1 /\ (Shift <=> sd_clk_en)
      /\ ~clkstrb_o => /\ CmdStays /\ resp_reg' = resp_reg
                       /\ lead' = lead + (IF Edge THEN 1 ELSE 0)
  BY <1>1, <1>5 DEF Beat, Stand, Tick, Slow, Fast, CmdMove, Shift
<1>7. sd_clk_en \in BOOLEAN
  BY DEF sd_clk_en
<1>8. CASE cs = "WRITE"
  <2>1. resp <= -2 /\ cb < CmdBits
    BY <1>8 DEF Inv, CmdPlace, ReadFrame, Controller, CmdShape, CmdCounts
  <2>2. bits = 0 /\ CmdBits >= 1
    BY <1>1, <1>8 DEF Inv, CmdPlace, ReadFrame
  <2>3. ~Edge
    <3>1. CASE Tick \/ Fast
      BY <1>1, <1>8, <2>1, <3>1 DEF Clocked, Tick, Fast
    <3> QED
      BY <1>1, <3>1 DEF Beat, Stand, Slow
  <2>4. resp' = resp
    BY <1>1, <2>3 DEF RespMove
  <2>5. cs' \in {"WRITE", "WAIT_RESP"}
    BY <1>1, <1>2, <1>7, <1>8 DEF CmdMove, CmdStays
  <2>6. RespPlace = Place(resp) /\ RespPlace' = Place(resp')
    BY <1>8, <2>5 DEF RespPlace
  <2>7. Place(resp) = resp /\ Place(resp') = resp
    BY <1>1, <2>1, <2>4 DEF Place
  <2> QED
    BY <1>1, <2>3, <2>6, <2>7
<1>9. CASE cs = "WAIT_RESP"
  <2>1. \/ resp \in -MaxRespDelay .. -1 /\ resp_reg = 0
        \/ resp > 0 /\ resp_reg \in 0 .. 2 /\ resp = resp_reg + lead
    BY <1>9 DEF Inv, CmdPlace, ReadFrame
  <2>2. RespPlace = Place(resp) /\ sd_clk_en
    BY <1>4, <1>9 DEF RespPlace, Inv, CommandOK, ReadFrame
  <2>3. resp # LastRespBit /\ resp # 0 /\ resp <= 3
    BY <1>1, <1>3, <2>1
  <2>4. Place(resp') = Place(resp) + (IF Edge THEN 1 ELSE 0) /\ Place(resp) \in Int
    BY <1>1, <1>9, <2>3 DEF RespMove, Place
  <2>5. CASE cs' = "WAIT_RESP"
    BY <2>2, <2>4, <2>5 DEF RespPlace
  <2>6. CASE cs' # "WAIT_RESP"
    <3>1. cs' = "READ_RESP" /\ clkstrb_o /\ resp_reg = 2
      BY <1>1, <1>2, <1>9, <2>6 DEF CmdMove, CmdStays
    <3>2. lead = 1 /\ resp = 3 /\ resp_reg' = 3
      BY <1>1, <1>5, <1>6, <2>1, <2>2, <3>1
    <3>3. RespPlace' = 3 + lead' - 1
      BY <3>1, <3>2 DEF RespPlace
    <3> QED
      BY <1>6, <2>2, <3>1, <3>2, <3>3 DEF Place
  <2> QED
    BY <2>5, <2>6
<1>10. CASE cs = "READ_RESP"
  <2>1. resp_reg >= 3 /\ resp = resp_reg + lead /\ cs' \in {"READ_RESP", "REGOUT"}
    BY <1>1, <1>2, <1>7, <1>10 DEF Inv, CmdPlace, ReadFrame, CmdMove, CmdStays
  <2>2. RespPlace = resp_reg + lead - 1 /\ RespPlace' = resp_reg' + lead' - 1
    BY <1>10, <2>1 DEF RespPlace
  <2>3. clkstrb_o /\ sd_clk_en => resp_reg' = resp_reg + 1
    BY <1>1, <1>5, <1>6, <2>1
  <2> QED
    BY <1>1, <1>5, <1>6, <2>2, <2>3
<1>11. CASE cs = "REGOUT"
  <2>1. resp_reg = LastRespBit - Awaited
    BY <1>11 DEF Inv, CmdPlace, ReadFrame
  <2>2. ~sd_clk_en /\ ~Edge /\ lead' = lead /\ resp_reg' = resp_reg
    BY <1>1, <1>4, <1>5, <1>6, <1>11
  <2>3. \/ cs' \in {"READ_RESP", "REGOUT"}
        \/ cs' = "TAIL" /\ cb' = 0 /\ cw = 0
    BY <1>1, <1>2, <1>11 DEF CmdMove, CmdStays
  <2>4. RespPlace = resp_reg + lead - 1
    BY <1>11 DEF RespPlace
  <2>5. RespPlace' = resp_reg' + lead' - 1
    BY <1>1, <1>3, <2>1, <2>2, <2>3 DEF RespPlace
  <2> QED
    BY <1>1, <2>2, <2>4, <2>5
<1>12. CASE cs = "TAIL"
  <2>1. /\ cs' = "TAIL" /\ (clkstrb_o /\ sd_clk_en => cb' = cb + 1)
        /\ ~(clkstrb_o /\ sd_clk_en) => cb' = cb
    BY <1>1, <1>2, <1>12 DEF CmdMove, CmdStays
  <2>2. RespPlace = LastRespBit + cb + lead - 1 /\ RespPlace' = LastRespBit + cb' + lead' - 1
    BY <1>3, <1>12, <2>1 DEF RespPlace
  <2> QED
    BY <1>1, <1>3, <1>6, <2>1, <2>2
<1> QED
  BY <1>1, <1>8, <1>9, <1>10, <1>11, <1>12 DEF CmdStates

(* The response starts at most MaxRespDelay behind the data.               *)
LEMMA RaceStep ==
  ASSUME Inv, Next
  PROVE  Race'
<1>1. Moves
  BY SystemMoves DEF Inv
<1> SUFFICES ASSUME op' = "read", Committed', cs' # "IDLE", data' # 0
             PROVE  Place(data') <= RespPlace' + MaxRespDelay - 2
  BY DEF Race
<1>2. ~Begin
  BY <1>1, Begins DEF Begin, Committed
<1>3. Within /\ CmdKept /\ ~CMD.ABRT_DAT
  BY <1>2, Kinds, ReadAborted DEF Within
<1>4. ReadFrame /\ DataSteps
  BY <1>3, Reading
<1>5. data \in Int /\ LastDataBit \in Int /\ LastDataBit > 1 /\ Start = 1 /\ MaxRespDelay \in Nat
  BY BlockBitsIs, ProgramAssumption DEF Inv, Controller, Registers, Start
<1>6. CASE Edge /\ Asked
  <2>1. data' \in Int /\ data' <= -2 /\ resp' \in -MaxRespDelay .. -2 /\ cs = "WRITE"
    BY <1>1, <1>4, <1>6 DEF DataSteps, Moves, CardMove, RespMove, Asked
  <2>2. cs' \in {"WRITE", "WAIT_RESP"}
    <3>1. CMD.RMODE # "NONE" /\ "RST" \notin CTRL
      BY <1>4, ResetPlace DEF ReadFrame, Simple
    <3>2. sd_clk_en \in BOOLEAN
      BY DEF sd_clk_en
    <3> QED
      BY <1>1, <2>1, <3>1, <3>2 DEF Moves, CmdMove, CmdStays
  <2>3. RespPlace' = Place(resp')
    BY <2>2 DEF RespPlace
  <2>4. resp' \in Int /\ resp' < 0 /\ resp' >= -MaxRespDelay
    BY <1>5, <2>1
  <2>5. Place(resp') = resp'
    BY <2>4 DEF Place
  <2>6. \A x, y \in Int : x <= -2 /\ y >= -MaxRespDelay =>
          Place(x) = x /\ x <= y + MaxRespDelay - 2
    BY <1>5 DEF Place
  <2>7. RespPlace' = resp'
    BY <2>3, <2>5
  <2> QED
    BY <2>1, <2>4, <2>6, <2>7
<1>7. CASE ~(Edge /\ Asked)
  <2>1. data # 0
    BY <1>4, <1>7 DEF DataSteps
  <2>2. cs # "IDLE"
    <3>1. CASE cs = "IDLE"
      <4>1. CMD.COMMIT
        BY <1>1, <3>1 DEF Moves, CmdMove, CmdStays
      <4> QED
        BY <1>4, <2>1, <3>1, <4>1 DEF Inv, ReadOK, CommandOK, ReadFrame
    <3> QED
      BY <3>1
  <2>3. cs = "WRITE" => Clocked = CmdBits
    BY <1>4, <2>1 DEF Inv, ReadOK, CommandOK, ReadFrame
  <2>4. RespPlace \in Int /\ RespPlace' = RespPlace + (IF Edge THEN 1 ELSE 0)
    BY <1>1, <1>3, <1>4, <2>2, <2>3, RespPlaceStep
  <2>5. Place(data) <= RespPlace + MaxRespDelay - 2
    BY <1>4, <2>1, <2>2 DEF Inv, Race, ReadFrame
  <2>6. Place(data') = Place(data) + (IF Edge THEN 1 ELSE 0) /\ Place(data) \in Int
    <3>1. Place(data) \in Int
      BY <1>5 DEF Place
    <3>2. CASE ~Edge
      BY <1>4, <3>1, <3>2 DEF DataSteps
    <3>3. CASE Edge
      <4>1. /\ data < -1 => data' = data + 1
            /\ data = -1 => data' = 1
            /\ data > 0 => data' = data + 1
        BY <1>4, <1>5, <1>7, <3>3 DEF DataSteps
      <4>2. CASE data < -1
        BY <1>5, <3>3, <4>1, <4>2 DEF Place
      <4>3. CASE data = -1
        BY <1>5, <3>3, <4>1, <4>3 DEF Place
      <4>4. CASE data > 0
        BY <1>5, <3>3, <4>1, <4>4 DEF Place
      <4> QED
        BY <1>5, <2>1, <4>2, <4>3, <4>4
    <3> QED
      BY <3>2, <3>3
  <2> QED
    BY <1>5, <2>4, <2>5, <2>6
<1> QED
  BY <1>6, <1>7

-----------------------------------------------------------------------------
(* The words of a block that is read.                                      *)

(* A command whose end the program has seen.                               *)
LEMMA ServedStays ==
  ASSUME Inv, Next, Served, ~Begin
  PROVE  Served'
<1>1. Over /\ status_idle_cmd_last /\ "CMD_DONE" \notin CTRL
  BY DEF Served, CmdDone
<1>2. "CMD_DONE" \notin Raised
  BY <1>1, RaisedIs
<1> QED
  BY <1>1, <1>2, OverStays, CtrlMoves DEF Served

(* A word that is read from the register was there.                        *)
LEMMA TakesWord ==
  ASSUME Inv, Next, TakesData
  PROVE  /\ ds = "REGOUT" /\ FLAG_DAT_DATA /\ status_data_dat_last /\ ~DataTaken
         /\ ds' = "REGOUT" /\ dw' = dw /\ DataTaken' /\ words' = words + 1
         /\ ~CMD.ABRT_DAT
<1>1. Moves
  BY SystemMoves DEF Inv
<1>2. at = "DAT_DATA" /\ op = "read" /\ words' = words + 1 /\ ~FLAG_DAT_DATA' /\ Committed
  BY DEF TakesData, Committed
<1>3. "DAT_DATA" \in todo /\ FLAG_DAT_DATA
  BY <1>2 DEF Inv, Program, FlagNames, DatFlags
<1>4. ds = "REGOUT" /\ status_data_dat_last
  <2>1. ds \in {"REGOUT", "WRITE_REGIN"} /\ status_data_dat_last
    BY <1>2, <1>3 DEF Inv, DatFlags, Writing
  <2> QED
    BY <1>2, <2>1 DEF Inv, ReadOK, ReadStates
<1>5. ~CMD.ABRT_DAT
  BY <1>4, AbortState
<1>6. "RST" \notin CTRL
  BY <1>4, ResetPlace
<1>7. ds' = "REGOUT" /\ dw' = dw
  BY <1>1, <1>3, <1>4, <1>5, <1>6 DEF Moves, DatMove, DatFrame, Normal, ReadMoves, DatStays
<1>8. status_data_dat_last'
  BY <1>1, <1>4 DEF Moves, Lasts
<1> QED
  BY <1>2, <1>3, <1>4, <1>5, <1>7, <1>8 DEF DataTaken

(* The flag of the data while a block is read.                             *)
LEMMA DataFlagMoves ==
  ASSUME Inv, Next, ReadFrame
  PROVE  /\ ds # "REGOUT" => ~DataTaken' /\ ~FLAG_DAT_DATA' /\ ~TakesData
         /\ ds = "REGOUT" /\ ~TakesData => (DataTaken' <=> DataTaken)
         /\ clkstrb_o /\ ds = "REGOUT" /\ ~FLAG_DAT_DATA => DataTaken
         /\ words' = words \/ TakesData
<1>1. Moves
  BY SystemMoves DEF Inv
<1>2. op = "read" /\ Committed /\ ds \in {"IDLE"} \cup ReadStates
  BY DEF ReadFrame
<1>3. at # "drop_data" /\ at # "end" /\ at # "call"
  BY <1>2 DEF Inv, Program, FlagNames, Committed
<1>4. ds = "REGOUT" <=> ds \in {"REGOUT", "WRITE_REGIN"}
  BY <1>2 DEF ReadStates
<1>5. (status_data_dat_last' <=> ds = "REGOUT") /\ (clkstrb_o => (status_data_dat_last <=> ds = "REGOUT"))
  BY <1>1, <1>4 DEF Moves, Lasts, Inv, Controller, Settled
<1>6. FLAG_DAT_DATA => ds = "REGOUT" /\ status_data_dat_last
  BY <1>2, <1>3, <1>4 DEF Inv, DatFlags, Writing
<1>7. ~PutsWord /\ ~DropsData /\ ~Called
  BY <1>2, <1>3 DEF PutsWord, Loads, DropsData, Called
<1>8. DataSet \/ TakesData
  BY <1>7, Effects
<1>9. words' = words \/ TakesData
  BY <1>7, Counts
<1> QED
  BY <1>4, <1>5, <1>6, <1>8, <1>9, TakesWord DEF DataSet, DataTaken

(* Where the place that serves a flag is reached from, in a read.          *)
LEMMA TurnsBy ==
  ASSUME Inv, Next, op = "read", at' \in FlagNames \cup {"poll"}
  PROVE  \/ at' = at \/ Polls \/ Acknowledges \/ TakesResp \/ TakesData \/ AbortsBlock \/ Begin
         \/ op' = "none"
<1>1. at \notin {"wait_idle", "resetting", "end_reset"}
  BY DEF Inv, Program, FlagNames
<1>2. CASE Paused \/ Called \/ Commits \/ TimesOut
  BY <1>2 DEF Paused, Called, Commits, TimesOut, FlagNames
<1>3. CASE PutsWord \/ PutsNone \/ Fetches
  BY <1>3 DEF PutsWord, Loads, PutsNone, Fetches
<1>4. CASE StopsBusy \/ EndsBlock \/ Resets \/ Clears \/ Returning
  BY <1>4 DEF StopsBusy, EndsBlock, Resets, Clears, Returning, FlagNames
<1>5. CASE WaitsIdle \/ DropsResp \/ DropsData
  BY <1>1, <1>5 DEF WaitsIdle, DropsResp, DropsData, FlagNames
<1> QED
  BY <1>2, <1>3, <1>4, <1>5, Steps

(* The first data does not come before the command, nor a second block.    *)
LEMMA BlockMoves ==
  ASSUME Inv, Next, ReadFrame, DataSteps
  PROVE  /\ ds = "IDLE" => ds' = "IDLE" \/ (ds' = "WAIT_BLOCK" /\ Before')
         /\ ds = "WAIT_BLOCK" /\ Before =>
              (ds' = "WAIT_BLOCK" /\ Before') \/ (ds' = "READ_BLOCK" /\ dw' = BlockWords)
         /\ ds = "WAIT_BLOCK" /\ ~Before => ds' = "WAIT_BLOCK" /\ ~Before'
         /\ ds = "WAIT_BLOCK" /\ ReadOver => data' = 0 /\ ~done'
         /\ ds = "WAIT_BLOCK" /\ done /\ clkstrb_o => data' = 0 /\ ~done'
<1>1. Moves
  BY SystemMoves DEF Inv
<1>2. /\ data \in Int /\ Beat /\ Start = 1 /\ LastDataBit \in Int /\ LastDataBit > 1
      /\ lead \in {0, 1} /\ data' \in Int
  BY <1>1, BlockBitsIs DEF Moves, Beat, Inv, Controller, Registers, Start, DataSteps
<1>3. CASE ds = "IDLE"
  <2>1. CASE ds' # "IDLE"
    <3>1. clkstrb_o /\ starts /\ ds' = "WAIT_BLOCK"
      BY <1>3, <2>1 DEF ReadFrame, DatStays, IdleMoves
    <3>2. cs = "WAIT_RESP" /\ data <= lead - 2
      <4>1. cs # "WRITE" /\ cs # "IDLE"
        BY <3>1 DEF Inv, Controller, CmdShape, CmdCounts
      <4> QED
        BY <1>3, <3>1, <4>1 DEF Inv, ReadOK, ReadFrame, CommandOK
    <3>3. ~Asked
      BY <3>2 DEF Asked
    <3>4. CASE Slow
      <4>1. data' = data
        BY <3>4 DEF Slow, DataSteps
      <4> QED
        BY <1>2, <1>3, <3>1, <3>2, <4>1 DEF Before
    <3>5. CASE Fast
      <4>1. data < 0 /\ (data' = data \/ (data < -1 /\ data' = data + 1) \/ data' = 1)
        BY <1>2, <3>2, <3>3, <3>5 DEF DataSteps, Fast
      <4> QED
        BY <1>2, <1>3, <3>1, <4>1 DEF Before
    <3> QED
      BY <1>2, <3>1, <3>4, <3>5 DEF Beat, Stand, Tick
  <2> QED
    BY <1>3, <2>1
<1>4. CASE ds = "WAIT_BLOCK"
  <2>1. /\ \/ data <= 0
           \/ data = 1 /\ lead = 1
           \/ data = LastDataBit /\ lead = 0 /\ done
        /\ done => ~Before
        /\ cs # "WRITE"
    BY <1>2, <1>4 DEF Inv, ReadOK, ReadFrame, CommandOK
  <2>2. ~Asked
    BY <2>1 DEF Asked
  <2>3. ~clkstrb_o => ds' = "WAIT_BLOCK" /\ (done' <=> done)
    BY <1>4 DEF ReadFrame, DatStays
  <2>4. clkstrb_o => /\ ds' = IF sd_clk_en /\ data = 1 THEN "READ_BLOCK" ELSE "WAIT_BLOCK"
                     /\ ds' = "READ_BLOCK" => dw' = BlockWords
                     /\ ~done'
    BY <1>2, <1>4 DEF ReadFrame, ReadMoves, DatStays
  <2>5. /\ data' = data \/ Edge
        /\ Edge => /\ data < -1 => data' = data + 1
                   /\ data = -1 => data' = 1
                   /\ data = 0 \/ data = LastDataBit => data' = 0
        /\ Edge /\ data = 1 => clkstrb_o /\ sd_clk_en
    BY <1>2, <2>1, <2>2 DEF DataSteps, Beat, Stand, Tick, Slow, Fast
  <2>6. CASE Before
    <3>1. data < 0 \/ (data = 1 /\ lead = 1)
      BY <1>2, <2>1, <2>6 DEF Before
    <3>2. ds' = "WAIT_BLOCK" => Before'
      <4>1. CASE data' = data
        BY <1>2, <3>1, <4>1 DEF Before
      <4>2. CASE Edge /\ data < -1
        <5>1. data + 1 < 0 /\ data' = data + 1
          BY <1>2, <2>5, <4>2
        <5> QED
          BY <1>2, <5>1 DEF Before
      <4>3. CASE Edge /\ data = -1
        BY <1>2, <2>5, <4>3 DEF Before
      <4>4. CASE Edge /\ data = 1
        BY <2>4, <2>5, <4>4
      <4> QED
        BY <1>2, <2>5, <3>1, <4>1, <4>2, <4>3, <4>4
    <3> QED
      BY <1>2, <1>4, <2>1, <2>3, <2>4, <2>6, <3>1, <3>2 DEF ReadOver
  <2>7. CASE ~Before
    <3>1. data = 0 \/ (data = LastDataBit /\ lead = 0 /\ done)
      BY <1>2, <2>1, <2>7 DEF Before
    <3>2. ds' = "WAIT_BLOCK" /\ (data' = 0 \/ data' = LastDataBit) /\ (data = 0 => data' = 0)
      BY <1>2, <2>3, <2>4, <2>5, <3>1
    <3>3. ~Before'
      BY <1>2, <3>2 DEF Before
    <3>4. clkstrb_o /\ done => data' = 0
      <4>1. sd_clk_en
        <5>1. cs = "IDLE"
          BY <1>4, <2>7 DEF Inv, ReadFlags, ReadFrame, Moved, Served, CmdDone, Over
        <5> QED
          BY <1>4, <5>1, Enabled DEF Stalling
      <4>2. clkstrb_o => lead = 1
        BY <1>2, <4>1 DEF Beat, Stand, Tick, Slow, Fast
      <4> QED
        BY <3>1, <3>2, <4>2
    <3> QED
      BY <1>4, <2>3, <2>4, <2>7, <3>1, <3>2, <3>3, <3>4 DEF ReadOver
  <2> QED
    BY <2>6, <2>7
<1> QED
  BY <1>3, <1>4

(* How many words have been moved.                                         *)
LEMMA WordsMoved ==
  ASSUME Inv, Next, ReadFrame, DataSteps
  PROVE  /\ ds' = "IDLE" \/ (ds' = "WAIT_BLOCK" /\ Before') => words' = 0
         /\ ds' = "READ_BLOCK" => words' = BlockWords - dw'
         /\ ds' = "REGOUT" => words' = BlockWords - dw' - (IF DataTaken' THEN 0 ELSE 1)
         /\ Moved' => Served' /\ words' = BlockWords
         /\ (Moved /\ ReadOver) \/ (clkstrb_o /\ done) => Moved' /\ ReadOver'
<1>1. Moves
  BY SystemMoves DEF Inv
<1>2. /\ words \in Nat /\ dw \in 0 .. BlockWords /\ BlockWords \in 1 .. 511 /\ WordBits \in 1 .. 64
      /\ ~CMD.ABRT_DAT /\ ~CMD'.ABRT_DAT /\ ds \in {"IDLE"} \cup ReadStates
  BY Enabled, BlockAssumption DEF Inv, Controller, Registers, ReadFrame
<1>3. /\ ds # "REGOUT" => ~DataTaken' /\ words' = words
      /\ ds = "REGOUT" /\ ~TakesData => (DataTaken' <=> DataTaken)
      /\ clkstrb_o /\ ds = "REGOUT" /\ ~FLAG_DAT_DATA => DataTaken
      /\ words' = words \/ TakesData
      /\ TakesData => ~DataTaken
  BY DataFlagMoves, TakesWord
<1>4. /\ ds = "IDLE" \/ (ds = "WAIT_BLOCK" /\ Before) => words = 0
      /\ ds = "READ_BLOCK" => words = BlockWords - dw
      /\ ds = "REGOUT" => words = BlockWords - dw - (IF DataTaken THEN 0 ELSE 1)
      /\ ds = "REGOUT" /\ dw = 0 /\ DataTaken => Served
      /\ Moved => Served /\ words = BlockWords
  BY <1>2 DEF Inv, ReadFlags, ReadFrame
<1>5. Served => Served'
  BY ServedStays DEF ReadFrame, Begin, Committed
<1>6. /\ clkstrb_o /\ done => ds = "WAIT_BLOCK"
      /\ Moved /\ ReadOver => ds = "WAIT_BLOCK" /\ ~Before
      /\ done => ~Before
  BY <1>2 DEF Inv, ReadOK, ReadFrame, Moved, ReadOver
<1>7. CASE ds = "IDLE"
  <2>1. ds' = "IDLE" \/ (ds' = "WAIT_BLOCK" /\ Before')
    BY <1>7, BlockMoves
  <2> QED
    BY <1>2, <1>3, <1>4, <1>6, <1>7, <2>1 DEF Moved
<1>8. CASE ds = "WAIT_BLOCK"
  <2>1. CASE Before
    <3>1. (ds' = "WAIT_BLOCK" /\ Before') \/ (ds' = "READ_BLOCK" /\ dw' = BlockWords)
      BY <1>8, <2>1, BlockMoves
    <3>2. words' = 0 /\ BlockWords - BlockWords = 0
      BY <1>2, <1>3, <1>4, <1>8, <2>1
    <3> QED
      BY <1>2, <1>6, <1>8, <2>1, <3>1, <3>2 DEF Moved
  <2>2. CASE ~Before
    <3>1. ds' = "WAIT_BLOCK" /\ ~Before'
      BY <1>8, <2>2, BlockMoves
    <3>2. Served' /\ words' = BlockWords
      BY <1>3, <1>4, <1>5, <1>8, <2>2 DEF Moved
    <3>3. (Moved /\ ReadOver) \/ (clkstrb_o /\ done) => Moved' /\ ReadOver'
      BY <1>8, <3>1, BlockMoves DEF Moved, ReadOver
    <3> QED
      BY <3>1, <3>2, <3>3
  <2> QED
    BY <2>1, <2>2
<1>9. CASE ds = "READ_BLOCK"
  <2>1. /\ dw > 0
        /\ \/ ds' = "READ_BLOCK" /\ dw' = dw
           \/ ds' = "REGOUT" /\ dw' = dw - 1
    <3>1. sd_clk_en \in BOOLEAN
      BY DEF sd_clk_en
    <3>2. dw > 0
      BY <1>9 DEF Inv, Controller, DatShape, DatCounts
    <3> QED
      BY <1>9, <3>1, <3>2 DEF ReadFrame, ReadMoves, DatStays
  <2>2. words' = words /\ words = BlockWords - dw /\ ~DataTaken'
    BY <1>3, <1>4, <1>9
  <2> QED
    BY <1>2, <1>6, <1>9, <2>1, <2>2 DEF Moved
<1>10. CASE ds = "REGOUT" /\ TakesData
  <2>1. /\ ds' = "REGOUT" /\ dw' = dw /\ DataTaken' /\ words' = words + 1 /\ ~DataTaken
    BY <1>10, TakesWord
  <2> QED
    BY <1>2, <1>4, <1>6, <1>10, <2>1 DEF Moved
<1>11. CASE ds = "REGOUT" /\ ~TakesData
  <2>1. \/ ds' = "REGOUT" /\ dw' = dw
        \/ clkstrb_o /\ ~FLAG_DAT_DATA /\ dw = 0 /\ ds' = "READ_CRC"
        \/ clkstrb_o /\ ~FLAG_DAT_DATA /\ dw # 0 /\ ds' = "READ_BLOCK" /\ dw' = dw
    BY <1>11 DEF ReadFrame, ReadMoves, DatStays
  <2>2. words' = words /\ (DataTaken' <=> DataTaken)
    BY <1>3, <1>11
  <2>3. CASE ds' = "REGOUT"
    BY <1>2, <1>4, <1>6, <1>11, <2>1, <2>2, <2>3 DEF Moved
  <2>4. CASE ds' # "REGOUT"
    <3>1. DataTaken /\ words = BlockWords - dw
      BY <1>2, <1>3, <1>4, <1>11, <2>1, <2>4
    <3> QED
      BY <1>2, <1>4, <1>5, <1>6, <1>11, <2>1, <2>2, <2>4, <3>1 DEF Moved
  <2> QED
    BY <2>3, <2>4
<1>12. CASE ds \in {"READ_CRC", "READ_FINISH"}
  <2>1. \/ ds' \in {"READ_CRC", "READ_FINISH"}
        \/ ds' = "WAIT_BLOCK" /\ done'
    <3>1. sd_clk_en \in BOOLEAN
      BY DEF sd_clk_en
    <3> QED
      BY <1>12, <3>1 DEF ReadFrame, ReadMoves, DatStays
  <2>2. ds' = "WAIT_BLOCK" => ~Before'
    BY <2>1, ReadOKStep DEF ReadOK, ReadFrame
  <2>3. Served' /\ words' = BlockWords
    BY <1>3, <1>4, <1>5, <1>12 DEF Moved
  <2> QED
    BY <1>6, <1>12, <2>1, <2>2, <2>3
<1> QED
  BY <1>2, <1>7, <1>8, <1>9, <1>10, <1>11, <1>12 DEF ReadStates

(* The last word of a block waits when the command is over.                *)
LEMMA LastWord ==
  ASSUME InTime, Inv, Next, ReadFrame, DataSteps, ds' = "REGOUT", dw' = 0
  PROVE  /\ Over'
         /\ FLAG_DAT_DATA' => status_idle_cmd_last'
         /\ DataTaken' \/ at' = "DAT_DATA" => Served'
<1>1. Moves
  BY SystemMoves DEF Inv
<1>2. /\ ~Begin /\ ~CMD.ABRT_DAT /\ op = "read" /\ op' = "read" /\ Committed /\ Committed'
      /\ "read" \in Operations
  BY DEF ReadFrame, Begin, Committed
<1>3. at' = "DAT_DATA" => FLAG_DAT_DATA' /\ "DAT_DATA" \in todo'
  BY <1>2, ProgramStep, DatFlagsStep DEF Program, FlagNames, DatFlags
<1>4. CASE ds = "REGOUT"
  <2>1. dw = 0
    BY <1>4 DEF ReadFrame, ReadMoves, DatStays
  <2>2. Over /\ (FLAG_DAT_DATA => status_idle_cmd_last) /\ (DataTaken \/ at = "DAT_DATA" => Served)
    BY <1>2, <1>4, <2>1 DEF Inv, ReadFlags
  <2>3. Over' /\ status_idle_cmd_last'
    BY <1>2, <2>2, OverStays DEF CmdDone
  <2>4. Served => Served'
    BY <1>2, ServedStays
  <2>5. DataTaken' => Served'
    <3>1. TakesData => Served
      BY <2>2 DEF TakesData
    <3> QED
      BY <1>4, <2>2, <2>4, <3>1, DataFlagMoves
  <2>6. at' = "DAT_DATA" => Served'
    <3> SUFFICES ASSUME at' = "DAT_DATA", at # "DAT_DATA"
                 PROVE  Served'
      BY <2>2, <2>4
    <3>1. Polls \/ Acknowledges \/ TakesResp \/ TakesData \/ AbortsBlock
      BY <1>2, TurnsBy DEF FlagNames
    <3>2. CASE Polls
      <4>1. "DAT_DATA" \in Status /\ "CMD_DONE" \notin Status
        <5>1. todo' = Status \cap Polled /\ "CMD_DONE" \notin todo'
          BY <3>2 DEF Polls, Turn
        <5>2. "CMD_DONE" \in Polled
          BY <1>2 DEF Polled
        <5> QED
          BY <1>3, <5>1, <5>2
      <4>2. FLAG_DAT_DATA /\ "CMD_DONE" \notin CTRL
        BY <4>1 DEF Status, Inv, Controller, Registers, CtrlBits
      <4> QED
        BY <2>2, <2>4, <4>2 DEF Served, CmdDone
    <3>3. CASE Acknowledges
      <4>1. "CMD_DONE" \notin CTRL'
        BY <1>2, <3>3 DEF Acknowledges, Stores, Stored
      <4> QED
        BY <2>3, <4>1 DEF Served, CmdDone
    <3>4. ~TakesResp
      BY <2>2, TakesOne DEF Over
    <3>5. ~TakesData
      BY DEF TakesData
    <3>6. ~AbortsBlock
      BY <1>2, <1>4 DEF AbortsBlock, Aborts, Inv, ReadFlags, Moved
    <3> QED
      BY <3>1, <3>2, <3>3, <3>4, <3>5, <3>6
  <2> QED
    BY <2>3, <2>5, <2>6
<1>5. CASE ds # "REGOUT"
  <2>1. /\ ds = "READ_BLOCK" /\ clkstrb_o /\ sd_clk_en /\ db = WordBits - 1 /\ dw - 1 = 0
    <3>1. sd_clk_en \in BOOLEAN
      BY DEF sd_clk_en
    <3> QED
      BY <1>5, <3>1 DEF ReadFrame, ReadMoves, DatStays, IdleMoves, ReadStates
  <2>2. ~FLAG_DAT_DATA' /\ ~DataTaken'
    BY <1>5, DataFlagMoves
  <2>3. /\ data \in Int /\ Start = 1 /\ LastRespBit \in Int /\ LastRespBit >= 4
        /\ BlockBits \in Nat /\ WordBits \in 1 .. 64 /\ RespBits \in 1 .. 64 /\ TailBits \in 1 .. 64
        /\ cb \in 0 .. 63 /\ cw \in 0 .. 7 /\ db \in 0 .. 63 /\ dw \in 0 .. BlockWords /\ dat_reg \in Nat
        /\ MaxRespDelay \in Nat /\ resp_reg \in Nat /\ resp \in Int /\ cs \in CmdStates
        /\ BlockWords \in Nat
    BY <1>2, BlockBitsIs, BlockAssumption, ResponseAssumption, ProgramAssumption, Enabled,
       ResponseBits DEF Inv, Controller, Registers, Start, ReadFrame
  <2>4. lead = 1
    BY <1>1, <2>1 DEF Moves, Beat, Stand, Tick, Slow, Fast
  <2>5. data = BlockBits + 1
    <3>1. dat_reg = BlockBits - Missing + db /\ data = Start + dat_reg + lead
      BY <1>2, <2>1 DEF Inv, ReadOK
    <3>2. Missing = WordBits
      BY <2>1, <2>3, Words
    <3> QED
      BY <2>1, <2>3, <2>4, <3>1, <3>2
  <2>6. cs' = "IDLE"
    <3> SUFFICES ASSUME cs' # "IDLE"
                 PROVE  FALSE
      OBVIOUS
    <3>1. cs \notin {"IDLE", "WRITE", "REGOUT"}
      <4>1. cs # "REGOUT"
        BY <2>1, Enabled
      <4>2. cs # "WRITE" /\ (cs = "IDLE" => ~CMD.COMMIT)
        BY <1>2, <2>1 DEF Inv, CommandOK
      <4>3. "RST" \notin CTRL
        BY <2>1, ResetPlace
      <4> QED
        BY <1>1, <4>1, <4>2, <4>3 DEF Moves, CmdMove, CmdStays
    <3>2. BlockBits <= RespPlace + MaxRespDelay - 2
      <4>1. Place(data) = BlockBits /\ data # 0
        BY <2>3, <2>5 DEF Place
      <4> QED
        BY <1>2, <3>1, <4>1 DEF Inv, Race
    <3>3. RespPlace \in Int /\ RespPlace <= LastRespBit + TailBits - 2
      <4>1. CASE cs = "WAIT_RESP"
        <5>1. /\ resp <= 3
          BY <1>2, <2>3, <2>4, <4>1, ProgramAssumption DEF Inv, CmdPlace
        <5>2. RespPlace = Place(resp)
          BY <4>1 DEF RespPlace
        <5>3. Place(resp) \in Int /\ Place(resp) <= 2
          BY <2>3, <5>1 DEF Place
        <5> QED
          BY <2>3, <5>2, <5>3
      <4>2. CASE cs = "READ_RESP"
        <5>1. resp_reg = LastRespBit - Awaited + cb /\ cb < RespBits /\ cw > 0
          BY <1>2, <4>2 DEF Inv, CmdPlace, Controller, CmdShape, CmdCounts
        <5>2. Awaited \in Int /\ Awaited >= RespBits
          BY <2>3, <5>1, ResponseBits DEF Awaited, ReadFrame, Inv, Controller, Registers
        <5>3. RespPlace = resp_reg + lead - 1
          BY <4>2 DEF RespPlace
        <5> QED
          BY <2>3, <2>4, <5>1, <5>2, <5>3
      <4>3. CASE cs = "TAIL"
        <5>1. cb < TailBits /\ "RST" \notin CTRL
          BY <2>1, <4>3, ResetPlace DEF Inv, Controller, CmdShape, CmdCounts
        <5>2. cb # TailBits - 1
          BY <1>1, <2>1, <4>3, <5>1 DEF Moves, CmdMove
        <5>3. RespPlace = LastRespBit + cb + lead - 1
          BY <4>3 DEF RespPlace
        <5> QED
          BY <2>3, <2>4, <5>1, <5>2, <5>3
      <4> QED
        BY <2>3, <3>1, <4>1, <4>2, <4>3 DEF CmdStates
    <3>4. LastRespBit + MaxRespDelay + TailBits <= BlockBits + 3
      <4>1. LastRespBit = ShortFirst + (ShortWords - 1) * RespBits
        BY DEF ReadFrame, LastRespBit, FirstBits, RespWords
      <4> QED
        BY <1>2, <4>1 DEF InTime
    <3> QED
      BY <2>3, <3>2, <3>3, <3>4
  <2>7. ~CMD'.COMMIT
    BY <2>1 DEF ReadFrame
  <2> QED
    BY <1>3, <2>2, <2>6, <2>7 DEF Over
<1> QED
  BY <1>4, <1>5

(* The end of a block, and the abort of the next.                          *)
LEMMA ReadEnds ==
  ASSUME Inv, Next, ReadFrame, DataSteps
  PROVE  /\ "BLK_DONE" \in CTRL' \cup todo' \/ at' = "abort" => Moved' /\ ReadOver'
         /\ at' = "abort" => "BLK_DONE" \notin CTRL'
<1>1. Committed /\ op = "read" /\ ~CMD.ABRT_DAT
  BY DEF ReadFrame
<1>2. "BLK_DONE" \in CTRL \cup todo \/ at = "abort" => Moved /\ ReadOver
  BY <1>1 DEF Inv, ReadFlags
<1>3. at' = "abort" => at = "abort" \/ (EndsBlock /\ "BLK_DONE" \in todo)
  BY Whence DEF EndsBlock, Inv, Program, FlagNames
<1>4. "BLK_DONE" \in CTRL' => "BLK_DONE" \in CTRL \/ (clkstrb_o /\ done)
  BY CtrlMoves, RaisedIs
<1>5. "BLK_DONE" \in todo' => "BLK_DONE" \in todo \cup CTRL
  <2>1. "BLK_DONE" \in Status => "BLK_DONE" \in CTRL
    BY DEF Status
  <2> QED
    BY <2>1, Counts
<1>6. "BLK_DONE" \in CTRL' \cup todo' \/ at' = "abort" => Moved' /\ ReadOver'
  BY <1>2, <1>3, <1>4, <1>5, WordsMoved
<1>7. EndsBlock => "BLK_DONE" \notin CTRL'
  <2>1. CASE EndsBlock
    <3>1. CTRL' = Stored /\ at = "BLK_DONE"
      BY <2>1 DEF EndsBlock, Stores
    <3>2. "BLK_DONE" \notin Stored
      BY <1>1, <3>1 DEF Stored
    <3> QED
      BY <3>1, <3>2
  <2> QED
    BY <2>1
<1>8. at = "abort" => "BLK_DONE" \notin CTRL'
  <2>1. CASE at = "abort"
    <3>1. "BLK_DONE" \notin CTRL /\ ~done
      BY <1>1, <2>1 DEF Inv, ReadFlags, ReadOver
    <3> QED
      BY <1>4, <3>1
  <2> QED
    BY <2>1
<1> QED
  BY <1>3, <1>6, <1>7, <1>8

(* After the abort.                                                        *)
LEMMA ReadAborting ==
  ASSUME Inv, Next, Within, op' = "read", Aborts \/ CMD.ABRT_DAT
  PROVE  ReadFlags'
<1>1. /\ Committed /\ op = "read" /\ CMD'.ABRT_DAT /\ Moved /\ ReadOver
      /\ data' = 0 /\ held' = 0 /\ ds' \in {"IDLE", "TAIL", "WAIT_BLOCK"} /\ ~done' /\ ~drives'
  BY ReadAborted
<1>2. Served /\ words = BlockWords
  BY <1>1 DEF Inv, ReadFlags
<1>3. Served'
  BY <1>1, <1>2, ServedStays DEF Begin, Committed
<1>4. words' = words
  <2>1. ~TakesData /\ ~PutsWord /\ ~Called
    BY <1>1, TakesWord DEF ReadOver, PutsWord, Loads, Called, Committed
  <2> QED
    BY <2>1, Counts
<1>5. ~Before'
  BY <1>1 DEF Before, Start
<1>6. Moved' /\ ReadOver'
  BY <1>1, <1>5 DEF Moved, ReadOver
<1>7. "BLK_DONE" \notin CTRL /\ "BLK_DONE" \notin CTRL'
  <2>1. "BLK_DONE" \notin CTRL
    BY <1>1 DEF Inv, ReadFlags, Aborts
  <2> QED
    BY <1>1, <2>1, CtrlMoves, RaisedIs DEF ReadOver
<1>8. /\ ~FLAG_CMD_RESP /\ ~FLAG_DAT_DATA /\ "CMD_DONE" \notin CTRL
  <2>1. cs = "IDLE" /\ "CMD_DONE" \notin CTRL
    BY <1>2 DEF Served, CmdDone, Over
  <2>2. ~FLAG_CMD_RESP
    BY <2>1 DEF Inv, RespFlags
  <2>3. at # "end"
    BY <1>1 DEF Inv, Program, FlagNames
  <2>4. ~FLAG_DAT_DATA
    BY <1>1, <2>3 DEF Inv, DatFlags, Writing, ReadOver
  <2> QED
    BY <2>1, <2>2, <2>4
<1>9. at' \in {"poll", "DAT_DONE"}
  <2>1. CASE CMD.ABRT_DAT
    <3>1. at \in {"poll", "DAT_DONE"}
      BY <1>1, <2>1 DEF Inv, ReadFlags
    <3>2. CASE at' = at
      BY <3>1, <3>2
    <3>3. CASE at' # at
      <4>1. CASE Polls
        <5>1. at' \in todo' \cup {"poll"} /\ todo' = Status \cap Polled
          BY <4>1 DEF Polls, Turn
        <5>2. Status \cap Polled \subseteq {"DAT_DONE"}
          BY <1>1, <1>7, <1>8 DEF Status, Polled, Inv, Controller, Registers, CtrlBits
        <5> QED
          BY <5>1, <5>2
      <4>2. CASE ~Polls
        <5>1. ~Paused /\ ~Fetches /\ ~Called /\ ~Commits /\ ~TimesOut
          BY <1>1, <3>1, <3>3 DEF Paused, Fetches, Called, Commits, Begin, TimesOut, Simple
        <5>2. ~TakesResp /\ ~TakesData /\ ~PutsWord /\ ~PutsNone /\ ~Acknowledges /\ ~StopsBusy /\ ~EndsBlock
          BY <3>1 DEF TakesResp, TakesData, PutsWord, Loads, PutsNone, Acknowledges, StopsBusy,
             EndsBlock
        <5>3. ~Resets /\ ~Clears /\ ~Returning
          BY <3>1 DEF Resets, Clears, Returning
        <5>4. ~AbortsBlock /\ ~WaitsIdle /\ ~DropsResp /\ ~DropsData
          BY <3>1 DEF AbortsBlock, Aborts, WaitsIdle, DropsResp, DropsData
        <5> QED
          BY <4>2, <5>1, <5>2, <5>3, <5>4, Steps
      <4> QED
        BY <4>1, <4>2
    <3> QED
      BY <3>2, <3>3
  <2>2. CASE Aborts
    <3>1. at = "abort" /\ at' \in todo' \cup {"poll"} /\ todo' = todo \ {"BLK_DONE"}
      BY <2>2 DEF Aborts
    <3>2. todo \subseteq {"BLK_DONE", "DAT_DONE"}
      <4>1. todo \subseteq FlagNames /\ "CMD_DONE" \notin todo
        BY <1>1, <3>1 DEF Inv, Program, Polled, FlagNames
      <4>2. "CMD_RESP" \notin todo /\ "DAT_DATA" \notin todo
        BY <1>8 DEF Inv, RespFlags, DatFlags
      <4> QED
        BY <4>1, <4>2 DEF FlagNames
    <3> QED
      BY <3>1, <3>2
  <2> QED
    BY <2>1, <2>2
<1> QED
  BY <1>1, <1>2, <1>3, <1>4, <1>5, <1>6, <1>7, <1>9 DEF ReadFlags

(* The words of the block that the program has moved, and the flags of a   *)
(* read. This is where a response in time is needed: the first word of     *)
(* data must not be served before the command is over.                     *)
LEMMA ReadFlagsStep ==
  ASSUME InTime, Inv, Next
  PROVE  ReadFlags'
<1>1. Moves
  BY SystemMoves DEF Inv
<1> SUFFICES ASSUME Committed', op' = "read"
             PROVE  ReadFlags'
  BY DEF ReadFlags
<1>2. CASE Begin
  <2>1. /\ ds' = "IDLE" /\ ~CMD'.ABRT_DAT /\ words' = 0
    BY <1>1, <1>2, Begins DEF Begin, Committed, Inv, Program
  <2>2. CTRL' \subseteq {"CRCERR"} /\ todo' = {} /\ at' = "poll"
    BY <1>1, <1>2, Begins DEF Begin, Committed, Ctrl, Inv, Clean
  <2> QED
    BY <2>1, <2>2 DEF ReadFlags, Moved
<1>3. CASE Within /\ (Aborts \/ CMD.ABRT_DAT)
  BY <1>3, ReadAborting
<1>4. CASE Within /\ CmdKept /\ ~CMD.ABRT_DAT
  <2>1. ReadFrame /\ DataSteps
    BY <1>4, Reading
  <2>2. ~CMD'.ABRT_DAT
    BY <2>1 DEF ReadFrame
  <2>3. /\ ds' = "IDLE" \/ (ds' = "WAIT_BLOCK" /\ Before') => words' = 0
        /\ ds' = "READ_BLOCK" => words' = BlockWords - dw'
        /\ ds' = "REGOUT" => words' = BlockWords - dw' - (IF DataTaken' THEN 0 ELSE 1)
        /\ Moved' => Served' /\ words' = BlockWords
    BY <2>1, WordsMoved
  <2>4. ds' = "REGOUT" /\ dw' = 0 => /\ Over'
                                     /\ FLAG_DAT_DATA' => status_idle_cmd_last'
                                     /\ DataTaken' \/ at' = "DAT_DATA" => Served'
    BY <2>1, LastWord
  <2>5. /\ "BLK_DONE" \in CTRL' \cup todo' \/ at' = "abort" => Moved' /\ ReadOver'
        /\ at' = "abort" => "BLK_DONE" \notin CTRL'
    BY <2>1, ReadEnds
  <2> QED
    BY <2>2, <2>3, <2>4, <2>5 DEF ReadFlags
<1> QED
  BY <1>2, <1>3, <1>4, Kinds DEF Within

-----------------------------------------------------------------------------
(* A busy response.                                                        *)

(* The hardware in a step of a command with a busy response.               *)
BusyFrame ==
  /\ Committed /\ op = "busy" /\ Committed' /\ op' = "busy" /\ answers
  /\ Late' <=> Late
  /\ LastRespBit' = LastRespBit
  /\ "RST" \notin CTRL /\ ~CMD.ABRT_DAT
  /\ CMD.DMODE = "BUSY" /\ CMD.RMODE = "SHORT" /\ (CMD'.COMMIT <=> CMD.COMMIT /\ ~clkstrb_o)
  /\ ds \in {"IDLE", "WAIT_BUSY", "TAIL"} /\ ~drives' /\ ~runs' /\ words' = 0
  /\ ~clkstrb_o => CmdStays /\ DatStays /\ starts' = starts
  /\ clkstrb_o => IdleMoves /\ BusyMoves
  /\ IsLow(dat_line) <=> held > 0

BusySteps ==
  /\ data \in {-2, -1, 0} /\ held \in Nat
  /\ ~Edge => data' = data /\ held' = held
  /\ Edge /\ Replied => data' \in {-2, -1} /\ held' = 0
  /\ Edge /\ ~Replied => /\ data = -2 => data' = -1 /\ held' = 0
                         /\ data = -1 => data' = 0
                         /\ data = 0 => data' = 0 /\ (held = 0 => held' = 0)

(* What a clock can do while a card is busy.                               *)
LEMMA Busying ==
  ASSUME Inv, Next, Within, op' = "busy"
  PROVE  BusyFrame /\ BusySteps
<1>1. Moves /\ data \in Int /\ held \in Nat
  BY SystemMoves DEF Inv, Controller, Registers
<1>2. Committed /\ op = "busy" /\ Committed' /\ answers /\ at # "abort" /\ at # "end"
  BY DEF Within, Inv, Program
<1>3. CmdKept /\ ~CMD.ABRT_DAT /\ CMD.DMODE = "BUSY" /\ CMD.RMODE = "SHORT"
  BY <1>2 DEF Within, Aborts, Inv, CommandOK, Mode, Response
<1>4. "RST" \notin CTRL
  BY <1>2, ResetPlace DEF Simple
<1>5. /\ ds \in {"IDLE", "WAIT_BUSY", "TAIL"} /\ ~drives /\ words = 0 /\ ~runs
      /\ data \in {-2, -1, 0} /\ (data < 0 => held = 0)
  BY <1>2 DEF Inv, BusyOK
<1>6. /\ ~clkstrb_o => /\ CmdStays /\ DatStays /\ starts' = starts
                       /\ SameRegister /\ SameOutput
      /\ clkstrb_o => IdleMoves /\ BusyMoves
  BY <1>1, <1>3, <1>4 DEF Moves, DatMove, DatFrame, CmdMove, Normal
<1>7. ~drives' /\ ~runs'
  <2>1. CASE ~clkstrb_o
    BY <1>5, <1>6, <2>1 DEF SameRegister, SameOutput
  <2>2. CASE clkstrb_o
    BY <1>3, <1>5, <1>6, <2>2 DEF IdleMoves, BusyMoves, SameRegister, SameOutput
  <2> QED
    BY <2>1, <2>2
<1>8. words' = 0
  BY <1>2, <1>5, Counts DEF TakesData, PutsWord, Loads
<1>9. dat_line = IF held > 0 THEN Low ELSE High
  BY <1>1, <1>5 DEF dat_line
<1>10. IsLow(dat_line) <=> held > 0
  BY <1>9 DEF IsLow, Start, Low, High
<1>11. BusySteps
  <2>1. ~Asked /\ ~Ended
    BY <1>2, <1>5 DEF Asked, Ended
  <2>2. DataMove
    BY <1>1 DEF Moves, CardMove
  <2>3. CASE ~Edge
    BY <1>1, <1>5, <2>2, <2>3 DEF BusySteps, DataMove
  <2>4. CASE Edge /\ Replied
    BY <1>1, <1>5, <2>1, <2>2, <2>4 DEF BusySteps, DataMove
  <2>5. CASE Edge /\ ~Replied
    BY <1>1, <1>2, <1>5, <2>1, <2>2, <2>5 DEF BusySteps, DataMove
  <2> QED
    BY <2>3, <2>4, <2>5
<1>12. /\ Late' <=> Late
       /\ LastRespBit' = LastRespBit
       /\ CMD'.COMMIT <=> CMD.COMMIT /\ ~clkstrb_o
  BY <1>1, <1>3 DEF Moves, Beat, CmdKept
<1> QED
  BY <1>2, <1>3, <1>4, <1>5, <1>6, <1>7, <1>8, <1>10, <1>11, <1>12 DEF BusyFrame

(* The end of the response, at which the card becomes busy.                *)
LEMMA BusyResp ==
  ASSUME Inv, Moves, BusyFrame
  PROVE  /\ Edge /\ Replied => cs' = "READ_RESP"
         /\ Edge /\ resp = LastRespBit => ~Replied
         /\ cs = "READ_RESP" /\ resp = LastRespBit => lead = 1 /\ cw = 1 /\ cb = RespBits - 1
         /\ cs = "READ_RESP" /\ lead = 1 /\ cw = 1 /\ cb = RespBits - 1 => resp = LastRespBit
         /\ cs \in {"WAIT_RESP", "REGOUT", "WRITE", "IDLE"} /\ cs' = "READ_RESP" => resp # LastRespBit
         /\ cs \in {"IDLE", "WRITE", "REGOUT", "TAIL"} /\ Edge => ~Replied
<1>1. /\ resp \in Int /\ resp_reg \in Nat /\ Beat /\ CmdMove /\ RespMove /\ lead \in {0, 1}
      /\ RespBits \in 1 .. 64 /\ cs \in CmdStates /\ cb \in 0 .. 63 /\ cw \in 0 .. 7
      /\ MaxRespDelay \in Nat /\ RespBits >= 4
  BY Enabled, ResponseAssumption, ProgramAssumption DEF Moves, CardMove, Inv, Controller,
     Registers, Beat
<1>2. "RST" \notin CTRL /\ CMD.RMODE # "NONE" /\ CMD \in Commands /\ Committed /\ answers
  BY DEF BusyFrame, Inv, Controller, Registers
<1>3. /\ LastRespBit \in Int /\ LastRespBit >= 4 /\ LastRespBit' = LastRespBit
      /\ cw = 0 => Awaited = 0
      /\ cw = 1 => Awaited = RespBits
      /\ cw > 1 => Awaited >= 2 * RespBits
      /\ Awaited \in Int
  BY <1>1, <1>2, ResponseBits DEF Awaited, BusyFrame
<1>4. sd_clk_en \in BOOLEAN /\ (sd_clk_en => cs # "REGOUT") /\ (Edge => sd_clk_en)
  BY <1>1, Enabled DEF sd_clk_en, Beat, Stand, Tick, Slow, Fast
<1>5. /\ cs = "IDLE" => resp = 0
      /\ cs = "WRITE" => resp <= 0
      /\ cs = "TAIL" => resp = 0 \/ resp = LastRespBit
      /\ cs = "WAIT_RESP" => resp < 0 \/ (resp > 0 /\ resp_reg \in 0 .. 2 /\ resp = resp_reg + lead)
      /\ cs = "REGOUT" => resp = 0 \/ resp = LastRespBit - Awaited + lead \/ cw = 0
      /\ cs = "READ_RESP" => /\ resp_reg = LastRespBit - Awaited + cb /\ resp = resp_reg + lead
                             /\ cb < RespBits /\ cw > 0 /\ resp_reg >= 3
  BY <1>1, <1>2 DEF Inv, CmdPlace, Controller, CmdShape, CmdCounts
<1>6. Edge /\ ~(cs = "WRITE" /\ bits + 1 = CmdBits /\ answers) =>
        /\ resp < -1 => resp' = resp + 1
        /\ resp = -1 => resp' = 1
        /\ resp = 0 \/ resp = LastRespBit => resp' = 0
        /\ resp > 0 /\ resp # LastRespBit => resp' = resp + 1
  BY <1>1, <1>3 DEF RespMove
<1>7. Edge /\ cs = "WRITE" /\ bits + 1 = CmdBits /\ answers => resp' \in -MaxRespDelay .. -2
  BY <1>1 DEF RespMove
<1>8. Replied <=> resp' = LastRespBit
  BY <1>3 DEF Replied, BusyFrame
<1>9. Edge /\ Replied => resp > 0 /\ resp + 1 = LastRespBit
  <2> SUFFICES ASSUME Edge, resp' = LastRespBit
               PROVE  resp > 0 /\ resp + 1 = LastRespBit
    BY <1>8
  <2>1. ~(cs = "WRITE" /\ bits + 1 = CmdBits /\ answers)
    BY <1>1, <1>3, <1>7
  <2> QED
    BY <1>1, <1>3, <1>6, <2>1
<1>10. cs = "READ_RESP" /\ resp = LastRespBit => lead = 1 /\ cw = 1 /\ cb = RespBits - 1
  BY <1>1, <1>3, <1>5
<1>11. cs = "READ_RESP" /\ lead = 1 /\ cw = 1 /\ cb = RespBits - 1 => resp = LastRespBit
  BY <1>1, <1>3, <1>5
<1>12. cs \in {"WAIT_RESP", "REGOUT", "WRITE", "IDLE"} /\ cs' = "READ_RESP" => resp # LastRespBit
  <2>1. cs \in {"WAIT_RESP", "WRITE", "IDLE"} => resp # LastRespBit
    BY <1>1, <1>3, <1>5
  <2>2. cs = "REGOUT" /\ cs' = "READ_RESP" => cw # 0
    BY <1>1, <1>2 DEF CmdMove, CmdStays
  <2>3. cs = "REGOUT" /\ cw # 0 => resp # LastRespBit
    BY <1>1, <1>3, <1>5
  <2> QED
    BY <2>1, <2>2, <2>3
<1>13. cs \in {"IDLE", "WRITE", "REGOUT", "TAIL"} /\ Edge => ~Replied
  BY <1>1, <1>3, <1>4, <1>5, <1>9
<1>14. Edge /\ Replied => cs' = "READ_RESP"
  <2> SUFFICES ASSUME Edge, Replied
               PROVE  cs' = "READ_RESP"
    OBVIOUS
  <2>1. cs \in {"WAIT_RESP", "READ_RESP"}
    BY <1>1, <1>13 DEF CmdStates
  <2>2. CASE cs = "WAIT_RESP"
    <3>1. resp_reg = 2 /\ lead = 1
      BY <1>1, <1>3, <1>5, <1>9, <2>2
    <3>2. clkstrb_o
      BY <1>1, <3>1 DEF Beat, Stand, Tick, Slow, Fast
    <3> QED
      BY <1>1, <1>2, <2>2, <3>1, <3>2 DEF CmdMove
  <2>3. CASE cs = "READ_RESP"
    <3>1. lead = 1 => cb # RespBits - 1
      BY <1>1, <1>3, <1>5, <1>9, <2>3
    <3>2. clkstrb_o => lead = 1
      BY <1>1 DEF Beat, Stand, Tick, Slow, Fast
    <3> QED
      BY <1>1, <1>2, <1>4, <2>3, <3>1, <3>2 DEF CmdMove, CmdStays
  <2> QED
    BY <2>1, <2>2, <2>3
<1> QED
  BY <1>9, <1>10, <1>11, <1>12, <1>13, <1>14, <1>1, <1>3

(* The state machine of the data waits for the response.                   *)
LEMMA BusyWaits ==
  ASSUME Inv, Next, BusyFrame
  PROVE  starts' \/ ~(cs' = "TAIL" \/ Over') =>
           ds' = "IDLE" /\ status_idle_dat_last' /\ "DAT_DONE" \notin CTRL'
<1>1. CmdMove
  BY SystemMoves DEF Inv, Moves
<1>2. /\ "RST" \notin CTRL /\ CMD.DMODE = "BUSY" /\ CMD.RMODE # "NONE" /\ Committed /\ op = "busy"
      /\ CMD'.COMMIT <=> CMD.COMMIT /\ ~clkstrb_o
      /\ ~clkstrb_o => CmdStays /\ DatStays /\ starts' = starts
  BY DEF BusyFrame
<1>3. starts => cs = "TAIL"
  BY <1>2 DEF Inv, Controller, CmdShape, CmdCounts, CommandOK
<1>4. sd_clk_en \in BOOLEAN
  BY DEF sd_clk_en
<1>5. cs = "TAIL" => ~CMD.COMMIT
  BY <1>2 DEF Inv, CommandOK
<1>6. (cs = "TAIL" \/ Over) /\ (clkstrb_o \/ ~starts) => (cs' = "TAIL" \/ Over') /\ ~starts'
  <2>1. CASE ~clkstrb_o
    BY <1>2, <2>1 DEF CmdStays, Over
  <2>2. CASE clkstrb_o /\ cs = "TAIL"
    BY <1>1, <1>2, <1>4, <1>5, <2>2 DEF CmdMove, CmdStays, Over
  <2>3. CASE clkstrb_o /\ Over
    BY <1>1, <1>2, <2>3 DEF CmdMove, CmdStays, Over
  <2> QED
    BY <2>1, <2>2, <2>3
<1> SUFFICES ASSUME starts' \/ ~(cs' = "TAIL" \/ Over')
             PROVE  ds' = "IDLE" /\ status_idle_dat_last' /\ "DAT_DONE" \notin CTRL'
  OBVIOUS
<1>7. starts \/ ~(cs = "TAIL" \/ Over)
  BY <1>6
<1>8. ds = "IDLE" /\ status_idle_dat_last /\ "DAT_DONE" \notin CTRL
  BY <1>2, <1>7 DEF Inv, BusyOK
<1>9. ds' = "IDLE" /\ status_idle_dat_last'
  <2>1. ~clkstrb_o \/ ~starts
    BY <1>3, <1>6
  <2>2. ds' = "IDLE"
    BY <1>2, <1>8, <2>1, IdleFrom DEF DatStays
  <2> QED
    BY <1>8, <2>2, IdleFrom
<1>10. "DAT_DONE" \notin CTRL'
  BY <1>8, RaisedIs, CtrlMoves
<1> QED
  BY <1>9, <1>10

(* How the card becomes busy, and when the controller begins to look.      *)
LEMMA BusyBegins ==
  ASSUME Inv, Next, BusyFrame, BusySteps
  PROVE  /\ cs' = "READ_RESP" /\ resp' = LastRespBit' => data' \in {-2, -1}
         /\ cs' = "REGOUT" /\ cw' = 0 => data' \in (IF Late' THEN {-1, 0} ELSE {-2, -1})
         /\ cs' = "TAIL" /\ starts' => data' \in Ahead'
<1>1. Moves /\ CmdMove /\ Beat
  BY SystemMoves DEF Inv, Moves
<1>2. /\ "RST" \notin CTRL /\ CMD.DMODE = "BUSY" /\ CMD.RMODE # "NONE" /\ Committed /\ op = "busy"
      /\ ~clkstrb_o => CmdStays /\ starts' = starts
      /\ (Late' <=> Late) /\ LastRespBit' = LastRespBit
  BY DEF BusyFrame
<1>3. /\ cs = "READ_RESP" /\ resp = LastRespBit => data \in {-2, -1}
      /\ cs = "REGOUT" /\ cw = 0 => data \in (IF Late THEN {-1, 0} ELSE {-2, -1})
      /\ cs = "TAIL" /\ starts => data \in Ahead
  BY <1>2 DEF Inv, BusyOK
<1>4. sd_clk_en \in BOOLEAN /\ (sd_clk_en => cs # "REGOUT") /\ (Edge => sd_clk_en) /\ cs \in CmdStates
      /\ lead \in {0, 1} /\ cw \in 0 .. 7
  BY <1>1, Enabled DEF sd_clk_en, Beat, Stand, Tick, Slow, Fast
<1>5. ASSUME cs' = "READ_RESP", resp' = LastRespBit
      PROVE  data' \in {-2, -1}
  <2>1. CASE Edge
    BY <1>2, <1>5, <2>1 DEF BusySteps, Replied
  <2>2. CASE ~Edge
    <3>1. data' = data /\ resp' = resp
      BY <1>1, <2>2 DEF BusySteps, Moves, CardMove, RespMove
    <3>2. cs = "READ_RESP"
      <4>1. cs # "TAIL"
        BY <1>1, <1>2, <1>4, <1>5 DEF CmdMove, CmdStays
      <4> QED
        BY <1>1, <1>4, <1>5, <3>1, <4>1, BusyResp DEF CmdStates
    <3> QED
      BY <1>3, <1>5, <3>1, <3>2
  <2> QED
    BY <2>1, <2>2
<1>6. ASSUME cs' = "REGOUT", cw' = 0
      PROVE  data' \in (IF Late' THEN {-1, 0} ELSE {-2, -1})
  <2>1. \/ cs = "REGOUT" /\ cw = 0
        \/ cs = "READ_RESP" /\ clkstrb_o /\ sd_clk_en /\ cb = RespBits - 1 /\ cw - 1 = 0
    BY <1>1, <1>2, <1>4, <1>6 DEF CmdMove, CmdStays, CmdStates
  <2>2. CASE cs = "REGOUT"
    BY <1>2, <1>3, <1>4, <2>1, <2>2 DEF BusySteps
  <2>3. CASE cs = "READ_RESP"
    <3>1. lead = 1 /\ (Late <=> Edge)
      BY <1>1, <2>1, <2>3 DEF Beat, Stand, Tick, Slow, Fast
    <3>2. resp = LastRespBit
      BY <1>1, <1>4, <2>1, <2>3, <3>1, BusyResp
    <3>3. data \in {-2, -1} /\ (Edge => ~Replied)
      BY <1>1, <1>3, <2>3, <3>2, BusyResp
    <3> QED
      BY <1>2, <3>1, <3>3 DEF BusySteps
  <2> QED
    BY <2>1, <2>2, <2>3
<1>7. ASSUME cs' = "TAIL", starts'
      PROVE  data' \in Ahead'
  <2>1. \/ cs = "TAIL" /\ starts /\ ~clkstrb_o
        \/ cs = "REGOUT" /\ cw = 0 /\ clkstrb_o
    BY <1>1, <1>2, <1>4, <1>7 DEF CmdMove, CmdStays, CmdStates
  <2>2. CASE cs = "TAIL"
    <3>1. Edge => ~Replied
      BY <1>1, <2>2, BusyResp
    <3>2. CASE Stand
      BY <1>3, <2>1, <2>2, <3>2 DEF Stand, BusySteps, Ahead
    <3>3. CASE Tick
      BY <1>3, <2>1, <2>2, <3>1, <3>3 DEF Tick, BusySteps, Ahead
    <3> QED
      BY <1>1, <2>1, <2>2, <3>2, <3>3 DEF Beat, Slow, Fast
  <2>3. CASE cs = "REGOUT"
    <3>1. ~Edge /\ lead' = (IF Late THEN 1 ELSE 0)
      BY <1>1, <1>4, <2>1, <2>3 DEF Beat, Stand, Tick, Slow, Fast
    <3> QED
      BY <1>2, <1>3, <2>1, <2>3, <3>1 DEF BusySteps, Ahead
  <2> QED
    BY <2>1, <2>2, <2>3
<1> QED
  BY <1>2, <1>5, <1>6, <1>7

(* How it ends.                                                            *)
LEMMA BusyEnds ==
  ASSUME Inv, Next, BusyFrame, BusySteps
  PROVE  /\ ds' \in {"IDLE", "WAIT_BUSY", "TAIL"}
         /\ data' \in {-2, -1, 0} /\ (data' < 0 => held' = 0)
         /\ ds' = "WAIT_BUSY" => data' \in (IF lead' = 1 THEN {0} ELSE {-1, 0})
         /\ ds' = "TAIL" => data' = 0 /\ held' = 0
         /\ ds' = "IDLE" /\ ~Ending' /\ ~starts' => data' = 0 /\ held' = 0
<1>1. Moves /\ CmdMove /\ Beat
  BY SystemMoves DEF Inv, Moves
<1>2. /\ "RST" \notin CTRL /\ CMD.DMODE = "BUSY" /\ CMD.RMODE # "NONE" /\ Committed /\ op = "busy"
      /\ ~clkstrb_o => CmdStays /\ DatStays /\ starts' = starts
      /\ clkstrb_o => IdleMoves /\ BusyMoves
      /\ (Late' <=> Late) /\ LastRespBit' = LastRespBit
      /\ ds \in {"IDLE", "WAIT_BUSY", "TAIL"}
  BY DEF BusyFrame
<1>3. /\ (data < 0 => held = 0)
      /\ starts \/ ~(cs = "TAIL" \/ Over) => ds = "IDLE"
      /\ cs = "TAIL" /\ starts => data \in Ahead
      /\ ds = "WAIT_BUSY" => data \in (IF lead = 1 THEN {0} ELSE {-1, 0})
      /\ ds = "TAIL" => data = 0 /\ held = 0
      /\ ds = "IDLE" /\ ~Ending /\ ~starts => data = 0 /\ held = 0
  BY <1>2 DEF Inv, BusyOK
<1>4. sd_clk_en \in BOOLEAN /\ (sd_clk_en => cs # "REGOUT") /\ (Edge => sd_clk_en) /\ cs \in CmdStates
      /\ lead \in {0, 1} /\ cw \in 0 .. 7
  BY <1>1, Enabled DEF sd_clk_en, Beat, Stand, Tick, Slow, Fast
<1>5. starts => cs = "TAIL" /\ ds = "IDLE"
  BY <1>2, <1>3 DEF Inv, Controller, CmdShape, CmdCounts, CommandOK
<1>6. data' \in {-2, -1, 0} /\ (data' < 0 => held' = 0)
  <2>1. data \in {-2, -1, 0}
    BY DEF BusySteps
  <2>2. CASE ~Edge
    BY <1>3, <2>1, <2>2 DEF BusySteps
  <2>3. CASE Edge
    <3>1. data = 0 \/ data = -1 \/ data = -2
      BY <2>1
    <3>2. \/ data' \in {-2, -1} /\ held' = 0
          \/ data' = 0
      BY <2>3, <3>1 DEF BusySteps
    <3> QED
      BY <3>2
  <2> QED
    BY <2>2, <2>3
<1>7. CASE ds = "IDLE" /\ starts /\ clkstrb_o
  <2>1. ds' = "WAIT_BUSY" /\ cs = "TAIL" /\ data \in Ahead
    BY <1>2, <1>3, <1>5, <1>7 DEF IdleMoves
  <2>2. sd_clk_en
    BY <1>7, <2>1, Enabled DEF Stalling
  <2>3. /\ lead = 1 /\ (Late => Edge /\ lead' = 1) /\ (~Late => ~Edge /\ lead' = 0)
        /\ Edge => ~Replied
    BY <1>1, <1>7, <2>1, <2>2, BusyResp DEF Beat, Stand, Tick, Slow, Fast
  <2>4. data' \in (IF lead' = 1 THEN {0} ELSE {-1, 0})
    BY <2>1, <2>3 DEF Ahead, BusySteps
  <2> QED
    BY <1>6, <2>1, <2>4
<1>8. CASE ds = "IDLE" /\ ~(starts /\ clkstrb_o)
  <2>1. ds' = "IDLE"
    BY <1>2, <1>8, IdleFrom DEF DatStays
  <2>2. ASSUME ~Ending', ~starts'
        PROVE  data' = 0 /\ held' = 0
    <3>1. ~starts
      BY <1>2, <1>8, <2>2
    <3>2. CASE Ending
      <4>1. CASE cs = "REGOUT" /\ cw = 0
        <5>1. (cs' = "REGOUT" /\ cw' = 0) \/ starts'
          BY <1>1, <1>2, <4>1 DEF CmdMove, CmdStays
        <5> QED
          BY <2>2, <5>1 DEF Ending
      <4>2. CASE cs = "READ_RESP" /\ resp = LastRespBit
        <5>1. lead = 1 /\ cw = 1 /\ cb = RespBits - 1
          BY <1>1, <4>2, BusyResp
        <5>2. \/ cs' = "READ_RESP" /\ ~Edge
              \/ cs' = "REGOUT" /\ cw' = cw - 1
          BY <1>1, <1>2, <1>4, <4>2, <5>1 DEF CmdMove, CmdStays, Beat, Stand, Tick, Slow, Fast
        <5>3. cs' = "READ_RESP" => resp' = LastRespBit'
          BY <1>1, <1>2, <4>2, <5>2 DEF Moves, CardMove, RespMove
        <5> QED
          BY <2>2, <5>1, <5>2, <5>3 DEF Ending
      <4> QED
        BY <3>2, <4>1, <4>2 DEF Ending
    <3>3. CASE ~Ending
      <4>1. data = 0 /\ held = 0
        BY <1>3, <1>8, <3>1, <3>3
      <4>2. ~(Edge /\ Replied)
        <5>1. Edge /\ Replied => cs' = "READ_RESP" /\ resp' = LastRespBit'
          BY <1>1, <1>2, BusyResp DEF Replied
        <5> QED
          BY <2>2, <5>1 DEF Ending
      <4> QED
        BY <4>1, <4>2 DEF BusySteps
    <3> QED
      BY <3>2, <3>3
  <2> QED
    BY <1>6, <2>1, <2>2
<1>9. CASE ds # "IDLE"
  <2>1. (cs = "TAIL" \/ cs = "IDLE") /\ ~starts
    BY <1>3, <1>9 DEF Over
  <2>2. Edge => ~Replied
    BY <1>1, <2>1, BusyResp
  <2>3. CASE ds = "TAIL"
    <3>1. ds' \in {"TAIL", "IDLE"}
      BY <1>2, <1>4, <2>3 DEF IdleMoves, DatStays
    <3>2. data' = 0 /\ held' = 0
      BY <1>3, <2>2, <2>3 DEF BusySteps
    <3> QED
      BY <3>1, <3>2
  <2>4. CASE ds = "WAIT_BUSY"
    <3>1. data \in (IF lead = 1 THEN {0} ELSE {-1, 0})
      BY <1>3, <2>4
    <3>2. \/ ds' = "WAIT_BUSY"
          \/ ds' = "TAIL" /\ clkstrb_o /\ sd_clk_en /\ held = 0
      <4>1. IsLow(dat_line) <=> held > 0
        BY DEF BusyFrame
      <4>2. held \in Nat
        BY DEF BusySteps
      <4> QED
        BY <1>2, <1>4, <2>4, <4>1, <4>2 DEF BusyMoves, DatStays
    <3>3. CASE Stand
      BY <1>6, <3>1, <3>2, <3>3 DEF Stand, BusySteps
    <3>4. CASE Tick
      BY <1>6, <2>2, <3>1, <3>2, <3>4 DEF Tick, BusySteps
    <3>5. CASE Slow
      BY <1>6, <3>1, <3>2, <3>5 DEF Slow, BusySteps
    <3>6. CASE Fast
      BY <1>6, <2>2, <3>1, <3>2, <3>6 DEF Fast, BusySteps
    <3> QED
      BY <1>1, <3>3, <3>4, <3>5, <3>6 DEF Beat
  <2> QED
    BY <1>2, <1>9, <2>3, <2>4
<1> QED
  BY <1>7, <1>8, <1>9

(* The data state machine waits as long as the card holds the line.        *)
LEMMA BusyOKStep ==
  ASSUME Inv, Next
  PROVE  BusyOK'
<1>1. Moves
  BY SystemMoves DEF Inv
<1> SUFFICES ASSUME Committed', op' = "busy"
             PROVE  BusyOK'
  BY DEF BusyOK
<1>2. CASE Begin
  <2>1. /\ cs' = "IDLE" /\ ds' = "IDLE" /\ ~starts' /\ ~drives' /\ ~runs' /\ data' = 0 /\ held' = 0
        /\ words' = 0
    BY <1>1, <1>2, Begins DEF Begin, Committed, Inv, Program
  <2>2. status_idle_dat_last' /\ "DAT_DONE" \notin CTRL'
    BY <1>1, <1>2, Begins DEF Begin, Committed, Ctrl, Inv, Clean, Moves, Lasts
  <2> QED
    BY <2>1, <2>2 DEF BusyOK
<1>3. CASE Within
  <2>1. BusyFrame /\ BusySteps
    BY <1>3, Busying
  <2>2. ~drives' /\ ~runs' /\ words' = 0
    BY <2>1 DEF BusyFrame
  <2>3. starts' \/ ~(cs' = "TAIL" \/ Over') =>
          ds' = "IDLE" /\ status_idle_dat_last' /\ "DAT_DONE" \notin CTRL'
    BY <2>1, BusyWaits
  <2>4. /\ cs' = "READ_RESP" /\ resp' = LastRespBit' => data' \in {-2, -1}
        /\ cs' = "REGOUT" /\ cw' = 0 => data' \in (IF Late' THEN {-1, 0} ELSE {-2, -1})
        /\ cs' = "TAIL" /\ starts' => data' \in Ahead'
    BY <2>1, BusyBegins
  <2>5. /\ ds' \in {"IDLE", "WAIT_BUSY", "TAIL"}
        /\ data' \in {-2, -1, 0} /\ (data' < 0 => held' = 0)
        /\ ds' = "WAIT_BUSY" => data' \in (IF lead' = 1 THEN {0} ELSE {-1, 0})
        /\ ds' = "TAIL" => data' = 0 /\ held' = 0
        /\ ds' = "IDLE" /\ ~Ending' /\ ~starts' => data' = 0 /\ held' = 0
    BY <2>1, BusyEnds
  <2> QED
    BY <2>2, <2>3, <2>4, <2>5 DEF BusyOK
<1> QED
  BY <1>2, <1>3, Kinds DEF Within

-----------------------------------------------------------------------------
(* A written block.                                                        *)

(* A commit starts it with nothing sent.                                   *)
LEMMA WriteBegins ==
  ASSUME Inv, Next, Begin, Writing'
  PROVE  WriteOK'
<1>1. Moves
  BY SystemMoves DEF Inv
<1>2. ~Committed /\ op = "write"
  BY DEF Begin, Committed, Writing
<1>3. /\ cs' = "IDLE" /\ ds' = "IDLE" /\ ~drives' /\ ~done' /\ data' = 0 /\ held' = 0
      /\ taken' = taken
  BY <1>1, <1>2, Begins
<1>4. taken = 0 /\ words = 0 /\ todo' = {} /\ at' = "poll"
  BY <1>2 DEF Begin, Inv, Clean, Program
<1>5. "BLK_DONE" \notin CTRL'
  BY <1>1, <1>2, Begins DEF Begin, Ctrl, Inv, Clean
<1>6. taken' = 0 /\ words' = 0 /\ CMD'.COMMIT /\ ~CMD'.ABRT_DAT
  BY <1>3, <1>4 DEF Begin
<1> QED
  BY <1>3, <1>4, <1>5, <1>6 DEF WriteOK, WriteShape, WriteFlags, Over

(* What an abort leaves alone: the block is complete.                      *)
LEMMA WriteAborted ==
  ASSUME Inv, Next, Within, Writing', Aborts \/ CMD.ABRT_DAT
  PROVE  /\ ds' \in {"IDLE", "TAIL", "WRITE_TAIL", "WRITE_REGIN"} /\ ~drives' /\ ~done'
         /\ taken' = BlockBits /\ words' = BlockWords /\ data' = 0 /\ held' = 0
         /\ CMD'.ABRT_DAT
         /\ (cs' = "TAIL" \/ Over') /\ resp' = 0
         /\ ds' = "WRITE_REGIN" => first' /\ ~DataTaken'
<1>1. Moves /\ Committed /\ data \in Int /\ held \in Nat
  BY SystemMoves DEF Inv, Within, Controller, Registers
<1>2. Writing
  BY DEF Within, Writing
<1>3. at = "abort" \/ CMD.ABRT_DAT
  BY DEF Aborts
<1>4. /\ ds \in {"WRITE_TAIL", "WRITE_REGIN", "TAIL", "IDLE"} /\ ~drives /\ ~done
      /\ words = BlockWords /\ taken = BlockBits /\ data = 0 /\ held = 0
  BY <1>1, <1>2, <1>3 DEF Inv, WriteOK, WriteShape, WriteFlags
<1>5. /\ ds = "WRITE_REGIN" => FLAG_DAT_DATA \/ ~status_data_dat_last
      /\ ds = "IDLE" => ~starts \/ CMD.DMODE = "NONE"
      /\ "RST" \notin CTRL
  BY <1>3, AbortState
<1>6. cs \in {"IDLE", "TAIL"} /\ resp = 0 /\ ~CMD.COMMIT
  BY <1>1, <1>3, AbortPlace DEF Inv, CommandOK
<1>7. BlockBits \in Nat /\ BlockBits > 0 /\ BlockWords \in Nat
  BY BlockBitsIs, BlockAssumption
<1>8. ds = "WRITE_REGIN" => first /\ ~DataTaken
  BY <1>1, <1>2, <1>4, <1>7 DEF Inv, WriteOK, WriteShape, WriteFlags
<1>9. words' = words /\ ~PutsWord
  <2>1. ~PutsWord /\ ~Called /\ ~TakesData
    BY <1>1, <1>2, <1>4, <1>7 DEF PutsWord, Loads, Called, TakesData, Writing, Committed
  <2> QED
    BY <2>1, Counts
<1>10. taken' = taken /\ data' = 0 /\ held' = 0 /\ resp' = 0
  <2>1. ~Asked /\ ~Ended /\ ~Replied
    BY <1>1, <1>2, <1>4 DEF Asked, Ended, Replied, Writing, Inv, Program
  <2>2. taken' = taken
    BY <1>1, <1>4 DEF Moves, CardMove, TakenMove
  <2>3. data' = 0 /\ held' = 0
    BY <1>1, <1>4, <2>1 DEF Moves, CardMove, DataMove
  <2>4. resp' = 0
    BY <1>1, <1>6 DEF Moves, CardMove, RespMove
  <2> QED
    BY <2>2, <2>3, <2>4
<1>11. CMD'.ABRT_DAT /\ ~CMD'.COMMIT
  BY <1>3, <1>6 DEF Within, Aborts, CmdKept
<1>12. cs' \in {"IDLE", "TAIL"}
  BY <1>1, <1>5, <1>6 DEF Moves, CmdMove, CmdStays, sd_clk_en
<1>13. /\ ds' \in {"IDLE", "TAIL", "WRITE_TAIL", "WRITE_REGIN"} /\ ~drives' /\ ~done'
       /\ ds' = "WRITE_REGIN" => \/ ds = "WRITE_REGIN" /\ first'
                                 \/ (ds = "WRITE_TAIL" /\ clkstrb_o /\ first')
  <2>1. CASE ~clkstrb_o
    BY <1>1, <1>4, <1>8, <2>1 DEF Moves, DatMove, DatFrame, DatStays, SameOutput
  <2>2. CASE clkstrb_o /\ CMD.ABRT_DAT /\ ds \notin {"IDLE", "TAIL"}
    BY <1>1, <1>5, <2>2 DEF Moves, DatMove, DatFrame
  <2>3. CASE clkstrb_o /\ ds \in {"IDLE", "TAIL"}
    <3>1. sd_clk_en \in BOOLEAN
      BY DEF sd_clk_en
    <3>2. ds = "IDLE" => ~(starts /\ CMD.DMODE # "NONE")
      BY <1>5
    <3>3. Normal /\ IdleMoves /\ DatFrame
      BY <1>1, <1>5, <2>3 DEF Moves, DatMove, Normal
    <3>4. ds' \in {"IDLE", "TAIL"}
      BY <2>3, <3>1, <3>2, <3>3 DEF IdleMoves, DatStays
    <3> QED
      BY <1>4, <2>3, <3>3, <3>4 DEF DatFrame, SameOutput
  <2>4. CASE clkstrb_o /\ ~CMD.ABRT_DAT /\ ds \in {"WRITE_TAIL", "WRITE_REGIN"}
    <3>1. Normal /\ WriteMoves /\ DatFrame
      BY <1>1, <1>5, <2>4 DEF Moves, DatMove, Normal
    <3>2. CASE ds = "WRITE_TAIL"
      <4>1. sd_clk_en \in BOOLEAN
        BY DEF sd_clk_en
      <4>2. first
        BY <3>2 DEF Inv, Controller, DatShape, DatCounts
      <4>3. SameOutput /\ ds' \in {"WRITE_TAIL", "WRITE_REGIN"}
        BY <3>1, <3>2, <4>1 DEF WriteMoves, DatStays, WriteStates
      <4> QED
        BY <1>4, <2>4, <3>1, <3>2, <4>2, <4>3 DEF DatFrame, SameOutput
    <3>3. CASE ds = "WRITE_REGIN"
      <4>1. FLAG_DAT_DATA
        BY <1>5, <2>4, <3>3 DEF Inv, Controller, Settled
      <4>2. DatStays /\ SameOutput
        BY <3>1, <3>3, <4>1 DEF WriteMoves
      <4> QED
        BY <1>4, <1>8, <3>1, <3>3, <4>2 DEF DatFrame, SameOutput, DatStays
    <3> QED
      BY <2>4, <3>2, <3>3
  <2> QED
    BY <1>4, <2>1, <2>2, <2>3, <2>4
<1>14. ds' = "WRITE_REGIN" => ~DataTaken'
  <2>1. status_data_dat_last' <=> ds \in {"REGOUT", "WRITE_REGIN"}
    BY <1>1 DEF Moves, Lasts
  <2>2. ds = "WRITE_REGIN" => FLAG_DAT_DATA'
    <3>1. DataSet
      <4>1. ~TakesData /\ ~DropsData
        BY <1>1, <1>2, <1>3, <1>5 DEF TakesData, DropsData, Writing, Inv, Program, Resetting
      <4> QED
        BY <1>9, <4>1, Effects
    <3> QED
      BY <1>5, <3>1 DEF DataSet
  <2> QED
    BY <1>13, <2>1, <2>2 DEF DataTaken
<1> QED
  BY <1>4, <1>9, <1>10, <1>11, <1>12, <1>13, <1>14 DEF Over

(* The system in a step of a write that no abort has ended.                *)
WriteFrame ==
  /\ Committed /\ op = "write" /\ Committed' /\ op' = "write" /\ ~Late /\ (Late' <=> Late)
  /\ "RST" \notin CTRL
  /\ ~CMD.ABRT_DAT /\ ~CMD'.ABRT_DAT /\ (CMD'.COMMIT <=> CMD.COMMIT /\ ~clkstrb_o)
  /\ CMD.DMODE = "W" /\ CMD.RMODE = "SHORT"
  /\ ds \in WriteStates \cup {"IDLE"}
  /\ ~clkstrb_o => /\ CmdStays /\ DatStays /\ SameRegister /\ SameOutput
                   /\ starts' = starts /\ done' = done
  /\ clkstrb_o => /\ IdleMoves /\ WriteMoves
                  /\ done' <=> ds = "WRITE_BUSY" /\ ds' = "WRITE_TAIL"
  /\ drives => ds \in Sending \cup {"WRITE_REGIN"}
  /\ IsLow(dat_line) <=> held > 0

WriteSteps ==
  /\ data \in Int /\ data <= 0 /\ held \in Nat
  /\ ~Edge => data' = data /\ held' = held /\ taken' = taken
  /\ Edge /\ Ended => data' = -(TokenBits + 1) /\ held' = 0
  /\ Edge /\ ~Ended => /\ data < -1 => data' = data + 1 /\ held' = held
                       /\ data = -1 => data' = 0
                       /\ data = 0 => data' = 0 /\ (held = 0 => held' = 0)
  /\ words' = words \/ PutsWord
  /\ PutsWord \/ Data
  /\ PutsWord => FLAG_DAT_DATA
  /\ FLAG_DAT_DATA => ds = "WRITE_REGIN" /\ status_data_dat_last

(* While a block is written the card sends nothing but its token.          *)
LEMMA WriteData0 ==
  ASSUME Inv, op = "write", Committed, ~CMD.ABRT_DAT
  PROVE  data <= 0 /\ ds \in WriteStates \cup {"IDLE"}
<1>1. /\ ds \in WriteStates \cup {"IDLE", "TAIL"} /\ ds # "TAIL"
      /\ ds \notin {"WRITE_STOP", "WRITE_CHECK_CRC", "WRITE_BUSY"} => data = 0
      /\ ds = "WRITE_STOP" => data = (IF lead = 1 THEN -(TokenBits + 1) ELSE 0)
      /\ ds = "WRITE_CHECK_CRC" => data = db + lead - (TokenBits + 1)
      /\ ds = "WRITE_BUSY" => data = 0 \/ data = -1
  BY DEF Inv, WriteOK, WriteShape, WriteFlags, Writing
<1>2. /\ TokenBits \in 1 .. 64 /\ db \in 0 .. 63
      /\ ds = "WRITE_CHECK_CRC" => db < TokenBits
  BY BlockAssumption, Enabled DEF Inv, Controller, DatShape, DatCounts
<1>3. lead \in {0, 1}
  BY DEF lead
<1> QED
  BY <1>1, <1>2, <1>3

(* What a clock can do while a block is written.                           *)
LEMMA WritingOn ==
  ASSUME Inv, Next, Within, Writing', ~Aborts, ~CMD.ABRT_DAT
  PROVE  WriteFrame /\ WriteSteps
<1>1. Moves /\ data \in Int /\ held \in Nat
  BY SystemMoves DEF Inv, Controller, Registers
<1>2. Committed /\ Committed' /\ op = "write" /\ op' = "write" /\ answers /\ at # "end" /\ CmdKept
  BY DEF Within, Inv, Program, Writing
<1>3. ~Late /\ CMD.DMODE = "W" /\ CMD.RMODE = "SHORT"
  BY <1>2 DEF Inv, Program, CommandOK, Mode, Response, Writing
<1>4. "RST" \notin CTRL
  BY <1>2, ResetPlace DEF Simple
<1>5. data <= 0 /\ ds \in WriteStates \cup {"IDLE"}
  BY <1>2, WriteData0
<1>6. /\ ~CMD'.ABRT_DAT /\ (CMD'.COMMIT <=> CMD.COMMIT /\ ~clkstrb_o)
      /\ Late' <=> Late
  BY <1>1, <1>2 DEF CmdKept, Moves, Beat
<1>7. /\ ~clkstrb_o => /\ CmdStays /\ DatStays /\ SameRegister /\ SameOutput
                       /\ starts' = starts /\ done' = done
      /\ clkstrb_o => /\ IdleMoves /\ WriteMoves
                      /\ done' <=> ds = "WRITE_BUSY" /\ ds' = "WRITE_TAIL"
  <2>1. clkstrb_o => Normal
    BY <1>4 DEF Normal
  <2>2. ds # "READ_FINISH"
    BY <1>5 DEF WriteStates, Sending
  <2> QED
    BY <1>1, <2>1, <2>2 DEF Moves, DatMove, DatFrame, CmdMove, CmdStays
<1>8. drives => ds \in Sending \cup {"WRITE_REGIN"}
  BY DEF Inv, Controller, DatShape, DatCounts
<1>9. dat_line = IF held > 0 THEN Low ELSE High
  BY <1>1, <1>5 DEF dat_line
<1>10. IsLow(dat_line) <=> held > 0
  BY <1>9 DEF IsLow, Start, Low, High
<1>11. ~Asked /\ ~Replied
  BY <1>2 DEF Asked, Replied
<1>12. DataMove /\ TakenMove
  BY <1>1 DEF Moves, CardMove
<1>13. /\ ~Edge => data' = data /\ held' = held /\ taken' = taken
       /\ Edge /\ Ended => data' = -(TokenBits + 1) /\ held' = 0
  BY <1>11, <1>12 DEF DataMove, TakenMove
<1>14. Edge /\ ~Ended => /\ data < -1 => data' = data + 1 /\ held' = held
                         /\ data = -1 => data' = 0
                         /\ data = 0 => data' = 0 /\ (held = 0 => held' = 0)
  BY <1>1, <1>2, <1>11, <1>12 DEF DataMove
<1>15. ~TakesData /\ ~DropsData /\ ~Called
  BY <1>2 DEF TakesData, DropsData, Called, Inv, Program, Resetting
<1>16. words' = words \/ PutsWord
  BY <1>15, Counts
<1>17. PutsWord \/ Data
  BY Effects
<1>18. PutsWord => FLAG_DAT_DATA
  BY <1>2 DEF PutsWord, Loads, Inv, Program, FlagNames, DatFlags
<1>19. FLAG_DAT_DATA => ds = "WRITE_REGIN" /\ status_data_dat_last
  BY <1>5 DEF Inv, DatFlags, WriteStates, Sending
<1> QED
  BY <1>1, <1>2, <1>3, <1>4, <1>5, <1>6, <1>7, <1>8, <1>10, <1>13, <1>14, <1>16, <1>17, <1>18,
     <1>19 DEF WriteFrame, WriteSteps

(* Before the first word: the command and its response.                    *)
LEMMA WriteIdle ==
  ASSUME Inv, Next, WriteFrame, WriteSteps, ds = "IDLE"
  PROVE  WriteShape'
<1>1. Moves /\ CmdMove /\ Beat
  BY SystemMoves DEF Inv, Moves
<1>2. /\ "RST" \notin CTRL /\ ~CMD.ABRT_DAT /\ ~CMD'.ABRT_DAT /\ Committed /\ op = "write" /\ ~Late
      /\ CMD'.COMMIT <=> CMD.COMMIT /\ ~clkstrb_o
      /\ CMD.DMODE = "W" /\ CMD.RMODE = "SHORT"
      /\ ~clkstrb_o => CmdStays /\ DatStays /\ SameRegister /\ SameOutput /\ starts' = starts
      /\ clkstrb_o => IdleMoves
  BY DEF WriteFrame
<1>3. data = 0 /\ held = 0 /\ taken = 0 /\ words = 0 /\ ~Over /\ (cs = "TAIL" => starts)
  BY <1>2 DEF Inv, WriteOK, WriteShape, Writing
<1>4. ~drives /\ ~runs /\ ~shifts /\ dat_reg = 0 /\ ~FLAG_DAT_DATA
  <2>1. ~FLAG_DAT_DATA
    BY DEF WriteSteps
  <2> QED
    BY <2>1 DEF Inv, Controller, DatShape, DatCounts, Registers, Sending
<1>5. words' = 0 /\ Data /\ ~DataTaken'
  <2>1. ~PutsWord /\ words' = words /\ Data
    BY <1>4 DEF WriteSteps
  <2>2. ~status_data_dat_last'
    BY <1>1 DEF Moves, Lasts
  <2> QED
    BY <1>3, <2>1, <2>2 DEF DataTaken
<1>6. data' = 0 /\ held' = 0 /\ taken' = 0
  <2>1. ~Ended
    BY <1>4 DEF Ended
  <2>2. taken' = taken
    BY <1>1, <1>4 DEF Moves, CardMove, TakenMove
  <2> QED
    BY <1>3, <2>1, <2>2 DEF WriteSteps
<1>7. cs \in CmdStates /\ sd_clk_en \in BOOLEAN
      /\ (CMD.COMMIT => cs = "IDLE") /\ (starts => cs = "TAIL")
      /\ cw \in 0 .. 7
  BY <1>2, Enabled DEF sd_clk_en, Inv, CommandOK, Controller, CmdShape, CmdCounts
<1>8. CASE ~(starts /\ clkstrb_o)
  <2>1. ds' = "IDLE"
    BY <1>2, <1>8 DEF DatStays, IdleMoves
  <2>2. ~Over' /\ (cs' = "TAIL" => starts')
    <3>1. CASE ~clkstrb_o
      BY <1>2, <1>3, <3>1 DEF CmdStays, Over
    <3>2. CASE clkstrb_o
      <4>1. cs = "IDLE" => CMD.COMMIT
        BY <1>3 DEF Over
      <4>2. cs # "TAIL"
        BY <1>3, <1>8, <3>2
      <4>3. cs' # "IDLE" /\ (cs' = "TAIL" => starts')
        BY <1>1, <1>2, <1>7, <3>2, <4>1, <4>2 DEF CmdMove, CmdStays, CmdStates
      <4> QED
        BY <4>3 DEF Over
    <3> QED
      BY <3>1, <3>2
  <2> QED
    BY <1>2, <1>5, <1>6, <2>1, <2>2 DEF WriteShape
<1>9. CASE starts /\ clkstrb_o
  <2>1. /\ ds' = "WRITE_REGIN" /\ first' /\ ~drives' /\ ~shifts' /\ ~reads' /\ runs'
    BY <1>2, <1>4, <1>9 DEF IdleMoves
  <2>2. cs = "TAIL" /\ sd_clk_en
    BY <1>7, <1>9, Enabled DEF Stalling
  <2>3. lead = 1 /\ ~Edge
    BY <1>1, <1>2, <1>9, <2>2 DEF Beat, Stand, Tick, Slow, Fast
  <2>4. resp = 0 /\ resp' = 0
    BY <1>1, <1>2, <2>2, <2>3 DEF Inv, CmdPlace, Moves, CardMove, RespMove
  <2>5. cs' = "TAIL" \/ Over'
    BY <1>1, <1>2, <1>9, <2>2 DEF CmdMove, CmdStays, Over
  <2>6. dat_reg' = 0
    BY <1>4, <1>5 DEF Data
  <2> QED
    BY <1>2, <1>5, <1>6, <2>1, <2>4, <2>5, <2>6 DEF WriteShape, WriteStates
<1> QED
  BY <1>8, <1>9

(* Once the data state machine runs, the command is over.                  *)
LEMMA WriteAlone ==
  ASSUME Inv, Next, WriteFrame, ds # "IDLE"
  PROVE  /\ (cs' = "TAIL" \/ Over') /\ resp' = 0 /\ cs # "REGOUT"
<1>1. Moves /\ CmdMove
  BY SystemMoves DEF Inv, Moves
<1>2. /\ "RST" \notin CTRL /\ ~CMD.ABRT_DAT /\ Committed /\ op = "write"
      /\ CMD'.COMMIT <=> CMD.COMMIT /\ ~clkstrb_o
      /\ ~clkstrb_o => CmdStays
  BY DEF WriteFrame
<1>3. (cs = "TAIL" \/ Over) /\ resp = 0
  BY <1>2 DEF Inv, WriteOK, WriteShape, Writing
<1>4. resp' = 0
  BY <1>1, <1>3 DEF Over, Moves, CardMove, RespMove
<1>5. cs' = "TAIL" \/ Over'
  <2>1. sd_clk_en \in BOOLEAN /\ (cs = "TAIL" => ~CMD.COMMIT)
    BY <1>2 DEF sd_clk_en, Inv, CommandOK
  <2> QED
    BY <1>1, <1>2, <1>3, <2>1 DEF CmdMove, CmdStays, Over
<1> QED
  BY <1>3, <1>4, <1>5 DEF Over

(* What the words come to.                                                 *)
LEMMA Sent ==
  ASSUME Inv
  PROVE  /\ dw \in 0 .. BlockWords /\ BlockWords \in Nat /\ BlockWords > 0
         /\ (BlockWords - dw) * WordBits = BlockBits - Missing
         /\ BlockBits \in Nat /\ BlockBits > 0 /\ WordBits \in 1 .. 64
         /\ 0 * WordBits = 0
<1>1. dw \in 0 .. BlockWords /\ BlockWords \in 1 .. 511 /\ WordBits \in 1 .. 64
  BY Enabled, BlockAssumption
<1>2. \A a, b, c \in Int : (a - b) * c = a * c - b * c
  OBVIOUS
<1>3. (BlockWords - dw) * WordBits = BlockWords * WordBits - dw * WordBits
  BY <1>1, <1>2
<1> QED
  BY <1>1, <1>3, BlockBitsIs DEF BlockBits, Missing

(* The controller waits for a word.                                        *)
LEMMA WriteWaits ==
  ASSUME Inv, Next, WriteFrame, WriteSteps, ds = "WRITE_REGIN"
  PROVE  /\ WriteShape'
         /\ ~drives /\ taken = BlockBits => ds' = "WRITE_REGIN" /\ ~drives'
<1>1. Moves /\ Beat /\ dw \in Int /\ dat_reg \in Int /\ taken \in Int /\ words \in Int /\ db \in Int
  BY SystemMoves, Enabled DEF Inv, Moves, Controller, Registers
<1>2. /\ "RST" \notin CTRL /\ ~CMD.ABRT_DAT /\ ~CMD'.ABRT_DAT /\ Committed /\ op = "write" /\ ~Late
      /\ ~clkstrb_o => DatStays /\ SameRegister /\ SameOutput
      /\ clkstrb_o => WriteMoves
  BY DEF WriteFrame
<1>3. data = 0 /\ held = 0
  BY <1>2 DEF Inv, WriteOK, WriteShape, Writing
<1>4. ~Edge /\ ~sd_clk_en /\ (clkstrb_o => lead' = 0)
  <2>1. ~sd_clk_en
    BY Enabled DEF Stalling
  <2> QED
    BY <1>1, <1>2, <2>1 DEF Beat, Stand, Tick, Slow, Fast
<1>5. data' = 0 /\ held' = 0 /\ taken' = taken
  BY <1>3, <1>4 DEF WriteSteps
<1>6. (cs' = "TAIL" \/ Over') /\ resp' = 0
  BY WriteAlone
<1>7. status_data_dat_last' /\ (clkstrb_o => status_data_dat_last)
  BY <1>1 DEF Moves, Lasts, Inv, Controller, Settled
<1>8. FLAG_DAT_DATA => ~DataTaken
  BY DEF DataTaken
<1>9. PutsWord => /\ FLAG_DAT_DATA /\ words < BlockWords /\ words' = words + 1 /\ DataTaken'
                  /\ dat_reg' = IF ~runs' \/ ~runs THEN 0 ELSE words * WordBits
  BY <1>7 DEF PutsWord, Loads, WriteSteps, DataTaken
<1>10. ~PutsWord => (DataTaken' <=> DataTaken) /\ words' = words /\ Data
  <2>1. ~TakesData /\ ~DropsData
    BY <1>2 DEF TakesData, DropsData, Inv, Program, Resetting
  <2>2. ~PutsWord => DataSet
    BY <2>1, Effects
  <2>3. DataSet => (DataTaken' <=> DataTaken)
    <3>1. FLAG_DAT_DATA \in BOOLEAN /\ status_data_dat_last \in BOOLEAN
      BY DEF Inv, Controller, Registers
    <3>2. ds \in {"REGOUT", "WRITE_REGIN"}
      OBVIOUS
    <3> QED
      BY <1>7, <3>1, <3>2 DEF DataSet, DataTaken
  <2> QED
    BY <2>2, <2>3 DEF WriteSteps
<1>11. ~PutsWord => dat_reg' = IF ~runs' \/ ~runs THEN 0 ELSE dat_reg
  BY <1>4, <1>10 DEF Data, Shift
<1>12. SameRegister /\ ds' \in {"WRITE_REGIN", "WRITE_START", "WRITE_DATA"}
  BY <1>2 DEF WriteMoves, WriteStates, DatStays
<1>13. ~(FLAG_DAT_DATA \/ ~clkstrb_o) => DataTaken /\ ~PutsWord
  BY <1>7, <1>9 DEF DataTaken
<1>14. FLAG_DAT_DATA \/ ~clkstrb_o =>
         /\ ds' = "WRITE_REGIN" /\ dw' = dw /\ Missing' = Missing
         /\ sends' = sends /\ (first' <=> first) /\ (drives' <=> drives)
  <2>1. FLAG_DAT_DATA \/ ~clkstrb_o => DatStays /\ SameOutput
    BY <1>2 DEF WriteMoves
  <2>2. DatStays => ds' = "WRITE_REGIN" /\ dw' = dw /\ Missing' = Missing
    BY Words DEF DatStays
  <2>3. SameOutput => sends' = sends /\ (first' <=> first) /\ (drives' <=> drives)
    BY DEF SameOutput
  <2> QED
    BY <2>1, <2>2, <2>3
<1>15. dw' = dw => Missing' = Missing
  BY Words
<1>16. CASE first /\ ~drives /\ taken = 0
  <2>1. dat_reg = 0 /\ ~shifts /\ runs /\ ~reads /\ words = (IF DataTaken THEN 1 ELSE 0)
        /\ ~(taken = BlockBits)
    BY <1>2, <1>16, Sent DEF Inv, WriteOK, WriteShape, Writing
  <2>2. dat_reg' = 0 /\ ~shifts' /\ runs' /\ ~reads'
    <3>1. PutsWord => words = 0
      BY <1>8, <1>9, <2>1
    <3> QED
      BY <1>9, <1>11, <1>12, <2>1, <3>1, Sent DEF SameRegister
  <2>3. CASE FLAG_DAT_DATA \/ ~clkstrb_o
    <3>1. words' = (IF DataTaken' THEN 1 ELSE 0)
      BY <1>8, <1>9, <1>10, <2>1
    <3>2. ds' = "WRITE_REGIN" /\ first' /\ ~drives'
      BY <1>14, <1>16, <2>3
    <3> QED
      BY <1>5, <1>6, <1>16, <2>1, <2>2, <3>1, <3>2 DEF WriteShape, WriteStates
  <2>4. CASE ~(FLAG_DAT_DATA \/ ~clkstrb_o)
    <3>1. words' = 1
      BY <1>10, <1>13, <2>1, <2>4
    <3>2. ds' = "WRITE_START" /\ sends' = "start"
      BY <1>2, <1>16, <2>4 DEF WriteMoves
    <3> QED
      BY <1>5, <1>6, <1>16, <2>1, <2>2, <3>1, <3>2 DEF WriteShape, WriteStates, Sending
  <2> QED
    BY <2>3, <2>4
<1>17. CASE ~first
  <2>1. /\ drives /\ sends = "data" /\ shifts /\ runs /\ ~reads /\ dw < BlockWords
        /\ dat_reg = BlockBits - Missing /\ taken = dat_reg
        /\ words = BlockWords - dw + (IF DataTaken THEN 1 ELSE 0)
    BY <1>2, <1>17 DEF Inv, WriteOK, WriteShape, Writing
  <2>2. dat_reg' = dat_reg /\ shifts' /\ runs' /\ ~reads'
    <3>1. PutsWord => words = BlockWords - dw
      BY <1>1, <1>8, <1>9, <2>1, Sent
    <3>2. runs' /\ shifts' /\ ~reads'
      BY <1>12, <2>1 DEF SameRegister
    <3>3. PutsWord => dat_reg' = BlockBits - Missing
      BY <1>9, <2>1, <3>1, <3>2, Sent
    <3> QED
      BY <1>11, <2>1, <3>2, <3>3
  <2>3. CASE FLAG_DAT_DATA \/ ~clkstrb_o
    <3>1. words' = BlockWords - dw + (IF DataTaken' THEN 1 ELSE 0)
      BY <1>1, <1>8, <1>9, <1>10, <2>1, Sent
    <3>2. ds' = "WRITE_REGIN" /\ ~first' /\ drives' /\ sends' = "data" /\ dw' = dw
          /\ Missing' = Missing
      BY <1>14, <1>17, <2>1, <2>3
    <3> QED
      BY <1>5, <1>6, <2>1, <2>2, <3>1, <3>2 DEF WriteShape, WriteStates
  <2>4. CASE ~(FLAG_DAT_DATA \/ ~clkstrb_o)
    <3>1. words' = BlockWords - dw + 1
      BY <1>1, <1>10, <1>13, <2>1, <2>4
    <3>2. /\ ds' = "WRITE_DATA" /\ dw' = dw /\ db' = 0 /\ Missing' = Missing /\ lead' = 0
          /\ sends' = sends /\ (first' <=> first)
      <4>1. ds' = "WRITE_DATA" /\ dw' = dw /\ db' = 0 /\ SameOutput
        BY <1>2, <1>17, <2>4 DEF WriteMoves
      <4> QED
        BY <1>4, <1>15, <2>4, <4>1 DEF SameOutput
    <3>3. dat_reg' = BlockBits - Missing + 0 /\ taken' = dat_reg' + 0
      BY <1>1, <1>5, <2>1, <2>2, Sent, Words
    <3> QED
      <4>1. /\ dat_reg' = BlockBits' - Missing' + db' /\ taken' = dat_reg' + lead'
            /\ words' = BlockWords - dw' + 1
        BY <3>1, <3>2, <3>3 DEF BlockBits
      <4> QED
        BY <1>3, <1>5, <1>6, <1>17, <2>1, <2>2, <3>2, <4>1 DEF WriteShape, WriteStates, Sending
  <2> QED
    BY <2>1, <2>3, <2>4
<1>18. CASE first /\ ~(~drives /\ taken = 0)
  <2>1. ~drives /\ taken = BlockBits /\ words = BlockWords /\ ~DataTaken
    BY <1>2, <1>18 DEF Inv, WriteOK, WriteShape, Writing
  <2>2. ~PutsWord /\ (FLAG_DAT_DATA \/ ~clkstrb_o)
    BY <1>9, <1>13, <2>1, Sent
  <2>3. ds' = "WRITE_REGIN" /\ first' /\ ~drives' /\ words' = BlockWords /\ ~DataTaken'
    BY <1>10, <1>14, <1>18, <2>1, <2>2
  <2> QED
    BY <1>5, <1>6, <2>1, <2>3 DEF WriteShape, WriteStates
<1> QED
  BY <1>16, <1>17, <1>18

(* The first word starts the block.                                        *)
LEMMA WriteStarts ==
  ASSUME Inv, Next, WriteFrame, WriteSteps, ds = "WRITE_START"
  PROVE  WriteShape'
<1>1. Moves /\ Beat /\ dw \in Int /\ dat_reg \in Int /\ taken \in Int /\ words \in Int /\ db \in Int
  BY SystemMoves, Enabled DEF Inv, Moves, Controller, Registers
<1>2. /\ "RST" \notin CTRL /\ ~CMD.ABRT_DAT /\ ~CMD'.ABRT_DAT /\ Committed /\ op = "write" /\ ~Late
      /\ ~clkstrb_o => DatStays /\ SameRegister /\ SameOutput
      /\ clkstrb_o => WriteMoves
  BY DEF WriteFrame
<1>3. /\ data = 0 /\ held = 0 /\ taken = 0 /\ dat_reg = 0 /\ words = 1 /\ sends = "start"
      /\ ~shifts /\ runs /\ ~reads
  BY <1>2 DEF Inv, WriteOK, WriteShape, Writing, WriteStates, Sending
<1>4. words' = 1 /\ Data
  BY <1>3 DEF WriteSteps
<1>5. data' = 0 /\ held' = 0 /\ taken' = 0
  BY <1>1, <1>3 DEF WriteSteps, Ended, Moves, CardMove, TakenMove
<1>6. (cs' = "TAIL" \/ Over') /\ resp' = 0
  BY WriteAlone
<1>7. reads' = reads /\ dat_reg' = 0
  BY <1>2, <1>3, <1>4 DEF Data, WriteMoves, WriteStates, Sending, SameRegister
<1>8. CASE ~(clkstrb_o /\ sd_clk_en)
  <2>1. DatStays /\ SameRegister /\ SameOutput
    BY <1>2, <1>8 DEF WriteMoves, WriteStates, Sending
  <2> QED
    BY <1>3, <1>4, <1>5, <1>6, <1>7, <2>1
    DEF DatStays, SameRegister, SameOutput, WriteShape, WriteStates, Sending
<1>9. CASE clkstrb_o /\ sd_clk_en
  <2>1. /\ ds' = "WRITE_DATA" /\ db' = 0 /\ dw' = BlockWords /\ sends' = "data"
        /\ ~first' /\ shifts' /\ runs' /\ lead' = 0 /\ Missing' = BlockBits
    BY <1>1, <1>2, <1>3, <1>9, Words
    DEF WriteMoves, Inv, Controller, DatShape, DatCounts, Beat, Stand, Tick, Slow, Fast
  <2>2. 0 = BlockBits - BlockBits + 0 /\ 1 = BlockWords - BlockWords + 1 /\ 0 = 0 + 0
    BY Sent
  <2> QED
    BY <1>3, <1>4, <1>5, <1>6, <1>7, <2>1, <2>2 DEF WriteShape, WriteStates, Sending
<1> QED
  BY <1>8, <1>9

(* The bits of a word.                                                     *)
LEMMA WriteSends ==
  ASSUME Inv, Next, WriteFrame, WriteSteps, ds = "WRITE_DATA"
  PROVE  WriteShape'
<1>1. Moves /\ Beat /\ dw \in Int /\ dat_reg \in Int /\ taken \in Int /\ words \in Int /\ db \in Int
      /\ lead \in {0, 1} /\ BlockBits \in Int /\ BlockWords \in Int /\ Missing \in Int
      /\ WordBits \in Int
  BY SystemMoves, Enabled, Words, Sent DEF Inv, Moves, Controller, Registers, Beat
<1>2. /\ "RST" \notin CTRL /\ ~CMD.ABRT_DAT /\ ~CMD'.ABRT_DAT /\ Committed /\ op = "write" /\ ~Late
      /\ ~clkstrb_o => DatStays /\ SameRegister /\ SameOutput
      /\ clkstrb_o => WriteMoves
  BY DEF WriteFrame
<1>3. /\ data = 0 /\ held = 0 /\ sends = "data" /\ ~first /\ shifts /\ runs /\ ~reads /\ drives
      /\ dat_reg = BlockBits - Missing + db
      /\ taken = dat_reg + lead /\ words = BlockWords - dw + 1
  BY <1>2 DEF Inv, WriteOK, WriteShape, Writing, WriteStates, Sending, Controller, DatShape,
     DatCounts
<1>4. words' = words /\ Data /\ ~DataTaken'
  BY <1>1 DEF WriteSteps, Moves, Lasts, DataTaken
<1>5. data' = 0 /\ held' = 0
  BY <1>3 DEF WriteSteps, Ended
<1>6. (cs' = "TAIL" \/ Over') /\ resp' = 0
  BY WriteAlone
<1>7. sd_clk_en
  BY WriteAlone, Enabled DEF Stalling
<1>8. SameRegister /\ first' = first /\ drives' = drives
  BY <1>2 DEF WriteMoves, WriteStates, Sending, SameOutput
<1>9. runs' /\ shifts' /\ ~reads' /\ ~first' /\ drives'
  BY <1>3, <1>8 DEF SameRegister
<1>10. dat_reg' = IF Shift THEN dat_reg + 1 ELSE dat_reg
  BY <1>3, <1>4, <1>9 DEF Data
<1>11. taken' = IF Edge /\ lead = 0 THEN taken + 1 ELSE taken
  BY <1>1, <1>3 DEF Moves, CardMove, TakenMove, Beat, Stand, Tick, Slow, Fast
<1>12. CASE ~clkstrb_o
  <2>1. ds' = "WRITE_DATA" /\ db' = db /\ dw' = dw /\ sends' = "data" /\ Missing' = Missing
    BY <1>2, <1>3, <1>12, Words DEF DatStays, SameOutput
  <2>2. taken' = dat_reg' + lead' /\ dat_reg' = dat_reg
    <3>1. CASE Stand
      BY <1>3, <1>10, <1>11, <3>1 DEF Stand
    <3>2. CASE Tick
      BY <1>1, <1>3, <1>10, <1>11, <3>2 DEF Tick
    <3> QED
      BY <1>1, <1>12, <3>1, <3>2 DEF Beat, Slow, Fast
  <2>3. dat_reg' = BlockBits' - Missing' + db' /\ words' = BlockWords - dw' + 1
    BY <1>3, <1>4, <2>1, <2>2 DEF BlockBits
  <2> QED
    BY <1>5, <1>6, <1>9, <2>1, <2>2, <2>3 DEF WriteShape, WriteStates, Sending
<1>13. CASE clkstrb_o
  <2>1. lead = 1 /\ lead' = 0 /\ Shift /\ ~Edge
    BY <1>1, <1>2, <1>7, <1>13 DEF Beat, Stand, Tick, Slow, Fast
  <2>2. dat_reg' = dat_reg + 1 /\ taken' = dat_reg + 1
    BY <1>3, <1>10, <1>11, <2>1
  <2>3. CASE db # WordBits - 1
    <3>1. ds' = "WRITE_DATA" /\ db' = db + 1 /\ dw' = dw /\ sends' = "data" /\ Missing' = Missing
      BY <1>2, <1>3, <1>7, <1>13, <2>3, Words DEF WriteMoves, SameOutput
    <3>2. dat_reg + 1 = BlockBits - Missing + (db + 1) /\ dat_reg + 1 = (dat_reg + 1) + 0
      BY <1>1, <1>3
    <3>3. /\ dat_reg' = BlockBits' - Missing' + db' /\ words' = BlockWords - dw' + 1
          /\ taken' = dat_reg' + lead'
      BY <1>3, <1>4, <2>1, <2>2, <3>1, <3>2 DEF BlockBits
    <3> QED
      BY <1>5, <1>6, <1>9, <3>1, <3>3 DEF WriteShape, WriteStates, Sending
  <2>4. CASE db = WordBits - 1 /\ dw # 1
    <3>1. /\ ds' = "WRITE_REGIN" /\ dw' = dw - 1 /\ sends' = "data" /\ Missing' = Missing - WordBits
      <4>1. ds' = "WRITE_REGIN" /\ dw' = dw - 1 /\ SameOutput
        BY <1>2, <1>7, <1>13, <2>4 DEF WriteMoves
      <4>2. dw > 0
        BY DEF Inv, Controller, DatShape, DatCounts
      <4> QED
        BY <1>3, <4>1, <4>2, Words DEF SameOutput
    <3>2. /\ dat_reg + 1 = BlockBits - (Missing - WordBits) /\ BlockWords - dw + 1 = BlockWords - (dw - 1) + 0
          /\ dw - 1 < BlockWords
      BY <1>1, <1>3, <2>4, Sent
    <3>3. /\ dat_reg' = BlockBits' - Missing' /\ words' = BlockWords - dw' + 0
          /\ taken' = dat_reg' /\ dw' < BlockWords
      BY <1>3, <1>4, <2>2, <3>1, <3>2 DEF BlockBits
    <3> QED
      BY <1>4, <1>5, <1>6, <1>9, <3>1, <3>3 DEF WriteShape, WriteStates, Sending
  <2>5. CASE db = WordBits - 1 /\ dw = 1
    <3>1. ds' = "WRITE_CRC" /\ sends' = "crc"
      BY <1>2, <1>7, <1>13, <2>5 DEF WriteMoves
    <3>2. dat_reg + 1 = BlockBits /\ words = BlockWords
      BY <1>1, <1>3, <2>5, Words
    <3>3. taken' = BlockBits' /\ words' = BlockWords
      BY <1>4, <2>2, <3>2 DEF BlockBits
    <3> QED
      BY <1>5, <1>6, <3>1, <3>3 DEF WriteShape, WriteStates, Sending
  <2> QED
    BY <2>3, <2>4, <2>5
<1> QED
  BY <1>12, <1>13

(* The CRC, its status, and busy.                                          *)
LEMMA WriteRest ==
  ASSUME Inv, Next, WriteFrame, WriteSteps,
         ds \in {"WRITE_CRC", "WRITE_STOP", "WRITE_CHECK_CRC", "WRITE_BUSY", "WRITE_TAIL"}
  PROVE  WriteShape' /\ (ds' = "WRITE_TAIL" /\ ds # "WRITE_TAIL" => held' = 0)
<1>1. Moves /\ Beat /\ db \in Int /\ lead \in {0, 1} /\ TokenBits \in Int /\ TokenBits > 0
      /\ held \in Nat
  BY SystemMoves, Enabled, BlockAssumption DEF Inv, Moves, Beat, Controller, Registers
<1>2. /\ "RST" \notin CTRL /\ ~CMD.ABRT_DAT /\ ~CMD'.ABRT_DAT /\ Committed /\ op = "write" /\ ~Late
      /\ ~clkstrb_o => DatStays /\ SameRegister /\ SameOutput
      /\ clkstrb_o => WriteMoves
      /\ drives => ds \in Sending
      /\ IsLow(dat_line) <=> held > 0
  BY DEF WriteFrame
<1>3. /\ taken = BlockBits /\ words = BlockWords
      /\ ds \in {"WRITE_CRC", "WRITE_STOP"} => sends # "data"
      /\ ds \in {"WRITE_CRC", "WRITE_TAIL"} => data = 0 /\ held = 0
      /\ ds = "WRITE_STOP" => held = 0 /\ data = (IF lead = 1 THEN -(TokenBits + 1) ELSE 0)
      /\ ds = "WRITE_CHECK_CRC" => held = 0 /\ data = db + lead - (TokenBits + 1)
      /\ ds = "WRITE_BUSY" => data = 0 \/ (data = -1 /\ held = 0 /\ lead = 0)
  BY <1>2 DEF Inv, WriteOK, WriteShape, Writing
<1>4. words' = BlockWords /\ Data /\ ~DataTaken'
  BY <1>1, <1>3 DEF WriteSteps, Moves, Lasts, DataTaken
<1>5. taken' = BlockBits'
  BY <1>1, <1>2, <1>3 DEF Moves, CardMove, TakenMove, Sending, BlockBits
<1>6. (cs' = "TAIL" \/ Over') /\ resp' = 0
  BY WriteAlone
<1>7. sd_clk_en
  BY WriteAlone, Enabled DEF Stalling
<1>8. /\ ds \in {"WRITE_STOP", "WRITE_CRC"} => db \in Nat /\ (ds = "WRITE_STOP" => db = 0) /\ drives
      /\ ds = "WRITE_CHECK_CRC" => db < TokenBits /\ db >= 0
      /\ ds \in {"WRITE_BUSY", "WRITE_TAIL"} => first /\ ~drives
  BY <1>2, Enabled DEF Inv, Controller, DatShape, DatCounts, Sending
<1>9. ASSUME ~clkstrb_o
      PROVE  /\ ds' = ds /\ db' = db /\ sends' = sends /\ (first' <=> first) /\ (drives' <=> drives)
             /\ Stand \/ Tick
  BY <1>1, <1>2, <1>9 DEF DatStays, SameOutput, Beat, Slow, Fast
<1>10. ASSUME clkstrb_o
       PROVE  lead = 1 /\ lead' = 0 /\ data' = data /\ held' = held /\ WriteMoves
  BY <1>1, <1>2, <1>7, <1>10 DEF Beat, Stand, Tick, Slow, Fast, WriteSteps
<1>11. CASE ds = "WRITE_CRC"
  <2>1. data' = 0 /\ held' = 0
    BY <1>3, <1>11 DEF WriteSteps, Ended
  <2>2. /\ \/ ds' = "WRITE_CRC"
           \/ ds' = "WRITE_STOP" /\ lead' = 0
        /\ sends' # "data"
    <3>1. CASE ~clkstrb_o
      BY <1>3, <1>9, <1>11, <3>1
    <3>2. CASE clkstrb_o
      BY <1>3, <1>7, <1>10, <1>11, <3>2 DEF WriteMoves, SameOutput
    <3> QED
      BY <3>1, <3>2
  <2> QED
    BY <1>4, <1>5, <1>6, <2>1, <2>2 DEF WriteShape, WriteStates, Sending
<1>12. CASE ds = "WRITE_STOP"
  <2>1. CASE Stand
    <3>1. ds' = "WRITE_STOP" /\ sends' # "data" /\ held' = 0 /\ data' = data /\ lead' = lead
      BY <1>3, <1>9, <1>12, <2>1 DEF Stand, WriteSteps
    <3> QED
      BY <1>3, <1>4, <1>5, <1>6, <1>12, <3>1 DEF WriteShape, WriteStates, Sending
  <2>2. CASE Tick
    <3>1. ds' = "WRITE_STOP" /\ sends' # "data" /\ held' = 0 /\ data' = -(TokenBits + 1)
          /\ lead' = 1
      BY <1>3, <1>8, <1>9, <1>12, <2>2 DEF Tick, WriteSteps, Ended
    <3> QED
      BY <1>4, <1>5, <1>6, <3>1 DEF WriteShape, WriteStates, Sending
  <2>3. CASE clkstrb_o
    <3>1. ds' = "WRITE_CHECK_CRC" /\ db' = 0 /\ held' = 0 /\ lead' = 0
      BY <1>3, <1>7, <1>8, <1>10, <1>12, <2>3 DEF WriteMoves
    <3>2. data' = -(TokenBits + 1)
      BY <1>3, <1>10, <1>12, <2>3
    <3>3. 0 + 0 - (TokenBits + 1) = -(TokenBits + 1)
      BY <1>1
    <3>4. data' = db' + lead' - (TokenBits + 1)
      BY <3>1, <3>2, <3>3
    <3> QED
      BY <1>4, <1>5, <1>6, <3>1, <3>4 DEF WriteShape, WriteStates, Sending
  <2> QED
    BY <1>9, <2>1, <2>2, <2>3
<1>13. CASE ds = "WRITE_CHECK_CRC"
  <2>1. CASE Stand
    <3>1. ds' = ds /\ db' = db /\ held' = 0 /\ data' = data /\ lead' = lead
      BY <1>3, <1>9, <1>13, <2>1 DEF Stand, WriteSteps
    <3> QED
      BY <1>3, <1>4, <1>5, <1>6, <1>13, <3>1 DEF WriteShape, WriteStates, Sending
  <2>2. CASE Tick
    <3>1. ds' = ds /\ db' = db /\ lead' = 1 /\ lead = 0 /\ Edge /\ ~Ended
      BY <1>8, <1>9, <1>2, <1>13, <2>2 DEF Tick, Ended
    <3>2. data < -1 /\ held = 0 /\ data + 1 = db + 1 - (TokenBits + 1)
      BY <1>1, <1>3, <1>8, <1>13, <3>1
    <3>3. data' = db' + lead' - (TokenBits + 1) /\ held' = 0
      BY <3>1, <3>2 DEF WriteSteps
    <3> QED
      BY <1>4, <1>5, <1>6, <1>13, <3>1, <3>3 DEF WriteShape, WriteStates, Sending
  <2>3. CASE clkstrb_o /\ db # TokenBits - 1
    <3>1. ds' = "WRITE_CHECK_CRC" /\ db' = db + 1 /\ held' = 0 /\ lead' = 0 /\ data' = data
      BY <1>3, <1>7, <1>10, <1>13, <2>3 DEF WriteMoves
    <3>2. data = (db + 1) + 0 - (TokenBits + 1)
      BY <1>1, <1>3, <1>10, <1>13, <2>3
    <3>3. data' = db' + lead' - (TokenBits + 1)
      BY <3>1, <3>2
    <3> QED
      BY <1>4, <1>5, <1>6, <3>1, <3>3 DEF WriteShape, WriteStates, Sending
  <2>4. CASE clkstrb_o /\ db = TokenBits - 1
    <3>1. ds' = "WRITE_BUSY" /\ held' = 0 /\ lead' = 0 /\ data' = data
      BY <1>3, <1>7, <1>10, <1>13, <2>4 DEF WriteMoves
    <3>2. data = -1
      BY <1>1, <1>3, <1>10, <1>13, <2>4
    <3> QED
      BY <1>4, <1>5, <1>6, <3>1, <3>2 DEF WriteShape, WriteStates, Sending
  <2> QED
    BY <1>9, <2>1, <2>2, <2>3, <2>4
<1>14. CASE ds = "WRITE_BUSY"
  <2>1. ~Ended
    BY <1>14 DEF Ended
  <2>2. CASE Stand
    <3>1. ds' = ds /\ held' = held /\ data' = data /\ lead' = lead
      BY <1>9, <2>2 DEF Stand, WriteSteps
    <3> QED
      BY <1>3, <1>4, <1>5, <1>6, <1>14, <3>1 DEF WriteShape, WriteStates, Sending
  <2>3. CASE Tick
    <3>1. ds' = ds /\ data' = 0
      BY <1>3, <1>9, <1>14, <2>1, <2>3 DEF Tick, WriteSteps
    <3> QED
      BY <1>4, <1>5, <1>6, <1>14, <3>1 DEF WriteShape, WriteStates, Sending
  <2>4. CASE clkstrb_o
    <3>1. data = 0 /\ data' = 0 /\ held' = held
      BY <1>3, <1>10, <1>14, <2>4
    <3>2. ds' = "WRITE_BUSY" \/ (ds' = "WRITE_TAIL" /\ held = 0)
      BY <1>1, <1>2, <1>7, <1>10, <1>14, <2>4 DEF WriteMoves, DatStays
    <3> QED
      BY <1>4, <1>5, <1>6, <1>14, <3>1, <3>2 DEF WriteShape, WriteStates, Sending
  <2> QED
    BY <1>9, <2>2, <2>3, <2>4
<1>15. CASE ds = "WRITE_TAIL"
  <2>1. data' = 0 /\ held' = 0
    BY <1>3, <1>15 DEF WriteSteps, Ended
  <2>2. ds' \in {"WRITE_TAIL", "WRITE_REGIN"} /\ first' /\ ~drives'
    <3>1. CASE ~clkstrb_o
      BY <1>8, <1>9, <1>15, <3>1
    <3>2. CASE clkstrb_o
      <4>1. ds' \in {"WRITE_TAIL", "WRITE_REGIN"} /\ SameOutput
        BY <1>7, <1>10, <1>15, <3>2 DEF WriteMoves
      <4> QED
        BY <1>8, <1>15, <4>1 DEF SameOutput
    <3> QED
      BY <3>1, <3>2
  <2> QED
    BY <1>4, <1>5, <1>6, <1>15, <2>1, <2>2 DEF WriteShape, WriteStates, Sending
<1> QED
  BY <1>11, <1>12, <1>13, <1>14, <1>15

(* When the block is announced as done.                                    *)
LEMMA WriteEnds ==
  ASSUME Inv, Next, WriteFrame, WriteSteps
  PROVE  WriteFlags'
<1>1. Moves
  BY SystemMoves DEF Inv
<1>2. /\ ~CMD.ABRT_DAT /\ ~CMD'.ABRT_DAT /\ Committed /\ op = "write"
      /\ ~clkstrb_o => DatStays /\ SameOutput /\ done' = done
      /\ clkstrb_o => /\ WriteMoves
                      /\ done' <=> ds = "WRITE_BUSY" /\ ds' = "WRITE_TAIL"
  BY DEF WriteFrame
<1>3. ASSUME "BLK_DONE" \in CTRL' \cup todo' \/ at' = "abort"
      PROVE  "BLK_DONE" \in CTRL \cup todo \/ at = "abort" \/ (clkstrb_o /\ done)
  <2>1. "BLK_DONE" \in CTRL' => "BLK_DONE" \in CTRL \/ (clkstrb_o /\ done)
    BY CtrlMoves, RaisedIs
  <2>2. "BLK_DONE" \in todo' => "BLK_DONE" \in CTRL \cup todo
    BY Counts DEF Status
  <2>3. at' = "abort" => at = "abort" \/ "BLK_DONE" \in todo
    BY Whence DEF EndsBlock, Inv, Program, FlagNames
  <2> QED
    BY <1>3, <2>1, <2>2, <2>3
<1>4. ASSUME "BLK_DONE" \in CTRL \cup todo \/ at = "abort" \/ (clkstrb_o /\ done)
      PROVE  /\ ds \in {"WRITE_TAIL", "WRITE_REGIN"} /\ ~drives /\ words = BlockWords
             /\ taken = BlockBits /\ (done => ds = "WRITE_TAIL" /\ clkstrb_o)
  <2>1. CASE "BLK_DONE" \in CTRL \cup todo \/ at = "abort"
    <3>1. /\ ds \in {"WRITE_TAIL", "WRITE_REGIN", "TAIL", "IDLE"} /\ ~drives /\ ~done
          /\ words = BlockWords /\ taken = BlockBits
      BY <1>2, <2>1 DEF Inv, WriteOK, WriteFlags, Writing
    <3>2. ds # "TAIL" /\ ds # "IDLE"
      BY <1>2, <3>1, Sent DEF Inv, WriteOK, WriteShape, Writing
    <3> QED
      BY <3>1, <3>2
  <2>2. CASE clkstrb_o /\ done
    <3>1. ds = "WRITE_TAIL"
      BY <2>2, Owner, <1>2 DEF Inv, Controller, DatShape, DatCounts, ReadStates
    <3>2. ~drives
      BY <3>1 DEF Inv, Controller, DatShape, DatCounts, Sending
    <3> QED
      BY <1>2, <2>2, <3>1, <3>2 DEF Inv, WriteOK, WriteShape, Writing
  <2> QED
    BY <1>4, <2>1, <2>2
<1>5. ASSUME "BLK_DONE" \in CTRL \cup todo \/ at = "abort" \/ (clkstrb_o /\ done)
      PROVE  /\ ds' \in {"WRITE_TAIL", "WRITE_REGIN"} /\ ~drives' /\ ~done'
             /\ words' = BlockWords /\ taken' = BlockBits
  <2>1. /\ ds \in {"WRITE_TAIL", "WRITE_REGIN"} /\ ~drives /\ words = BlockWords
        /\ taken = BlockBits /\ (done => ds = "WRITE_TAIL" /\ clkstrb_o)
    BY <1>4, <1>5
  <2>2. taken' = BlockBits /\ words' = BlockWords
    <3>1. taken' = taken
      BY <1>1, <2>1 DEF Moves, CardMove, TakenMove
    <3>2. ~PutsWord
      BY <2>1, Sent DEF PutsWord, Loads
    <3> QED
      BY <2>1, <3>1, <3>2 DEF WriteSteps
  <2>3. ~done'
    BY <1>2, <2>1
  <2>4. ds' \in {"WRITE_TAIL", "WRITE_REGIN"} /\ ~drives'
    <3>1. CASE ds = "WRITE_REGIN"
      BY <2>1, <3>1, WriteWaits
    <3>2. CASE ds = "WRITE_TAIL"
      <4>1. sd_clk_en \in BOOLEAN
        BY DEF sd_clk_en
      <4>2. ds' \in {"WRITE_TAIL", "WRITE_REGIN"} /\ SameOutput
        BY <1>2, <3>2, <4>1 DEF DatStays, WriteMoves, WriteStates
      <4> QED
        BY <2>1, <4>2 DEF SameOutput
    <3> QED
      BY <2>1, <3>1, <3>2
  <2> QED
    BY <2>2, <2>3, <2>4
<1> QED
  BY <1>2, <1>3, <1>5 DEF WriteFlags, BlockBits

(* The bits the card has taken, against the counters of the controller and *)
(* the words that the program has written.                                 *)
LEMMA WriteOKStep ==
  ASSUME Inv, Next
  PROVE  WriteOK'
<1> SUFFICES ASSUME Committed', Writing'
             PROVE  WriteOK'
  BY DEF WriteOK
<1>1. CASE Begin
  BY <1>1, WriteBegins
<1>2. CASE Within /\ (Aborts \/ CMD.ABRT_DAT)
  <2>1. /\ ds' \in {"IDLE", "TAIL", "WRITE_TAIL", "WRITE_REGIN"} /\ ~drives' /\ ~done'
        /\ taken' = BlockBits' /\ words' = BlockWords /\ data' = 0 /\ held' = 0
        /\ CMD'.ABRT_DAT /\ (cs' = "TAIL" \/ Over') /\ resp' = 0
        /\ ds' = "WRITE_REGIN" => first' /\ ~DataTaken'
    BY <1>2, WriteAborted DEF BlockBits
  <2>2. WriteShape'
    BY <2>1 DEF WriteShape, WriteStates, Sending
  <2>3. WriteFlags'
    BY <2>1 DEF WriteFlags
  <2> QED
    BY <2>2, <2>3 DEF WriteOK
<1>3. CASE Within /\ ~(Aborts \/ CMD.ABRT_DAT)
  <2>1. WriteFrame /\ WriteSteps
    BY <1>3, WritingOn
  <2>2. ds \in {"IDLE", "WRITE_REGIN", "WRITE_START", "WRITE_DATA", "WRITE_CRC", "WRITE_STOP",
                "WRITE_CHECK_CRC", "WRITE_BUSY", "WRITE_TAIL"}
    BY <2>1 DEF WriteFrame, WriteStates, Sending
  <2>3. WriteShape'
    BY <2>1, <2>2, WriteIdle, WriteWaits, WriteStarts, WriteSends, WriteRest
  <2>4. WriteFlags'
    BY <2>1, WriteEnds
  <2> QED
    BY <2>3, <2>4 DEF WriteOK
<1> QED
  BY <1>1, <1>2, <1>3, Kinds DEF Within

-----------------------------------------------------------------------------
(* Clearing flags.                                                         *)

(* While the program modifies CTRL, nothing is raised that it polls.       *)
Known == Controller /\ Program /\ CmdFlags /\ DatFlags /\ ReadOK /\ ReadFlags
Calm == at \in Modifications /\ op # "write" => Raised \cap (Polled \cup {"CRCERR"}) = {}

(* Where the program modifies CTRL, the controller raises no flag that it  *)
(* polls.                                                                  *)
LEMMA Calms ==
  Known => Calm
<1> SUFFICES ASSUME Known, at \in Modifications, op # "write"
             PROVE  Raised \cap (Polled \cup {"CRCERR"}) = {}
  BY DEF Calm
<1>1. Committed /\ op # "none" /\ at # "end"
  BY DEF Known, Program, Modifications, Committed
<1>2. op = "read" => at \in {"CMD_DONE", "BLK_DONE", "DAT_DONE"} /\ at \in todo
  BY DEF Known, Program, Modifications, FlagNames
<1>3. at \in {"BLK_DONE", "DAT_DONE"} /\ op = "read" => Served /\ ReadOver
  BY <1>1, <1>2 DEF Known, DatFlags, ReadFlags
<1>4. cs = "IDLE" => status_idle_cmd_last
  <2>1. CASE op = "read"
    BY <1>1, <1>2, <1>3, <2>1 DEF Known, CmdFlags, CmdDone, Served
  <2>2. CASE op # "read"
    <3>1. at = "BLK_DONE" => op = "read"
      BY <1>1, ProgramAssumption DEF Known, Program, Simple, Resetting
    <3>2. at = "DAT_DONE" /\ op # "read" => op = "busy"
      BY <1>1, ProgramAssumption DEF Known, Program, Simple, Resetting
    <3>3. at = "CMD_DONE" => at \in todo
      BY DEF Known, Program, FlagNames
    <3>4. at \in {"CMD_DONE", "DAT_DONE", "clear_flags", "end_reset"} => CmdDone
      BY <1>1, <2>2, <3>2, <3>3 DEF Known, CmdFlags
    <3>5. at = "begin_reset" => cs # "IDLE"
      BY DEF Known, CmdFlags
    <3> QED
      BY <2>2, <3>1, <3>4, <3>5 DEF CmdDone, Modifications
  <2> QED
    BY <2>1, <2>2
<1>5. ~done
  <2>1. CASE op = "read"
    <3>1. done => Served
      BY <1>1, <2>1 DEF Known, ReadOK, ReadFlags, Moved
    <3>2. at = "CMD_DONE" => "CMD_DONE" \in CTRL
      BY <1>2, <2>1 DEF Known, CmdFlags
    <3> QED
      BY <1>2, <1>3, <2>1, <3>1, <3>2 DEF ReadOver, Served
  <2>2. CASE op # "read"
    BY <1>1, <2>2 DEF Known, DatFlags
  <2> QED
    BY <2>1, <2>2
<1>6. op = "read" /\ ds = "IDLE" => status_idle_dat_last
  <2>1. op = "read" /\ CMD.ABRT_DAT => at = "DAT_DONE"
    BY <1>1 DEF Known, ReadFlags, Modifications
  <2>2. op = "read" /\ at = "DAT_DONE" => status_idle_dat_last
    BY <1>1, <1>2 DEF Known, DatFlags, DatDone
  <2> QED
    BY <1>1, <2>1, <2>2 DEF Known, DatFlags
<1>7. op # "read" => "DAT_DONE" \notin Polled
  BY DEF Polled
<1>8. /\ "CMD_DONE" \notin Raised /\ "BLK_DONE" \notin Raised /\ "CRCERR" \notin Raised
      /\ op = "read" => "DAT_DONE" \notin Raised
  BY <1>4, <1>5, <1>6, RaisedIs
<1> QED
  BY <1>7, <1>8, RaisedIs

(* So what the program stores is never older than what it clears.          *)
LEMMA KeptStep ==
  ASSUME Inv, Next, Known'
  PROVE  Kept'
<1>1. Calm
  BY Calms DEF Inv, Known
<1>2. Known' => Calm'
  BY Calms, PTL
<1> SUFFICES ASSUME fetched', op' # "write"
             PROVE  ((CTRL \cup Raised) \cap (Polled \cup {"CRCERR"}) \subseteq old)'
  BY DEF Kept
<1>3. at' \in Modifications
  BY DEF Known, Program
<1>4. Raised' \cap (Polled' \cup {"CRCERR"}) = {}
  BY <1>2, <1>3 DEF Calm
<1>5. (Paused /\ fetched) \/ Fetches
  <2>1. ~Stores /\ (Idles => fetched /\ at \in Modifications)
    BY DEF Stores, Idles, Inv, Program
  <2>2. ~Acknowledges /\ ~StopsBusy /\ ~EndsBlock /\ ~Resets /\ ~Clears /\ ~Returning
    BY <2>1 DEF Acknowledges, StopsBusy, EndsBlock, Resets, Clears, Returning
  <2>3. ~Called /\ ~Commits /\ ~Polls /\ ~TimesOut /\ ~TakesResp /\ ~TakesData /\ ~PutsWord
        /\ ~PutsNone
    BY <2>1 DEF Called, Commits, Begin, Polls, TimesOut, TakesResp, TakesData, PutsWord, Loads,
                PutsNone, Modifications
  <2>4. ~AbortsBlock /\ ~WaitsIdle /\ ~DropsResp /\ ~DropsData
    BY <2>1 DEF AbortsBlock, Aborts, WaitsIdle, DropsResp, DropsData, Modifications
  <2>5. Paused => fetched
    BY <2>1 DEF Paused
  <2> QED
    BY <2>2, <2>3, <2>4, <2>5, Steps
<1>6. op' = op /\ CTRL' = CTRL \cup Raised /\ Polled' = Polled
  BY <1>5 DEF Paused, Fetches, Keeps, Quietly, Ctrl, Polled
<1>7. CTRL' \cap (Polled \cup {"CRCERR"}) \subseteq old'
  <2>1. CASE Fetches
    <3>1. Raised \cap (Polled \cup {"CRCERR"}) = {}
      BY <1>1, <1>6, <2>1 DEF Fetches, Calm
    <3> QED
      BY <1>6, <2>1, <3>1 DEF Fetches
  <2>2. CASE Paused /\ fetched
    <3>1. (CTRL \cup Raised) \cap (Polled \cup {"CRCERR"}) \subseteq old
      BY <1>6, <2>2 DEF Inv, Kept
    <3> QED
      BY <1>6, <2>2, <3>1 DEF Paused, Idles
  <2> QED
    BY <1>5, <2>1, <2>2
<1> QED
  BY <1>4, <1>6, <1>7

-----------------------------------------------------------------------------
(* The invariant holds.                                                    *)
LEMMA InitInv ==
  Init => Inv
<1> SUFFICES ASSUME Init
             PROVE  Inv
  OBVIOUS
<1>1. /\ sd_clkdiv_i \in 0 .. 15 /\ sd_clkhs_i \in BOOLEAN /\ clkgen_i = FALSE
      /\ sd_clk_strb = FALSE /\ cdiv_cnt = 0
      /\ sd_clk_cont = FALSE /\ clkstrb_o = FALSE /\ sd_clk_o = FALSE
      /\ cmd_fsm = CmdZero /\ resp_reg = 0 /\ dat_fsm = DatZero /\ dat_reg = 0
      /\ CTRL = {} /\ FLAG_CMD_RESP = FALSE /\ FLAG_DAT_DATA = FALSE
      /\ CMD = [COMMIT |-> FALSE, ABRT_DAT |-> FALSE, DMODE |-> "NONE", RMODE |-> "NONE"]
      /\ status_idle_cmd_last = TRUE /\ status_idle_dat_last = TRUE
      /\ status_resp_cmd_last = FALSE /\ status_data_dat_last = FALSE
  BY ProgramAssumption DEF Init, NeosdInit, ClkInit
<1>2. /\ op = "none" /\ at = "call" /\ todo = {} /\ old = {} /\ fetched = FALSE
      /\ bits = 0 /\ answers = FALSE /\ resp = 0 /\ data = 0 /\ held = 0
      /\ got = 0 /\ words = 0 /\ taken = 0
  BY DEF Init
<1>3. /\ cs = "IDLE" /\ cb = 0 /\ cw = 0 /\ ~starts
      /\ cmd_fsm.clk_req = FALSE /\ cmd_fsm.clk_stall = FALSE /\ cmd_fsm.cmd_oe = FALSE
  BY <1>1 DEF CmdZero, cs, cb, cw, starts
<1>4. /\ ds = "IDLE" /\ db = 0 /\ dw = 0 /\ ~drives /\ ~shifts /\ ~reads /\ ~runs /\ ~done /\ ~first
      /\ dat_fsm.clk_req = FALSE /\ dat_fsm.clk_stall = FALSE
  BY <1>1 DEF DatZero, ds, db, dw, drives, shifts, reads, runs, done, first
<1>5. ClockOK
  <2>1. ClkTypeOK
    <3>1. 0 \in 0 .. 15
      OBVIOUS
    <3>2. FALSE \in BOOLEAN
      OBVIOUS
    <3> QED
      BY <1>1, <3>1, <3>2, Zenon DEF ClkTypeOK
  <2>2. ~sd_clk_strb /\ ~clkstrb_o /\ ~sd_clk_o /\ ~clkgen_i /\ cdiv_cnt = 0 /\ Due
    BY <1>1 DEF Due
  <2> QED
    BY <1>3, <1>4, <2>1, <2>2 DEF ClockOK
<1>6. CmdShape
  <2>1. cmd_fsm \in [state : CmdStates, bit_counter : 0 .. 63, word_counter : 0 .. 7,
                     clk_req : BOOLEAN, clk_stall : BOOLEAN, cmd_oe : BOOLEAN,
                     start_dat : BOOLEAN]
    BY <1>1 DEF CmdZero, CmdStates
  <2> QED
    BY <1>3, <2>1 DEF CmdShape, CmdOutputs, CmdCounts
<1>7. DatShape
  <2>1. DatTypeOK
    BY <1>1, BlockAssumption DEF DatZero, DatTypeOK
  <2> QED
    BY <1>4, <2>1 DEF DatShape, DatOutputs, DatCounts, Sending, Stalling
<1>8. Settled /\ Registers /\ AbortOK
  <2>1. CMD \in Commands /\ ~CMD.ABRT_DAT
    BY <1>1 DEF Commands
  <2>2. Registers
    <3>1. 0 \in Nat /\ 0 \in Int
      OBVIOUS
    <3>2. FALSE \in BOOLEAN /\ TRUE \in BOOLEAN
      OBVIOUS
    <3>3. CTRL \subseteq CtrlBits \ {"IDLE_SDCLK"}
      BY <1>1
    <3> QED
      BY <1>1, <1>2, <2>1, <3>1, <3>2, <3>3, Zenon DEF Registers
  <2> QED
    BY <1>1, <2>1, <2>2 DEF Settled, AbortOK
<1>9. Program
  BY <1>1, <1>2 DEF Program, Places, Resetting, FlagNames, Simple, Writing, Polled
<1>10. Clean
  BY <1>1, <1>2, <1>3, <1>4 DEF Clean, Over
<1>11. ~Committed
  BY <1>2 DEF Committed
<1>12. CommandOK /\ CmdPlace
  BY <1>11 DEF CommandOK, CmdPlace
<1>13. RespFlags
  BY <1>1, <1>2, <1>11, ResponseAssumption DEF RespFlags
<1>14. CmdFlags
  BY <1>1, <1>2, <1>11 DEF CmdFlags
<1>15. DatFlags
  BY <1>1, <1>2, <1>4, <1>11 DEF DatFlags
<1>16. OtherOK /\ ReadOK /\ Race /\ ReadFlags /\ BusyOK /\ WriteOK /\ Kept
  BY <1>2, <1>11 DEF OtherOK, ReadOK, Race, ReadFlags, BusyOK, WriteOK, Kept, Simple
<1> QED
  BY <1>5, <1>6, <1>7, <1>8, <1>9, <1>10, <1>12, <1>13, <1>14, <1>15, <1>16 DEF Inv, Controller

(* Inv is inductive.                                                       *)
LEMMA InvStep ==
  ASSUME InTime, Inv, Next
  PROVE  Inv'
<1>1. Controller' /\ Program' /\ Clean' /\ CommandOK' /\ CmdPlace'
  BY ControllerStep, ProgramStep, CleanStep, CommandStep, CmdPlaceStep
<1>2. RespFlags' /\ CmdFlags' /\ DatFlags' /\ OtherOK'
  BY RespFlagsStep, CmdFlagsStep, DatFlagsStep, OtherOKStep
<1>3. ReadOK' /\ Race' /\ ReadFlags' /\ BusyOK' /\ WriteOK'
  BY ReadOKStep, RaceStep, ReadFlagsStep, BusyOKStep, WriteOKStep
<1>4. Known'
  BY <1>1, <1>2, <1>3 DEF Known
<1>5. Kept'
  BY <1>4, KeptStep
<1> QED
  BY <1>1, <1>2, <1>3, <1>5 DEF Inv

(* Nothing happens to it while nothing happens.                            *)
LEMMA InvStays ==
  ASSUME Inv, UNCHANGED vars
  PROVE  Inv'
<1> USE DEF vars, neosd_vars, program_vars, clk_vars, flag_vars
<1>1. /\ cs' = cs /\ cb' = cb /\ cw' = cw /\ (starts' <=> starts)
      /\ ds' = ds /\ db' = db /\ dw' = dw /\ sends' = sends
      /\ (drives' <=> drives) /\ (shifts' <=> shifts) /\ (reads' <=> reads) /\ (runs' <=> runs)
      /\ (done' <=> done) /\ (first' <=> first)
  BY DEF cs, cb, cw, starts, ds, db, dw, sends, drives, shifts, reads, runs, done, first
<1>8. (Late' <=> Late) /\ lead' = lead /\ Polled' = Polled /\ Raised' = Raised
  BY DEF lead, Late, Due, sd_clk_en, Polled, Raised, cmd_idle, dat_idle
<1>9. /\ (Over' <=> Over) /\ (Committed' <=> Committed) /\ (Writing' <=> Writing)
      /\ (CmdDone' <=> CmdDone) /\ (DatDone' <=> DatDone) /\ (RespTaken' <=> RespTaken)
      /\ (DataTaken' <=> DataTaken) /\ Missing' = Missing /\ Awaited' = Awaited
      /\ Clocked' = Clocked /\ BlockBits' = BlockBits /\ RespWords' = RespWords
      /\ LastRespBit' = LastRespBit /\ LastDataBit' = LastDataBit /\ Place(data)' = Place(data)
      /\ (Served' <=> Served) /\ (Before' <=> Before) /\ (ReadOver' <=> ReadOver)
      /\ Ahead' = Ahead /\ Mode' = Mode /\ Response' = Response
  BY <1>1, <1>8 DEF Over, Committed, Writing, CmdDone, DatDone, RespTaken, DataTaken, Missing,
     Awaited, Clocked, BlockBits, RespWords, LastRespBit, LastDataBit, Place, Served, Before,
     ReadOver, Ahead, Mode, Response
<1>10. RespPlace' = RespPlace /\ (Moved' <=> Moved) /\ (Ending' <=> Ending)
  BY <1>1, <1>8, <1>9 DEF RespPlace, Place, Moved, Ending
<1>2. Controller'
  <2>1. ClockOK'
    BY <1>1, <1>8 DEF Inv, Controller, ClockOK, ClkTypeOK, Due
  <2>2. CmdShape' /\ DatShape'
    BY <1>1 DEF Inv, Controller, CmdShape, CmdOutputs, CmdCounts, DatShape, DatOutputs, DatTypeOK,
                DatCounts
  <2>3. Settled' /\ Registers' /\ AbortOK'
    BY <1>1 DEF Inv, Controller, Settled, Registers, AbortOK
  <2> QED
    BY <2>1, <2>2, <2>3 DEF Controller
<1>3. Program' /\ Clean'
  BY <1>1, <1>8, <1>9 DEF Inv, Program, Clean
<1>4. CommandOK' /\ CmdPlace'
  BY <1>1, <1>8, <1>9 DEF Inv, CommandOK, CmdPlace
<1>5. RespFlags' /\ CmdFlags' /\ DatFlags' /\ OtherOK'
  BY <1>1, <1>9 DEF Inv, RespFlags, CmdFlags, DatFlags, OtherOK
<1>6. ReadOK' /\ Race' /\ ReadFlags'
  BY <1>1, <1>8, <1>9, <1>10 DEF Inv, ReadOK, Race, ReadFlags
<1>7. BusyOK' /\ WriteOK' /\ Kept'
  BY <1>1, <1>8, <1>9, <1>10 DEF Inv, BusyOK, WriteOK, WriteShape, WriteFlags, Kept
<1> QED
  BY <1>2, <1>3, <1>4, <1>5, <1>6, <1>7 DEF Inv

(* Whatever the operations, their order and the delays of the card, as     *)
(* long as its response comes in time, the controller, the driver and the  *)
(* card stay in step: every reachable state satisfies Inv.                 *)
THEOREM Invariance ==
  ASSUME InTime
  PROVE  Spec => []Inv
<1>1. Init => Inv
  BY InitInv
<1>2. Inv /\ [Next]_vars => Inv'
  BY InvStep, InvStays
<1> QED
  BY <1>1, <1>2, PTL DEF Spec

-----------------------------------------------------------------------------
(* What the invariant says of the system.                                  *)

(* A bit of the response is not on the line after the last.                *)
LEMMA RespBound ==
  ASSUME Inv, resp > 0, cs # "REGOUT"
  PROVE  CMD.RMODE # "NONE" /\ resp \in 0 .. LongFirst + LongWords * RespBits
<1>1. /\ lead \in {0, 1} /\ cs \in CmdStates /\ cb \in 0 .. 63 /\ cw \in 0 .. 7 /\ resp \in Int
      /\ CMD \in Commands /\ RespBits \in Int /\ LongWords \in 1 .. 7
      /\ LongFirst \in 4 .. RespBits /\ ShortFirst \in 4 .. RespBits /\ ShortWords \in 1 .. LongWords
  BY Enabled, ResponseAssumption DEF lead, Inv, Controller, Registers
<1>2. Committed
  BY DEF Inv, Clean
<1>3. cs # "IDLE" /\ cs # "WRITE"
  BY <1>1, <1>2, ResponseAssumption, ProgramAssumption DEF Inv, CmdPlace
<1>4. CMD.RMODE # "NONE"
  BY <1>1, <1>2, <1>3 DEF Inv, CmdPlace, CmdStates
<1>5. /\ LastRespBit \in Int /\ LastRespBit >= 4
      /\ cw > 0 => Awaited >= RespBits
      /\ Awaited \in Int
  <2>1. /\ LastRespBit \in Int /\ LastRespBit >= 4
        /\ \A w \in 0 .. 7 : w * RespBits \in Int
        /\ \A w \in 1 .. 7 : w * RespBits >= RespBits
    BY <1>1, <1>4, ResponseBits
  <2> QED
    BY <1>1, <2>1 DEF Awaited
<1>6. resp <= LastRespBit
  <2>1. CASE cs = "WAIT_RESP"
    BY <1>1, <1>2, <1>5, <2>1 DEF Inv, CmdPlace
  <2>2. CASE cs = "READ_RESP"
    <3>1. resp = LastRespBit - Awaited + cb + lead /\ cb < RespBits /\ cw > 0
      BY <1>1, <1>2, <2>2 DEF Inv, CmdPlace, Controller, CmdShape, CmdCounts
    <3> QED
      BY <1>1, <1>5, <3>1
  <2>3. CASE cs = "TAIL"
    BY <1>1, <1>2, <1>5, <2>3 DEF Inv, CmdPlace
  <2> QED
    BY <1>1, <1>3, <2>1, <2>2, <2>3 DEF CmdStates
<1>7. LastRespBit <= LongFirst + LongWords * RespBits
  <2>1. LastRespBit = FirstBits(CMD.RMODE) + RespWords * RespBits - RespBits
    BY <1>1, <1>4, ResponseBits
  <2>2. RespWords \in 1 .. LongWords /\ FirstBits(CMD.RMODE) \in 4 .. RespBits
    BY <1>1, <1>4, FirstIs
  <2>3. ASSUME NEW n \in 1 .. 7, NEW m \in 1 .. 7, NEW b \in Nat, n <= m
        PROVE  n * b <= m * b /\ n * b \in Int /\ m * b \in Int
    <3>1. m - n \in Nat /\ m = n + (m - n)
      BY <2>3
    <3>2. \A d \in Nat : d * b \in Nat /\ n * b \in Nat /\ (n + d) * b = n * b + d * b
      OBVIOUS
    <3>3. m * b = n * b + (m - n) * b /\ (m - n) * b \in Nat /\ n * b \in Nat
      BY <3>1, <3>2
    <3> QED
      BY <3>3
  <2>4. RespWords * RespBits <= LongWords * RespBits /\ RespWords * RespBits \in Int
        /\ LongWords * RespBits \in Int
    BY <1>1, <2>2, <2>3
  <2> QED
    BY <1>1, <2>1, <2>2, <2>4
<1>8. LongFirst + LongWords * RespBits \in Int
  <2>1. \A n \in 1 .. 7 : \A b \in Nat : n * b \in Int
    OBVIOUS
  <2> QED
    BY <1>1, <2>1
<1> QED
  BY <1>1, <1>4, <1>5, <1>6, <1>7, <1>8

(* The registers that the invariant does not bound.                        *)
Bounds == resp_reg \in 0 .. LongFirst + LongWords * RespBits /\ words \in 0 .. BlockWords

(* The shift registers stay within one response and one block.             *)
LEMMA BoundsStep ==
  ASSUME Inv, Bounds, Next
  PROVE  Bounds'
<1>1. 0 \in 0 .. LongFirst + LongWords * RespBits
  <2>1. \A n \in 1 .. 7 : \A b \in Nat : n * b \in Nat
    OBVIOUS
  <2> QED
    BY <2>1, ResponseAssumption
<1>2. resp_reg' \in 0 .. LongFirst + LongWords * RespBits
  <2>1. CASE CmdKept
    <3>1. CASE Shift /\ cs # "IDLE"
      <4>1. resp_reg' = cmd_line
        BY <2>1, <3>1 DEF CmdKept
      <4>2. cs # "REGOUT"
        BY <3>1, Enabled DEF Shift
      <4>3. cmd_line = 0 \/ (resp > 0 /\ cmd_line = resp)
        BY DEF cmd_line, High
      <4> QED
        BY <1>1, <4>1, <4>2, <4>3, RespBound
    <3>2. CASE ~(Shift /\ cs # "IDLE")
      BY <2>1, <3>2 DEF CmdKept, Bounds
    <3> QED
      BY <3>1, <3>2
  <2>2. CASE Begin \/ Aborts
    BY <1>1, <2>2 DEF Begin, Aborts
  <2> QED
    BY <2>1, <2>2, Effects
<1>3. words' \in 0 .. BlockWords
  <2>1. BlockWords \in Nat
    BY BlockAssumption
  <2>2. CASE TakesData
    <3>1. /\ ds = "REGOUT" /\ ~DataTaken /\ words' = words + 1 /\ op = "read"
      BY <2>2, TakesWord DEF TakesData
    <3>2. Committed /\ dw \in 0 .. BlockWords
      BY <3>1, Enabled, Owner
    <3>3. words = BlockWords - dw - 1
      BY <3>1, <3>2 DEF Inv, ReadFlags
    <3> QED
      BY <2>1, <3>1, <3>2, <3>3 DEF Bounds
  <2>3. CASE PutsWord
    BY <2>1, <2>3 DEF PutsWord, Loads, Bounds
  <2> QED
    BY <2>1, <2>2, <2>3, Counts DEF Bounds
<1> QED
  BY <1>2, <1>3 DEF Bounds

(* The bits of a block that the card has got are bits of the block.        *)
LEMMA TakenBound ==
  ASSUME Inv
  PROVE  taken \in 0 .. BlockWords * WordBits
<1>1. /\ BlockBits \in Nat /\ BlockBits > 0 /\ taken \in Nat /\ Missing \in Int /\ Missing >= 0
      /\ lead \in {0, 1} /\ db \in 0 .. 63 /\ WordBits \in 1 .. 64
      /\ dw > 0 => Missing >= WordBits
  BY Sent, Words, Enabled DEF Inv, Controller, Registers, lead
<1>2. taken <= BlockBits
  <2>1. CASE ~Writing \/ ~Committed
    BY <1>1, <2>1 DEF Inv, Program, Clean
  <2>2. CASE Writing /\ Committed
    <3>1. WriteShape
      BY <2>2 DEF Inv, WriteOK
    <3>2. CASE ds = "WRITE_DATA"
      <4>1. taken = BlockBits - Missing + db + lead /\ db < WordBits /\ dw > 0
        BY <1>1, <3>1, <3>2 DEF WriteShape, Inv, Controller, DatShape, DatCounts
      <4> QED
        BY <1>1, <4>1
    <3>3. CASE ds = "WRITE_REGIN"
      BY <1>1, <3>1, <3>3 DEF WriteShape
    <3>4. CASE ds \notin {"WRITE_DATA", "WRITE_REGIN"}
      BY <1>1, <3>1, <3>4 DEF WriteShape
    <3> QED
      BY <3>2, <3>3, <3>4
  <2> QED
    BY <2>1, <2>2
<1> QED
  BY <1>1, <1>2 DEF BlockBits

(* Everything has its type: the counters of the program do not run past    *)
(* the response and the block, nor do the registers of neosd_cmd_reg.sv.   *)
THEOREM TypeCorrect ==
  ASSUME InTime
  PROVE  Spec => []TypeOK
<1>1. Init => Bounds
  <2>1. \A n \in 1 .. 7 : \A b \in Nat : n * b \in Nat
    OBVIOUS
  <2> QED
    BY <2>1, ResponseAssumption, BlockAssumption DEF Init, NeosdInit, Bounds
<1>2. Inv /\ Bounds /\ [Next]_vars => Bounds'
  <2>1. UNCHANGED vars /\ Bounds => Bounds'
    BY DEF vars, neosd_vars, program_vars, Bounds
  <2> QED
    BY <2>1, BoundsStep
<1>3. Inv /\ Bounds => TypeOK
  <2> SUFFICES ASSUME Inv, Bounds
               PROVE  TypeOK
    OBVIOUS
  <2>1. ClkTypeOK /\ DatTypeOK
    BY DEF Inv, Controller, ClockOK, DatShape, DatOutputs
  <2>2. CmdTypeOK
    BY DEF Inv, Controller, CmdShape, CmdOutputs, CmdStates, Bounds, CmdTypeOK
  <2>3. NeosdTypeOK
    BY <2>1, <2>2 DEF NeosdTypeOK, Inv, Controller, Registers
  <2>4. /\ op \in Operations \cup {"none"} /\ todo \subseteq Polled
        /\ fetched \in BOOLEAN /\ answers \in BOOLEAN
    BY DEF Inv, Program
  <2>5. old \subseteq CtrlBits
    BY DEF Inv, Program, Controller, Registers
  <2>6. got \in 0 .. LongWords
    BY ResponseAssumption DEF Inv, RespFlags, Controller, Registers
  <2> QED
    BY <2>3, <2>4, <2>5, <2>6, TakenBound DEF TypeOK, Bounds
<1>4. Spec => []Inv
  BY Invariance
<1> QED
  BY <1>1, <1>2, <1>3, <1>4, PTL DEF Spec

(* Between two operations both state machines are idle, no flag is set,    *)
(* and none is about to be: the next command is not ignored, and is        *)
(* answered by its own flags only.                                         *)
THEOREM CleanAlways ==
  ASSUME InTime
  PROVE  Spec => []CleanBetween
<1>1. Inv => CleanBetween
  <2> SUFFICES ASSUME Inv, at = "call"
               PROVE  /\ cmd_idle /\ dat_idle /\ ~CMD.COMMIT /\ resp <= 0
                      /\ Status \subseteq {"CRCERR"} /\ Raised = {}
    BY DEF CleanBetween
  <2>1. ~Committed
    BY DEF Committed
  <2>2. /\ cs = "IDLE" /\ ~CMD.COMMIT /\ ds = "IDLE" /\ CTRL \subseteq {"CRCERR"}
        /\ status_idle_cmd_last /\ status_idle_dat_last
        /\ ~FLAG_CMD_RESP /\ ~FLAG_DAT_DATA /\ resp = 0
    BY <2>1 DEF Inv, Clean, Over
  <2>3. cmd_idle /\ dat_idle
    BY <2>2 DEF cmd_idle, dat_idle, cs, ds
  <2>4. ~done
    BY <2>2 DEF Inv, Controller, DatShape, DatCounts
  <2>5. Raised = {}
    BY <2>2, <2>4, RaisedIs
  <2>6. Status \subseteq {"CRCERR"}
    BY <2>2, <2>3 DEF Status
  <2> QED
    BY <2>2, <2>3, <2>5, <2>6
<1>2. Spec => []Inv
  BY Invariance
<1> QED
  BY <1>1, <1>2, PTL

(* The controller drives a line only while the card does not, after an     *)
(* abort either.                                                           *)
THEOREM OneDriver ==
  ASSUME InTime
  PROVE  Spec => []NoContention
<1>1. Inv => NoContention
  <2> SUFFICES ASSUME Inv
               PROVE  NoContention
    OBVIOUS
  <2>1. ASSUME cmd_fsm.cmd_oe
        PROVE  resp <= 0
    <3>1. cs = "WRITE" /\ Committed
      BY <2>1 DEF Inv, Controller, CmdShape, CmdOutputs, Clean, Over
    <3> QED
      BY <3>1, ProgramAssumption DEF Inv, CmdPlace
  <2>2. ASSUME dat_fsm.dat_oe
        PROVE  data <= 0 /\ held = 0
    <3>1. drives
      BY <2>2 DEF drives
    <3>2. Writing /\ Committed /\ ds \in Sending \cup {"WRITE_REGIN"}
      BY <3>1, WritingDrives DEF Inv, Controller, DatShape, DatCounts
    <3>3. WriteShape
      BY <3>2 DEF Inv, WriteOK
    <3>4. CASE ds = "WRITE_STOP"
      BY <3>3, <3>4, BlockAssumption DEF WriteShape
    <3>5. CASE ds # "WRITE_STOP"
      BY <3>2, <3>3, <3>5 DEF WriteShape, Sending
    <3> QED
      BY <3>4, <3>5
  <2> QED
    BY <2>1, <2>2 DEF NoContention
<1>2. Spec => []Inv
  BY Invariance
<1> QED
  BY <1>1, <1>2, PTL

(* A written block is announced as done when the card has got all its      *)
(* bits, in order, and is not busy any more.                               *)
THEOREM DoneIsWritten ==
  ASSUME InTime
  PROVE  Spec => []BlockWritten
<1>1. Inv => BlockWritten
  <2> SUFFICES ASSUME Inv, op = "write", dat_fsm.block_done
               PROVE  taken = BlockWords * WordBits /\ held = 0
    BY DEF BlockWritten
  <2>1. ds \in {"WAIT_BLOCK", "WRITE_TAIL"}
    BY DEF done, Inv, Controller, DatShape, DatCounts
  <2>2. ds = "WRITE_TAIL" /\ Committed
    BY <2>1, Owner DEF ReadStates
  <2>3. WriteShape
    BY <2>2 DEF Inv, WriteOK, Writing
  <2> QED
    BY <2>2, <2>3 DEF WriteShape, BlockBits
<1>2. Spec => []Inv
  BY Invariance
<1> QED
  BY <1>1, <1>2, PTL

(* Every word that the program reads of a block is the next one, whole.    *)
THEOREM WordsInOrder ==
  ASSUME InTime
  PROVE  Spec => DataInOrder
<1>1. Inv /\ [Next]_vars => [op = "read" /\ words' > words => dat_reg = words' * WordBits]_vars
  <2> SUFFICES ASSUME Inv, Next, op = "read", words' > words
               PROVE  dat_reg = words' * WordBits
    OBVIOUS
  <2>1. words \in Nat
    BY DEF Inv, Controller, Registers
  <2>2. TakesData
    BY <2>1, Counts DEF PutsWord, Loads
  <2>3. ds = "REGOUT" /\ ~DataTaken /\ words' = words + 1
    BY <2>2, TakesWord
  <2>4. Committed
    BY <2>3, Owner
  <2>5. /\ words = BlockWords - dw - 1 /\ dat_reg = BlockBits - Missing
        /\ dw \in 0 .. BlockWords /\ BlockWords \in Nat
    BY <2>3, <2>4, Enabled, BlockAssumption DEF Inv, ReadFlags, ReadOK
  <2>6. words' = BlockWords - dw
    BY <2>3, <2>5
  <2> QED
    BY <2>5, <2>6, Sent
<1>2. Spec => []Inv
  BY Invariance
<1> QED
  BY <1>1, <1>2, PTL DEF Spec, DataInOrder

(* The same of the words of a response.                                    *)
THEOREM ResponseWhole ==
  ASSUME InTime
  PROVE  Spec => ResponseInOrder
<1>1. Inv /\ [Next]_vars =>
        [got' > got => resp_reg = FirstBits(CMD.RMODE) + (got' - 1) * RespBits]_vars
  <2> SUFFICES ASSUME Inv, Next, got' > got
               PROVE  resp_reg = FirstBits(CMD.RMODE) + (got' - 1) * RespBits
    OBVIOUS
  <2>1. got \in Nat /\ CMD \in Commands /\ cw \in 0 .. 7 /\ RespBits \in 1 .. 64
    BY Enabled, ResponseAssumption DEF Inv, Controller, Registers
  <2>2. TakesResp /\ got' = got + 1
    BY <2>1, Counts
  <2>3. cs = "REGOUT" /\ Committed /\ got = RespWords - cw - 1
    BY <2>2, TakesOne
  <2>4. CMD.RMODE # "NONE" /\ resp_reg = LastRespBit - Awaited
    BY <2>3 DEF Inv, CmdPlace
  <2>5. /\ LastRespBit = FirstBits(CMD.RMODE) + RespWords * RespBits - RespBits
        /\ RespWords \in 1 .. 7 /\ FirstBits(CMD.RMODE) \in Int
    BY <2>1, <2>4, ResponseBits
  <2>6. \A r, w, b \in Int : (r - w - 1) * b = r * b - w * b - b /\ r * b \in Int /\ w * b \in Int
    OBVIOUS
  <2>7. (got' - 1) * RespBits = RespWords * RespBits - cw * RespBits - RespBits
    <3>1. got' - 1 = RespWords - cw - 1
      BY <2>1, <2>2, <2>3, <2>5
    <3> QED
      BY <2>1, <2>5, <2>6, <3>1
  <2>8. RespWords * RespBits \in Int /\ cw * RespBits \in Int
    BY <2>1, <2>5, <2>6
  <2>9. resp_reg = FirstBits(CMD.RMODE) + RespWords * RespBits - RespBits - cw * RespBits
    BY <2>1, <2>4, <2>5, <2>8 DEF Awaited
  <2> QED
    BY <2>1, <2>5, <2>7, <2>8, <2>9
<1>2. Spec => []Inv
  BY Invariance
<1> QED
  BY <1>1, <1>2, PTL DEF Spec, ResponseInOrder

(* A modification of CTRL clears no flag that its read has not shown.      *)
THEOREM FlagsKept ==
  ASSUME InTime
  PROVE  Spec => NoFlagLost
<1>1. Inv /\ [Next]_vars =>
        [op # "write" /\ fetched /\ ~fetched' =>
           (CTRL \cup Raised) \cap (Polled \cup {"CRCERR"}) \subseteq old]_vars
  BY DEF Inv, Kept
<1>2. Spec => []Inv
  BY Invariance
<1> QED
  BY <1>1, <1>2, PTL DEF Spec, NoFlagLost

(* A response and a block are complete when the operation returns.         *)
THEOREM ReturnsComplete ==
  ASSUME InTime
  PROVE  Spec => AllMoved
<1>1. Inv /\ [Next]_vars =>
        [op # "none" /\ op' = "none" /\ at # "end_reset" =>
           /\ got = CASE Response = "NONE" -> 0 [] Response = "SHORT" -> ShortWords
                      [] Response = "LONG" -> LongWords
           /\ op \in {"read", "write"} => words = BlockWords]_vars
  <2> SUFFICES ASSUME Inv, Next, op # "none", op' = "none", at # "end_reset"
               PROVE  /\ got = CASE Response = "NONE" -> 0 [] Response = "SHORT" -> ShortWords
                                 [] Response = "LONG" -> LongWords
                      /\ op \in {"read", "write"} => words = BlockWords
    OBVIOUS
  <2>1. Returning
    <3>1. ~Called
      BY DEF Called, Inv, Program
    <3> QED
      BY <3>1, Whence
  <2>2. at = "DAT_DONE" \/ (at = "CMD_DONE" /\ op \in Simple)
    BY <2>1 DEF Returning
  <2>3. Committed /\ at # "end"
    BY <2>2 DEF Committed
  <2>4. CASE op \in {"read", "write"}
    <3>1. at = "DAT_DONE" /\ at \in todo
      BY <2>2, <2>4 DEF Simple, Inv, Program, FlagNames
    <3>2. CMD.ABRT_DAT
      BY <2>3, <2>4, <3>1 DEF Inv, DatFlags
    <3>3. got = ShortWords
      BY <2>3, <2>4, <3>2 DEF Inv, RespFlags
    <3>4. words = BlockWords
      BY <2>3, <2>4, <3>2 DEF Inv, ReadFlags, WriteOK, WriteFlags, Writing
    <3>5. Response = "SHORT"
      BY <2>4 DEF Response
    <3> QED
      BY <3>3, <3>4, <3>5
  <2>5. CASE op \notin {"read", "write"}
    <3>1. op \in {"silent", "command", "long", "busy"}
      BY <2>5, ProgramAssumption DEF Inv, Program
    <3>2. CmdDone /\ ~CMD.ABRT_DAT
      <4>1. at = "DAT_DONE" => op = "busy"
        BY <3>1 DEF Inv, Program, Simple, Resetting
      <4>2. at = "CMD_DONE" => at \in todo
        BY DEF Inv, Program, FlagNames
      <4> QED
        BY <2>2, <2>3, <3>1, <4>1, <4>2 DEF Inv, CmdFlags, CommandOK
    <3>3. got = (IF answers THEN RespWords ELSE 0) /\ CMD.RMODE = Response /\ CMD \in Commands
      BY <2>3, <3>2 DEF Inv, RespFlags, CmdDone, CommandOK, Controller, Registers
    <3>4. answers \/ op = "silent"
      <4>1. op \in {"command", "long"} => at = "CMD_DONE"
        BY <2>2 DEF Inv, Program, Simple, Resetting
      <4> QED
        BY <3>1, <3>2, <4>1 DEF Inv, Program, CmdFlags, CmdDone
    <3>5. op = "silent" => Response = "NONE"
      BY DEF Response
    <3>6. op = "long" => Response = "LONG"
      BY DEF Response
    <3>7. op \in {"command", "busy"} => Response = "SHORT"
      BY DEF Response
    <3>8. /\ Response = "NONE" => got = 0
          /\ Response = "SHORT" => got = ShortWords
          /\ Response = "LONG" => got = LongWords
      BY <3>1, <3>3, <3>4, <3>5, <3>6, <3>7, FirstIs
    <3> QED
      BY <2>5, <3>1, <3>5, <3>6, <3>7, <3>8
  <2> QED
    BY <2>4, <2>5
<1>2. Spec => []Inv
  BY Invariance
<1> QED
  BY <1>1, <1>2, PTL DEF Spec, AllMoved

(* A command with a busy response returns when the card is not busy.       *)
THEOREM BusyIsOver ==
  ASSUME InTime
  PROVE  Spec => BusyWaited
<1>1. Inv /\ [Next]_vars => [op = "busy" /\ op' = "none" => data = 0 /\ held = 0]_vars
  <2> SUFFICES ASSUME Inv, Next, op = "busy", op' = "none"
               PROVE  data = 0 /\ held = 0
    OBVIOUS
  <2>1. ~Called
    BY DEF Called, Inv, Program
  <2>2. Returning
    BY <2>1, Whence
  <2> QED
    BY <2>2, ReturnState DEF Rest
<1>2. Spec => []Inv
  BY Invariance
<1> QED
  BY <1>1, <1>2, PTL DEF Spec, BusyWaited
=============================================================================
