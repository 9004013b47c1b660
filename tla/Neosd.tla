-------------------------------- MODULE Neosd --------------------------------
(***************************************************************************)
(* The SD controller neosd_top.sv: its registers and flags, and the clock  *)
(* that the two state machines share and can both stop.  An access is one  *)
(* clock of wb_stb_i.  CTRL is the set of its bits that are set; the       *)
(* interrupt masks, the divider and the bus width do not change here.      *)
(***************************************************************************)
EXTENDS NeosdClk, NeosdCmdFsm, NeosdDatFsm

VARIABLES
  CTRL,                       \* the bits of CtrlBits
  FLAG_CMD_RESP, FLAG_DAT_DATA,
  CMD,                        \* COMMIT, ABRT_DAT, DMODE, RMODE
  status_idle_cmd_last, status_idle_dat_last, status_resp_cmd_last, status_data_dat_last

flag_vars == <<CTRL, FLAG_CMD_RESP, FLAG_DAT_DATA, CMD, status_idle_cmd_last,
               status_idle_dat_last, status_resp_cmd_last, status_data_dat_last>>
neosd_vars == <<clk_vars, cmd_fsm, resp_reg, dat_fsm, dat_reg, flag_vars>>

CtrlBits == {"RST", "IDLE_SDCLK", "CRCERR", "CMD_DONE", "DAT_DONE", "BLK_DONE"}
Commands == [COMMIT : BOOLEAN, ABRT_DAT : BOOLEAN, DMODE : {"NONE", "BUSY", "R", "W"},
             RMODE : {"NONE", "SHORT", "LONG"}]

(* Accesses of the bus.                                                    *)
Quiet == [adr |-> "none", we |-> FALSE]
Reads(adr) == [adr |-> adr, we |-> FALSE]
Writes(adr, dat) == [adr |-> adr, we |-> TRUE, dat |-> dat]
Accesses == {Quiet} \cup {Reads(adr) : adr \in {"CTRL", "RESP", "DATA"}}
              \cup {Writes("CTRL", bits) : bits \in SUBSET CtrlBits}
              \cup {Writes("CMD", command) : command \in Commands}
              \cup {Writes("DATA", word) : word \in Nat}

(* What a read of CTRL returns.                                            *)
Status == CTRL \cup (IF FLAG_CMD_RESP THEN {"CMD_RESP"} ELSE {})
               \cup (IF FLAG_DAT_DATA THEN {"DAT_DATA"} ELSE {})
               \cup (IF cmd_idle THEN {} ELSE {"CMD_BUSY"})
               \cup (IF dat_idle THEN {} ELSE {"DAT_BUSY"})

sd_clk_en == /\ cmd_fsm.clk_req \/ dat_fsm.clk_req \/ "IDLE_SDCLK" \in CTRL
             /\ ~cmd_fsm.clk_stall /\ ~dat_fsm.clk_stall

(* Bits that the hardware sets at this clock edge.                         *)
Raised ==
  (IF cmd_idle /\ ~status_idle_cmd_last THEN {"CMD_DONE"} ELSE {})
    \cup (IF dat_idle /\ ~status_idle_dat_last THEN {"DAT_DONE"} ELSE {})
    \cup (IF clkstrb_o /\ dat_fsm.block_done THEN {"BLK_DONE"} ELSE {})
    \cup (IF clkstrb_o /\ dat_fsm.block_done /\ ~dat_fsm.crc_ok THEN {"CRCERR"} ELSE {})

(* A write of the register beats the hardware.                             *)
CtrlRegister(bus) ==
  /\ CTRL' = IF bus.we /\ bus.adr = "CTRL" THEN bus.dat ELSE CTRL \cup Raised
  /\ status_idle_cmd_last' = cmd_idle /\ status_idle_dat_last' = dat_idle

(* Faulty variant of CmdRegister: a command is committed until the next.   *)
CmdRegisterStays(bus) ==
  CMD' = IF bus.we /\ bus.adr = "CMD" THEN bus.dat ELSE CMD

(* COMMIT lasts until a strobe has seen it; a write beats that too.        *)
CmdRegister(bus) ==
  CMD' = IF bus.we /\ bus.adr = "CMD" THEN bus.dat
         ELSE IF clkstrb_o THEN [CMD EXCEPT !.COMMIT = FALSE] ELSE CMD

(* The two data flags are set on the rising edge of the status; a read of  *)
(* RESP, and a read or write of DATA, clears its flag and beats the set.   *)
RespFlag(bus) ==
  /\ FLAG_CMD_RESP' = (/\ ~(bus.adr = "RESP" /\ ~bus.we)
                       /\ FLAG_CMD_RESP \/ (status_resp /\ ~status_resp_cmd_last))
  /\ status_resp_cmd_last' = status_resp

(* Faulty variant of DataFlag: the flag follows the status.                *)
DataFlagLevel(bus) ==
  /\ FLAG_DAT_DATA' = (bus.adr # "DATA" /\ (FLAG_DAT_DATA \/ status_data))
  /\ status_data_dat_last' = status_data

DataFlag(bus) ==
  /\ FLAG_DAT_DATA' = (/\ bus.adr # "DATA"
                       /\ FLAG_DAT_DATA \/ (status_data /\ ~status_data_dat_last))
  /\ status_data_dat_last' = status_data

(* One clock, with an access, and the lines that come from the card.       *)
Clock(bus, cmd_i, dat_i, crc) ==
  LET rst == "RST" \in CTRL
      loads == bus.we /\ bus.adr = "CMD"
  IN /\ ClkClock(sd_clk_en)
     /\ CmdFsm(clkstrb_o, rst, CMD.COMMIT, CMD.RMODE, CMD.DMODE, ~FLAG_CMD_RESP, sd_clk_en)
     /\ CmdReg(clkstrb_o, sd_clk_en, loads, cmd_i)
     /\ DatFsm(clkstrb_o, rst, cmd_fsm.start_dat, CMD.DMODE, ~FLAG_DAT_DATA,
               CMD.ABRT_DAT, sd_clk_en, dat_i, crc)
     /\ DatReg(clkstrb_o, sd_clk_en, bus.we /\ bus.adr = "DATA",
               IF bus.we /\ bus.adr = "DATA" THEN bus.dat ELSE 0, dat_i)
     /\ CtrlRegister(bus) /\ CmdRegister(bus) /\ RespFlag(bus) /\ DataFlag(bus)

NeosdInit(Divs) ==
  /\ ClkInit(Divs) /\ cmd_fsm = CmdZero /\ resp_reg = 0
  /\ dat_fsm = DatZero /\ dat_reg = 0
  /\ CTRL = {} /\ FLAG_CMD_RESP = FALSE /\ FLAG_DAT_DATA = FALSE
  /\ CMD = [COMMIT |-> FALSE, ABRT_DAT |-> FALSE, DMODE |-> "NONE", RMODE |-> "NONE"]
  /\ status_idle_cmd_last = TRUE /\ status_idle_dat_last = TRUE
  /\ status_resp_cmd_last = FALSE /\ status_data_dat_last = FALSE

NeosdTypeOK ==
  /\ ClkTypeOK /\ CmdTypeOK /\ DatTypeOK /\ dat_reg \in Nat
  /\ CTRL \subseteq CtrlBits /\ CMD \in Commands
  /\ FLAG_CMD_RESP \in BOOLEAN /\ FLAG_DAT_DATA \in BOOLEAN
  /\ status_idle_cmd_last \in BOOLEAN /\ status_idle_dat_last \in BOOLEAN
  /\ status_resp_cmd_last \in BOOLEAN /\ status_data_dat_last \in BOOLEAN
=============================================================================
