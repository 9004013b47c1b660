------------------------------- MODULE SocBus -------------------------------
(***************************************************************************)
(* The Wishbone bus of soc_top.v: the CPU's bus gateway (Xbus), the        *)
(* crossbar (WbXbar) and its slaves: the ADC register file (AdcWbRegfile), *)
(* the pad register file (IoWbRegfile), and the SD controller, seen        *)
(* through its INFO register.  The I2S port of the crossbar is connected   *)
(* to nothing.                                                             *)
(***************************************************************************)
EXTENDS Naturals

CONSTANTS
  TIMEOUT_VAL,
  Bits, PadBits, Lane,                     \* of a word, see the register files
  AdcWords, Written, LowHalf, Reset256, DeadBeef, ChipId, SdInfo,
  Requests    \* what the CPU may ask for

ASSUME WordsAssumption ==
  /\ {0, 1, 2} \subseteq Bits /\ PadBits \subseteq Bits
  /\ \A w \in AdcWords \union Written \union {Reset256, DeadBeef, ChipId, SdInfo} :
       w \subseteq Bits
ASSUME RequestsAssumption == \A r \in Requests : r.dat \subseteq Bits

(* 255 in the SoC.  With 1, the count of an access would still be there in *)
(* the clock in which the next one is strobed, and end it at once.         *)
ASSUME TimeoutAssumption == TIMEOUT_VAL \in Nat /\ TIMEOUT_VAL >= 2

VARIABLES
  rst,
  stb, req,                                \* the CPU's request
  pending, timecnt, timeout,               \* Xbus
  adc_valid, adc_data,                     \* from the decimator
  data_latched, data_ready, adc_dat, adc_ack,
  adc_enable, adc_soft_rst, continuous_mode, adc_file,   \* AdcWbRegfile
  io_dat, io_ack, gpio_oe, gpio_fn,        \* IoWbRegfile
  sd_dat, sd_ack                           \* neosd_top.sv

vars == <<rst, stb, req, pending, timecnt, timeout, adc_valid, adc_data,
          data_latched, data_ready, adc_dat, adc_ack, adc_enable,
          adc_soft_rst, continuous_mode, adc_file, io_dat, io_ack, gpio_oe,
          gpio_fn, sd_dat, sd_ack>>

SlaveDat == [i2s |-> {}, io |-> io_dat, sd |-> sd_dat, adc |-> adc_dat]
SlaveAck == [i2s |-> FALSE, io |-> io_ack, sd |-> sd_ack, adc |-> adc_ack]

(* The gateway and the crossbar feed each other; only the gateway's        *)
(* acknowledge input comes from the slaves, so there is no loop.           *)
Gate == INSTANCE Xbus WITH bus_req_stb <- stb,
          xbus_ack_i <- \E s \in DOMAIN SlaveAck : SlaveAck[s]
Xbar == INSTANCE WbXbar WITH wb_page <- req.page, wb_stb <- Gate!xbus_stb,
          wb_cyc <- Gate!xbus_cyc, slave_dat <- SlaveDat, slave_ack <- SlaveAck
Adc == INSTANCE AdcWbRegfile WITH
         Addresses <- {(r.offset \div 4) % 16 : r \in Requests},
         wb_cyc_i <- Xbar!Cyc("adc"), wb_stb_i <- Xbar!Stb("adc"),
         wb_we_i <- req.we, wb_addr_i <- (req.offset \div 4) % 16,
         wb_data_i <- req.dat, adc_data_i <- adc_data, adc_valid_i <- adc_valid,
         wb_data_o <- adc_dat, wb_ack_o <- adc_ack, adc_enable_o <- adc_enable,
         adc_soft_rst_o <- adc_soft_rst, continuous_mode_o <- continuous_mode,
         file <- adc_file
Io == INSTANCE IoWbRegfile WITH
        wb_cyc_i <- Xbar!Cyc("io"), wb_stb_i <- Xbar!Stb("io"),
        wb_we_i <- req.we, wb_adr_i <- req.offset, wb_sel_i <- req.sel,
        wb_dat_o <- req.dat, wb_dat_i <- io_dat, wb_ack_o <- io_ack

rsp_ack == Gate!bus_rsp_ack
rsp_err == Gate!bus_rsp_err
rsp_data == IF pending THEN Xbar!wb_dat_i ELSE {}

(* The slave that req addresses, if there is one behind its page.          *)
Addressed(s) == s # "i2s" /\ Xbar!Selected(s)
Mapped == \E s \in Xbar!Slaves : Addressed(s)

(* neosd_top.sv: the read data is 0 unless a read is strobed; the reset    *)
(* does not clear it.                                                      *)
Sd == /\ sd_ack' = (~rst /\ Xbar!Stb("sd"))
      /\ sd_dat' = IF rst THEN sd_dat ELSE IF Xbar!Stb("sd") /\ ~req.we THEN SdInfo
                   ELSE {}

(* The CPU strobes for one clock, holds its request until the answer and   *)
(* may strobe again in the clock after it.                                 *)
Waiting == stb \/ (pending /\ ~rsp_ack /\ ~rsp_err)
Quiet == (Gate!InReset \/ Waiting) /\ stb' = FALSE /\ UNCHANGED req
Rest == ~Gate!InReset /\ ~Waiting /\ stb' = FALSE /\ UNCHANGED req
Ask == ~Gate!InReset /\ ~Waiting /\ stb' = TRUE /\ req' \in Requests

Init == /\ rst = TRUE /\ stb = FALSE /\ req \in Requests
        /\ adc_valid = FALSE /\ adc_data \in AdcWords
        /\ Gate!PowerUp /\ Adc!PowerUp /\ Io!PowerUp
        /\ sd_dat = {} /\ sd_ack = FALSE

Next == /\ rst' \in BOOLEAN /\ adc_valid' \in BOOLEAN /\ adc_data' \in AdcWords
        /\ Quiet \/ Rest \/ Ask
        /\ Gate!Clock /\ Adc!Clock /\ Io!Clock /\ Sd

Spec == Init /\ [][Next]_vars /\ WF_vars(Next)

-----------------------------------------------------------------------------
(* Types of the registers on the bus.                                      *)
TypeOK == /\ rst \in BOOLEAN /\ stb \in BOOLEAN /\ req \in Requests
          /\ pending \in BOOLEAN /\ timeout \in BOOLEAN
          /\ timecnt \in 0 .. TIMEOUT_VAL + 2
          /\ adc_data \in AdcWords /\ Adc!TypeOK
          /\ io_dat \subseteq Bits /\ io_ack \in BOOLEAN
          /\ gpio_oe \subseteq PadBits /\ gpio_fn \subseteq PadBits
          /\ sd_dat \in {{}, SdInfo} /\ sd_ack \in BOOLEAN

(* The pad registers acknowledge for as long as cyc is up and one clock    *)
(* longer.  Still an acknowledge that reaches the CPU comes from the slave *)
(* it asked, and from no other.                                            *)
AnswerFromAddressed ==
  rsp_ack => \A s \in Xbar!Slaves : SlaveAck[s] <=> Addressed(s)

(* What the register that req addresses holds.                             *)
Contents == CASE Addressed("adc") -> Adc!Register((req.offset \div 4) % 16)
              [] Addressed("io") -> Io!Register(req.offset)
              [] Addressed("sd") -> SdInfo
              [] OTHER -> {}

ReadStrobed == stb /\ ~req.we /\ ~Gate!InReset

(* wb_xbar.v:5 assumes that all slaves drive 0 when they are not read, and *)
(* a read then answers with the contents of the register at the strobe.    *)
(* The ADC keeps driving the last word that was read from it.              *)
ReadAnswersRegister == [][ReadStrobed => rsp_data' = Contents]_vars

(* What the bus does answer: the register at the strobe, together with the *)
(* bits of the last word read from the ADC.  No other slave, no write and  *)
(* no earlier access leaves anything on the data lines.                    *)
ReadAnswersRegisterAndLastAdcWord ==
  [][ReadStrobed =>
       rsp_data' = Contents \union (IF Addressed("adc") THEN {} ELSE adc_dat)]_vars

(* A timeout ends an access to a page with nothing behind it and no other: *)
(* the counter of one access never runs into the next, and an existing     *)
(* slave always answers first.                                             *)
TimeoutOnlyUnmapped == rsp_err => ~Mapped

(* The soft reset is "one-cycle pulse" (adc_wb_regfile.v:71): the CPU      *)
(* cannot strobe CTRL in two clocks running, nor strobe it twice in one    *)
(* access.                                                                 *)
SoftResetIsPulse == [][adc_soft_rst => ~adc_soft_rst']_vars

(* Every access ends, by an acknowledge, a bus error or a reset.           *)
RequestAnswered == stb ~> (rsp_ack \/ rsp_err \/ rst)
=============================================================================
