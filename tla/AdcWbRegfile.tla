---------------------------- MODULE AdcWbRegfile ----------------------------
(***************************************************************************)
(* The Wishbone register file of the ADC, audio/adc_wb_regfile.v.  A word  *)
(* is the set of its bits that are 1, so that the OR of the crossbar is a  *)
(* union.  One clock is a conjunction of the module's always blocks (see   *)
(* Sfifo for the convention about states and ports).                       *)
(***************************************************************************)
EXTENDS Naturals

CONSTANTS
  Bits,      \* bit positions of a word, among them 0, 1 and 2
  AdcWords,  \* the words the decimator may deliver
  Addresses, \* the register numbers (address bits 5:2) the bus may use
  Written,   \* the words the bus may write
  LowHalf,   \* bits 15:0, all that CONFIG has
  Reset256,  \* 16'd256, the reset value of decimation_rate_o
  DeadBeef   \* 32'hDEAD_BEEF, read from an address without a register

VARIABLES
  rst, wb_cyc_i, wb_stb_i, wb_we_i, wb_addr_i, wb_data_i,  \* bus side
  adc_data_i, adc_valid_i,                                 \* decimator side
  data_latched, data_ready, wb_data_o, wb_ack_o,
  adc_enable_o, adc_soft_rst_o, continuous_mode_o,
  file   \* the registers that only store: CONFIG (3) and dummy4 .. dummy6

ports == <<rst, wb_cyc_i, wb_stb_i, wb_we_i, wb_addr_i, wb_data_i,
           adc_data_i, adc_valid_i>>
regs == <<data_latched, data_ready, wb_data_o, wb_ack_o,
          adc_enable_o, adc_soft_rst_o, continuous_mode_o, file>>

Word == SUBSET Bits
CTRL == 0
STATUS == 1
DATA == 2
CONFIG == 3
Stored == {CONFIG, 4, 5, 6}

Flag(b, i) == IF b THEN {i} ELSE {}

wb_xfer == wb_cyc_i /\ wb_stb_i
Reads(a) == wb_xfer /\ ~wb_we_i /\ wb_addr_i = a
Writes(a) == wb_xfer /\ wb_we_i /\ wb_addr_i = a

(* Faulty variant of Latch: reading does not take the flag back.           *)
LatchStaysReady ==
  /\ data_latched' = IF rst THEN {} ELSE IF adc_valid_i THEN adc_data_i
                     ELSE data_latched
  /\ data_ready' = (~rst /\ (adc_valid_i \/ data_ready))

(* Faulty variant of Latch: any read takes the flag back.                  *)
LatchClearedByAnyRead ==
  /\ data_latched' = IF rst THEN {} ELSE IF adc_valid_i THEN adc_data_i
                     ELSE data_latched
  /\ data_ready' = (~rst /\ ~(wb_xfer /\ ~wb_we_i) /\ (adc_valid_i \/ data_ready))

(* The latch.  Of a sample and a DATA read at one edge the read comes last: *)
(* the sample is latched and its flag is not set.                          *)
Latch ==
  /\ data_latched' = IF rst THEN {} ELSE IF adc_valid_i THEN adc_data_i
                     ELSE data_latched
  /\ data_ready' = (~rst /\ ~Reads(DATA) /\ (adc_valid_i \/ data_ready))

Write ==
  /\ adc_enable_o' = (~rst /\ IF Writes(CTRL) THEN 0 \in wb_data_i ELSE adc_enable_o)
  /\ continuous_mode_o' =
       (~rst /\ IF Writes(CTRL) THEN 1 \in wb_data_i ELSE continuous_mode_o)
  /\ adc_soft_rst_o' = (~rst /\ Writes(CTRL) /\ 2 \in wb_data_i)
  /\ file' = [a \in Stored |->
                IF rst THEN IF a = CONFIG THEN Reset256 ELSE {}
                ELSE IF Writes(a)
                THEN IF a = CONFIG THEN wb_data_i \intersect LowHalf ELSE wb_data_i
                ELSE file[a]]

(* adc_busy_i is tied to 0 by adc_soc.v.                                   *)
Register(a) ==
  CASE a = CTRL -> Flag(adc_enable_o, 0) \union Flag(continuous_mode_o, 1)
    [] a = STATUS -> Flag(data_ready, 0)
    [] a = DATA -> data_latched
    [] a \in Stored -> file[a]
    [] OTHER -> DeadBeef

(* wb_data_o is a register that a read loads; between reads it keeps the   *)
(* word of the last one.                                                   *)
Read ==
  wb_data_o' = IF rst THEN {} ELSE IF wb_xfer /\ ~wb_we_i THEN Register(wb_addr_i)
               ELSE wb_data_o

Ack == wb_ack_o' = (~rst /\ wb_xfer)

Clock == Latch /\ Write /\ Read /\ Ack

PowerUp == /\ data_latched = {} /\ data_ready = FALSE /\ wb_data_o = {}
           /\ wb_ack_o = FALSE /\ adc_enable_o = FALSE
           /\ adc_soft_rst_o = FALSE /\ continuous_mode_o = FALSE
           /\ file = [a \in Stored |-> IF a = CONFIG THEN Reset256 ELSE {}]

(* Types of the registers of adc_wb_regfile.v.                             *)
TypeOK == /\ data_latched \in Word /\ data_ready \in BOOLEAN
          /\ wb_data_o \in Word /\ wb_ack_o \in BOOLEAN
          /\ adc_enable_o \in BOOLEAN /\ adc_soft_rst_o \in BOOLEAN
          /\ continuous_mode_o \in BOOLEAN /\ file \in [Stored -> Word]
=============================================================================
