---------------------------- MODULE IoWbRegfile -----------------------------
(***************************************************************************)
(* The Wishbone register file of the pads, io/io_wb_regfile.v: direction   *)
(* (offset 0) and function (offset 4) of 22 pads, and a read-only chip id. *)
(* Words are sets of bits, as in AdcWbRegfile.                             *)
(***************************************************************************)
CONSTANTS
  PadBits,   \* bits 0 .. 21 of a word
  Lane,      \* the byte lane (0 .. 3) of each bit
  ChipId     \* {16'hB50C, sysinfo}

VARIABLES
  rst, wb_cyc_i, wb_stb_i, wb_we_i, wb_adr_i, wb_sel_i, wb_dat_o,  \* ports
  wb_dat_i, wb_ack_o, gpio_oe, gpio_fn

regs == <<wb_dat_i, wb_ack_o, gpio_oe, gpio_fn>>

OE == 0
FN == 4
ID == 8

(* The bits of the selected bytes are replaced; byte 3 has no pad.         *)
Merge(old, new, sel) == {b \in PadBits : IF Lane[b] \in sel THEN b \in new ELSE b \in old}

Writes(a) == wb_stb_i /\ wb_we_i /\ wb_adr_i = a

Write ==
  /\ gpio_oe' = IF rst THEN {} ELSE IF Writes(OE) THEN Merge(gpio_oe, wb_dat_o, wb_sel_i)
                ELSE gpio_oe
  /\ gpio_fn' = IF rst THEN {} ELSE IF Writes(FN) THEN Merge(gpio_fn, wb_dat_o, wb_sel_i)
                ELSE gpio_fn

Register(a) == CASE a = OE -> gpio_oe [] a = FN -> gpio_fn [] a = ID -> ChipId
                 [] OTHER -> {}

(* Reads look at cyc, not at stb, and the data is 0 in all other clocks.   *)
Read == wb_dat_i' = IF wb_cyc_i /\ ~wb_we_i THEN Register(wb_adr_i) ELSE {}

(* So does the acknowledge: it stays as long as the master keeps cyc, and  *)
(* one clock longer.                                                       *)
Ack == wb_ack_o' = (~rst /\ wb_cyc_i)

Clock == Write /\ Read /\ Ack

PowerUp == /\ wb_dat_i = {} /\ wb_ack_o = FALSE
           /\ gpio_oe = {} /\ gpio_fn = {}
=============================================================================
