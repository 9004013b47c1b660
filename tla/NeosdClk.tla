------------------------------ MODULE NeosdClk ------------------------------
(***************************************************************************)
(* The clock of the SD controller, neosd_clk.sv: a strobe for the state    *)
(* machines, all the time, and a gated clock for the card; and the         *)
(* prescaler neosd_clken.v, whose pulses are at least two clocks apart.    *)
(***************************************************************************)
EXTENDS Naturals

VARIABLES
  sd_clkdiv_i, sd_clkhs_i,    \* CTRL_CLK_DIV and CTRL_CLK_HS
  clkgen_i,                   \* the selected pulse of the prescaler
  sd_clk_strb, cdiv_cnt, sd_clk_cont, clkstrb_o, sd_clk_o

clk_vars == <<sd_clkdiv_i, sd_clkhs_i, clkgen_i, sd_clk_strb, cdiv_cnt, sd_clk_cont,
              clkstrb_o, sd_clk_o>>

(* Any prescale: a pulse is an edge of a bit of a counter.  With the       *)
(* high-speed bit set it has no effect, and is left low.                   *)
Prescale == clkgen_i' \in {b \in BOOLEAN : b => ~clkgen_i /\ ~sd_clkhs_i}

Divide ==
  LET tick == clkgen_i \/ sd_clkhs_i
  IN /\ sd_clk_strb' = (tick /\ cdiv_cnt = sd_clkdiv_i)
     /\ cdiv_cnt' = IF ~tick THEN cdiv_cnt
                    ELSE IF cdiv_cnt = sd_clkdiv_i THEN 0 ELSE (cdiv_cnt + 1) % 16

(* Every second pulse of the divider is a strobe.                          *)
Strobe == clkstrb_o' = (sd_clk_strb /\ sd_clk_cont)

CardClock(en) ==
  /\ sd_clk_cont' = (sd_clk_cont # sd_clk_strb)
  /\ sd_clk_o' = IF sd_clk_strb THEN en /\ ~sd_clk_cont ELSE sd_clk_o

ClkClock(en) == /\ Prescale /\ Divide /\ Strobe /\ CardClock(en)
                /\ UNCHANGED <<sd_clkdiv_i, sd_clkhs_i>>

ClkInit(Divs) == /\ sd_clkdiv_i \in Divs /\ sd_clkhs_i \in BOOLEAN /\ clkgen_i = FALSE
                 /\ sd_clk_strb = FALSE /\ cdiv_cnt = 0
                 /\ sd_clk_cont = FALSE /\ clkstrb_o = FALSE /\ sd_clk_o = FALSE

ClkTypeOK == /\ sd_clkdiv_i \in 0 .. 15 /\ cdiv_cnt \in 0 .. 15
             /\ sd_clkhs_i \in BOOLEAN /\ clkgen_i \in BOOLEAN
             /\ sd_clk_strb \in BOOLEAN /\ sd_clk_cont \in BOOLEAN
             /\ clkstrb_o \in BOOLEAN /\ sd_clk_o \in BOOLEAN
=============================================================================
