------------------------------- MODULE WbXbar -------------------------------
(***************************************************************************)
(* The crossbar wb_xbar.v: combinational, one master, four slaves.  The    *)
(* upper half of an address is its page; words are sets of bits, so that   *)
(* OR is union.                                                            *)
(***************************************************************************)
VARIABLES
  wb_page, wb_stb, wb_cyc,      \* from the master
  slave_dat, slave_ack          \* from the slaves, as functions

Slaves == {"i2s", "io", "sd", "adc"}

Page == [s \in Slaves |-> CASE s = "i2s" -> "FFD0" [] s = "io" -> "FFD1"
                            [] s = "sd" -> "FFD2" [] s = "adc" -> "FFD3"]

Selected(s) == wb_page = Page[s]

Stb(s) == wb_stb /\ Selected(s)

(* Faulty variant of Cyc: the cycle goes to every slave.                   *)
CycToAll(s) == wb_cyc

Cyc(s) == wb_cyc /\ Selected(s)

wb_dat_i == UNION {slave_dat[s] : s \in Slaves}
wb_ack == \E s \in Slaves : slave_ack[s]
=============================================================================
