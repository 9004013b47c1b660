--------------------------- MODULE StandaloneTop ----------------------------
(***************************************************************************)
(* The FPGA demonstrator adc/adc_standalone_top.v: comparator, sampling    *)
(* register (sd_sampling.v), decimator, and eight LEDs driven from the     *)
(* decimated value.  The comparator is the environment.                    *)
(***************************************************************************)
EXTENDS CicDecimator

CONSTANTS
  Stale,      \* what the combs may hold at power-up
  MaxClocks   \* bound: clocks since a reset

VARIABLES
  cmp_in,     \* the comparator
  led,        \* how many LEDs are lit; they are lit from LED0 upwards
  shown,      \* history: the value of data_out that led was computed from
  clocks      \* history: clocks since the reset

topVars == <<vars, cmp_in, led, shown, clocks>>

Sampling == data_in' = IF InReset THEN 0 ELSE IF cmp_in THEN 1 ELSE -1

(* The case items are compared with the whole value.                       *)
LitBy(value) == IF value \in {0, 2, 4, 6, 8, 10, 12, 14} THEN value \div 2 + 1 ELSE 0

Led == led' = IF InReset THEN 0 ELSE LitBy(data_out)

Record == /\ shown' = IF InReset THEN 0 ELSE data_out
          /\ clocks' = IF InReset THEN 0 ELSE clocks + 1

TopInit == /\ PowerUp(Stale) /\ rstn = FALSE /\ data_in = 0
           /\ cmp_in \in BOOLEAN /\ led = 0
           /\ shown = 0 /\ clocks = 0

TopNext == /\ clocks < MaxClocks
           /\ rstn' = TRUE /\ cmp_in' \in BOOLEAN
           /\ Sampling /\ Clock /\ Led /\ Record

TopSpec == TopInit /\ [][TopNext]_topVars

-----------------------------------------------------------------------------
(* "LEDS are lit progressively depending on adc_data"                      *)
(* (adc_standalone_top.v:59): when the value does not fall, no LED goes    *)
(* out.                                                                    *)
LitProgressively ==
  [][InReset \/ (shown' >= shown => led' >= led)]_topVars
=============================================================================
