---------------------------- MODULE CicDecimator ----------------------------
(***************************************************************************)
(* The third-order cascaded integrator-comb filter of adc/cic_decimator.v: *)
(* three integrators at the sampling clock, a decimation counter, three    *)
(* combs at the decimated clock.  int, comb and comb_d hold int1 .. int3,  *)
(* comb1 .. comb3 and comb1_d .. comb3_d; int3_d is declared by the code   *)
(* and never used.  A state is the circuit just before a rising edge, and  *)
(* Clock is one edge (see Sfifo).                                          *)
(***************************************************************************)
EXTENDS Integers

CONSTANTS
  R,       \* decimation ratio, 2^OSR_BITS
  Half,    \* 2^(INTERNAL_WIDTH - 1): the words are -Half .. Half - 1
  Dropped  \* 2^(INTERNAL_WIDTH - ADC_WIDTH): weight of data_out's last bit

ASSUME RatioAssumption == R \in Nat /\ R >= 2
ASSUME WidthAssumption == Half \in Nat \ {0} /\ Dropped \in Nat \ {0}

VARIABLES
  rstn, data_in,        \* input ports; data_in is -1, 0 or 1
  int, cnt, ce_dec, comb, comb_d, data_out, out_valid

ports == <<rstn, data_in>>
regs == <<int, cnt, ce_dec, comb, comb_d, data_out, out_valid>>
vars == <<ports, regs>>

Stage == 1 .. 3
Word == -Half .. Half - 1
Sample == {-1, 0, 1}

(* Faulty variant of Wrap: a register that saturates instead of wrapping.  *)
WrapSaturating(x) == IF x >= Half THEN Half - 1 ELSE IF x < -Half THEN -Half ELSE x

(* The sum that a signed register of INTERNAL_WIDTH bits keeps.            *)
Wrap(x) == ((x + Half) % (2 * Half)) - Half

(* negedge rstn: reset acts when it is asserted and up to the edge at      *)
(* which it is seen released.                                              *)
InReset == ~rstn \/ ~rstn'

(* What stage i of each section takes its input from.                      *)
IntIn(i) == IF i = 1 THEN data_in ELSE int[i - 1]
CombIn(i) == IF i = 1 THEN int[3] ELSE comb[i - 1]

Integrate ==
  int' = [i \in Stage |-> IF InReset THEN 0 ELSE Wrap(int[i] + IntIn(i))]

(* Faulty variant of Decimate: the counter counts one clock too many.      *)
DecimateOneTooMany ==
  /\ cnt' = IF InReset THEN 0 ELSE (cnt + 1) % (R + 1)
  /\ ce_dec' = (~InReset /\ cnt = 0)

Decimate ==
  /\ cnt' = IF InReset THEN 0 ELSE (cnt + 1) % R
  /\ ce_dec' = (~InReset /\ cnt = 0)

(* Faulty variant of Comb: the delayed value is the new comb, not its input. *)
CombTakesOutput ==
  \/ /\ ce_dec
     /\ comb' = [i \in Stage |-> Wrap(CombIn(i) - comb_d[i])]
     /\ comb_d' = [i \in Stage |-> IF InReset THEN 0 ELSE comb'[i]]
     /\ data_out' = IF InReset THEN 0 ELSE comb[3] \div Dropped
     /\ out_valid' = ~InReset
  \/ /\ ~ce_dec
     /\ comb_d' = IF InReset THEN [i \in Stage |-> 0] ELSE comb_d
     /\ data_out' = IF InReset THEN 0 ELSE data_out
     /\ out_valid' = FALSE
     /\ UNCHANGED comb

(* The combs are pipelined: each takes what the one before it held before  *)
(* this edge.  The reset clears the delays and the output, not the combs.  *)
(* Taking the ADC_WIDTH most significant bits is a division that rounds    *)
(* towards minus infinity.                                                 *)
Comb ==
  \/ /\ ce_dec
     /\ comb' = [i \in Stage |-> Wrap(CombIn(i) - comb_d[i])]
     /\ comb_d' = [i \in Stage |-> IF InReset THEN 0 ELSE CombIn(i)]
     /\ data_out' = IF InReset THEN 0 ELSE comb[3] \div Dropped
     /\ out_valid' = ~InReset
  \/ /\ ~ce_dec
     /\ comb_d' = IF InReset THEN [i \in Stage |-> 0] ELSE comb_d
     /\ data_out' = IF InReset THEN 0 ELSE data_out
     /\ out_valid' = FALSE
     /\ UNCHANGED comb

Clock == Integrate /\ Decimate /\ Comb

(* The registers under reset.  The combs have neither a reset nor an       *)
(* initial value: they hold what the last run, or the power-up, left.      *)
PowerUp(Stale) ==
  /\ int = [i \in Stage |-> 0] /\ comb_d = [i \in Stage |-> 0]
  /\ cnt = 0 /\ ce_dec = FALSE
  /\ comb \in [Stage -> Stale]
  /\ data_out = 0 /\ out_valid = FALSE

(* The bitstream is -1 or 1, and 0 while sd_sampling.v is in reset.        *)
Init == PowerUp(Word) /\ rstn = FALSE /\ data_in = 0

Next == /\ rstn' \in BOOLEAN /\ data_in' \in Sample
        /\ Clock

Spec == Init /\ [][Next]_vars

=============================================================================
