------------------------------- MODULE MCCic -------------------------------
(***************************************************************************)
(* CicIdeal on short bitstreams, with the bitstream since the last reset   *)
(* kept as history.  The environment is sd_sampling.v: the bitstream is 0  *)
(* under reset and one clock longer, then -1 or 1.                         *)
(***************************************************************************)
EXTENDS CicIdeal, Sequences, Functions

CONSTANTS
  MaxClocks,  \* bound: clocks since a reset
  ResetAt,    \* the reset is asserted again after that many clocks, or never
  Stale       \* what the combs may hold at power-up

(* The largest sum, R^3, and its negative fit a register: "at least 24+2   *)
(* are required, for safety 32 bits are used" (cic_decimator.v:16).        *)
ASSUME GainAssumption == R * R * R < Half
ASSUME StaleAssumption == Stale \subseteq Word

VARIABLE hist

mcVars == <<allVars, hist>>

MCInit == PowerUp(Stale) /\ rstn = FALSE /\ data_in = 0 /\ IdealInit /\ hist = <<>>

MCNext == /\ Len(hist) < MaxClocks
          /\ rstn' \in IF Len(hist) = ResetAt THEN BOOLEAN ELSE {TRUE}
          /\ data_in' \in IF InReset THEN {0} ELSE {-1, 1}
          /\ Clock /\ IdealClock
          /\ hist' = IF InReset THEN <<>> ELSE Append(hist, data_in)

MCSpec == MCInit /\ [][MCNext]_mcVars

-----------------------------------------------------------------------------
(* The bitstream by the clock it came with, 0 before the reset.            *)
Bits == [n \in Int |-> IF n \in DOMAIN hist THEN hist[n] ELSE 0]

(* What the filter is for: the sum of the last R values, three times over. *)
MovingSum(f) == [n \in Int |-> SumFunctionOnSet(f, n - R + 1 .. n)]
Filtered == MovingSum(MovingSum(MovingSum(Bits)))

(* The clock, counted from the reset, of the last decimated output: the    *)
(* first one comes with the second clock.                                  *)
LastOutput == 2 + R * ((Len(hist) - 2) \div R)

(* The code against its purpose: from the sixth output after a reset on,   *)
(* data_out is the top of the triple moving sum of the bitstream, a fixed  *)
(* 3R + 3 clocks old.  The five outputs before it are still made of the    *)
(* combs, which the reset does not clear.                                  *)
OutputIsMovingSum ==
  Len(hist) >= 2 + 5 * R => data_out = Filtered[LastOutput - 3 - 3 * R] \div Dropped

(* One output per R samples of the bitstream, none skipped or doubled,     *)
(* at every phase of the counter at which the reset may strike.            *)
OneOutputPerR ==
  out_valid <=> Len(hist) >= 2 /\ (Len(hist) - 2) % R = 0
=============================================================================
