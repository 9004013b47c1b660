------------------------------ MODULE CicIdeal ------------------------------
(***************************************************************************)
(* The decimator next to the filter it stands for: the same three          *)
(* integrators and three combs over unbounded integers, run on the same    *)
(* bitstream.  The ideal integrators grow without limit; the registers of  *)
(* cic_decimator.v wrap around, "beabsichtigt und korrekt" (line 27).      *)
(***************************************************************************)
EXTENDS CicDecimator

VARIABLES iint, icomb, icomb_d

ideal == <<iint, icomb, icomb_d>>
allVars == <<vars, ideal>>

IdealIn(i) == IF i = 1 THEN data_in ELSE iint[i - 1]
IdealCombIn(i) == IF i = 1 THEN iint[3] ELSE icomb[i - 1]

IdealClock ==
  /\ iint' = [i \in Stage |-> IF InReset THEN 0 ELSE iint[i] + IdealIn(i)]
  /\ icomb' = IF ce_dec THEN [i \in Stage |-> IdealCombIn(i) - icomb_d[i]]
              ELSE icomb
  /\ icomb_d' = [i \in Stage |-> IF InReset THEN 0
                                 ELSE IF ce_dec THEN IdealCombIn(i)
                                 ELSE icomb_d[i]]

IdealInit == iint = int /\ icomb = comb /\ icomb_d = comb_d

InitWithIdeal == Init /\ IdealInit
NextWithIdeal == Next /\ IdealClock
SpecWithIdeal == InitWithIdeal /\ [][NextWithIdeal]_allVars

-----------------------------------------------------------------------------
(* Equal but for the wrap-around.                                          *)
Congruent(x, y) == (x - y) % (2 * Half) = 0

(* However often the integrators have overflowed, every register differs   *)
(* from its ideal value by a whole number of wrap-arounds.                 *)
RegistersCongruent ==
  \A i \in Stage : /\ Congruent(int[i], iint[i])
                   /\ Congruent(comb[i], icomb[i])
                   /\ Congruent(comb_d[i], icomb_d[i])

(* So the output is exact as soon as the ideal output fits the word: the   *)
(* overflows of the integrators cancel in the combs.                       *)
OutputExact == icomb[3] \in Word => comb[3] = icomb[3]
=============================================================================
