----------------------------- MODULE CicProofs -----------------------------
(***************************************************************************)
(* Proofs about CicIdeal, for every decimation ratio and every width: the  *)
(* wrapping registers follow the ideal filter up to whole wrap-arounds,    *)
(* and the third comb is exact whenever the ideal value fits its register. *)
(* The output comes once in R samples, counted from the reset, and from    *)
(* the sixth on it is the triple moving sum of the bitstream, however long *)
(* the bitstream is and whenever it is reset.                              *)
(***************************************************************************)
EXTENDS MCCic, FiniteSetTheorems, TLAPS

(* Congruence by a witness, the form in which it adds up.                  *)
Differ(x, y, k) == x = y + k * (2 * Half)

LEMMA Division ==
  ASSUME NEW a \in Int, NEW b \in Int, b > 0
  PROVE  /\ a \div b \in Int /\ a % b \in 0 .. b - 1
         /\ a = b * (a \div b) + (a % b)
OBVIOUS

LEMMA MultipleHasNoRest ==
  ASSUME NEW k \in Int, NEW b \in Nat \ {0}
  PROVE  (k * b) % b = 0
OBVIOUS

LEMMA RestIs ==
  ASSUME NEW q \in Int, NEW b \in Nat \ {0}, NEW r \in 0 .. b - 1
  PROVE  (b * q + r) % b = r
OBVIOUS

LEMMA CongruentByWitness ==
  ASSUME NEW x \in Int, NEW y \in Int
  PROVE  Congruent(x, y) <=> \E k \in Int : Differ(x, y, k)
<1>1. ASSUME Congruent(x, y) PROVE \E k \in Int : Differ(x, y, k)
  <2>1. /\ (x - y) \div (2 * Half) \in Int
        /\ x - y = (2 * Half) * ((x - y) \div (2 * Half)) + ((x - y) % (2 * Half))
    BY Division, WidthAssumption
  <2>2. Differ(x, y, (x - y) \div (2 * Half))
    BY <1>1, <2>1, WidthAssumption DEF Congruent, Differ
  <2> QED
    BY <2>1, <2>2
<1>2. ASSUME NEW k \in Int, Differ(x, y, k) PROVE Congruent(x, y)
  <2>1. 2 * Half \in Nat \ {0} /\ x - y = k * (2 * Half)
    BY <1>2, WidthAssumption DEF Differ
  <2> QED
    BY <2>1, MultipleHasNoRest DEF Congruent
<1> QED
  BY <1>1, <1>2

LEMMA WrapIs ==
  ASSUME NEW x \in Int
  PROVE  Wrap(x) \in Word /\ \E k \in Int : Differ(Wrap(x), x, k)
<1>1. /\ (x + Half) \div (2 * Half) \in Int
      /\ (x + Half) % (2 * Half) \in 0 .. 2 * Half - 1
      /\ x + Half = (2 * Half) * ((x + Half) \div (2 * Half)) + ((x + Half) % (2 * Half))
  <2>1. x + Half \in Int /\ 2 * Half \in Int /\ 2 * Half > 0
    BY WidthAssumption
  <2> QED
    BY <2>1, Division
<1>2. Wrap(x) \in Word
  BY <1>1, WidthAssumption DEF Wrap, Word
<1>3. Differ(Wrap(x), x, -((x + Half) \div (2 * Half)))
  BY <1>1, WidthAssumption DEF Wrap, Differ
<1> QED
  BY <1>1, <1>2, <1>3

(* The registers add and subtract modulo 2 * Half.                         *)
LEMMA WrapOfSum ==
  ASSUME NEW x \in Int, NEW ix \in Int, Congruent(x, ix),
         NEW y \in Int, NEW iy \in Int, Congruent(y, iy)
  PROVE  Congruent(Wrap(x + y), ix + iy) /\ Congruent(Wrap(x - y), ix - iy)
<1>1. PICK k \in Int, l \in Int : Differ(x, ix, k) /\ Differ(y, iy, l)
  BY CongruentByWitness
<1>2. PICK m \in Int : Differ(Wrap(x + y), x + y, m)
  BY WrapIs
<1>3. PICK n \in Int : Differ(Wrap(x - y), x - y, n)
  BY WrapIs
<1>4. Differ(Wrap(x + y), ix + iy, k + l + m)
  BY <1>1, <1>2, WidthAssumption DEF Differ
<1>5. Differ(Wrap(x - y), ix - iy, k - l + n)
  BY <1>1, <1>3, WidthAssumption DEF Differ
<1>6. Wrap(x + y) \in Int /\ Wrap(x - y) \in Int
  BY WrapIs, WidthAssumption DEF Word
<1> QED
  BY <1>4, <1>5, <1>6, CongruentByWitness

LEMMA SameIsCongruent == ASSUME NEW x \in Int PROVE Congruent(x, x)
BY WidthAssumption, MultipleHasNoRest DEF Congruent

LEMMA CongruentWordsAreEqual ==
  ASSUME NEW x \in Word, NEW y \in Word, Congruent(x, y)
  PROVE  x = y
<1>1. x \in Int /\ y \in Int
  BY WidthAssumption DEF Word
<1>2. PICK k \in Int : Differ(x, y, k)
  BY <1>1, CongruentByWitness
<1> QED
  BY <1>2, WidthAssumption DEF Word, Differ

-----------------------------------------------------------------------------
(* The inductive invariant.  data_out and the strobes are of no concern.   *)
IdealTypeOK == /\ data_in \in Sample
               /\ int \in [Stage -> Word]
               /\ comb \in [Stage -> Word] /\ comb_d \in [Stage -> Word]
               /\ iint \in [Stage -> Int]
               /\ icomb \in [Stage -> Int] /\ icomb_d \in [Stage -> Int]
CicInv == IdealTypeOK /\ RegistersCongruent

LEMMA WordFacts == 0 \in Word /\ Word \subseteq Int /\ Sample \subseteq Int
BY WidthAssumption DEF Word, Sample

LEMMA CicInit == InitWithIdeal => CicInv
<1> SUFFICES ASSUME InitWithIdeal PROVE CicInv
  OBVIOUS
<1>1. IdealTypeOK
  BY WordFacts DEF InitWithIdeal, Init, PowerUp, IdealInit, IdealTypeOK, Sample, Stage
<1>2. RegistersCongruent
  BY <1>1, SameIsCongruent
     DEF InitWithIdeal, IdealInit, RegistersCongruent, IdealTypeOK
<1> QED
  BY <1>1, <1>2 DEF CicInv

LEMMA IntegratorStep ==
  ASSUME CicInv, Integrate, IdealClock, NEW i \in Stage
  PROVE  int'[i] \in Word /\ iint'[i] \in Int /\ Congruent(int'[i], iint'[i])
<1>1. /\ int[i] \in Int /\ iint[i] \in Int /\ Congruent(int[i], iint[i])
      /\ IntIn(i) \in Int /\ IdealIn(i) \in Int /\ Congruent(IntIn(i), IdealIn(i))
  <2>1. int[i] \in Int /\ iint[i] \in Int /\ Congruent(int[i], iint[i])
    BY WordFacts DEF CicInv, IdealTypeOK, RegistersCongruent
  <2>2. CASE i = 1
    BY <2>1, <2>2, WordFacts, SameIsCongruent
       DEF CicInv, IdealTypeOK, IntIn, IdealIn
  <2>3. CASE i # 1
    <3>1. i - 1 \in Stage
      BY <2>3 DEF Stage
    <3>2. IntIn(i) = int[i - 1] /\ IdealIn(i) = iint[i - 1]
      BY <2>3 DEF IntIn, IdealIn
    <3> QED
      BY <2>1, <3>1, <3>2, WordFacts DEF CicInv, IdealTypeOK, RegistersCongruent
  <2> QED
    BY <2>2, <2>3
<1>2. CASE InReset
  BY <1>2, WordFacts, SameIsCongruent DEF Integrate, IdealClock
<1>3. CASE ~InReset
  <2>1. int'[i] = Wrap(int[i] + IntIn(i)) /\ iint'[i] = iint[i] + IdealIn(i)
    BY <1>3 DEF Integrate, IdealClock
  <2>2. int[i] + IntIn(i) \in Int /\ iint[i] + IdealIn(i) \in Int
    BY <1>1
  <2>3. Wrap(int[i] + IntIn(i)) \in Word
    BY <2>2, WrapIs
  <2>4. Congruent(Wrap(int[i] + IntIn(i)), iint[i] + IdealIn(i))
    BY <1>1, WrapOfSum
  <2> QED
    BY <2>1, <2>2, <2>3, <2>4
<1> QED
  BY <1>2, <1>3

LEMMA CombStep ==
  ASSUME CicInv, Comb, IdealClock, NEW i \in Stage
  PROVE  /\ comb'[i] \in Word /\ icomb'[i] \in Int /\ Congruent(comb'[i], icomb'[i])
         /\ comb_d'[i] \in Word /\ icomb_d'[i] \in Int
         /\ Congruent(comb_d'[i], icomb_d'[i])
<1>1. /\ CombIn(i) \in Word /\ IdealCombIn(i) \in Int
      /\ Congruent(CombIn(i), IdealCombIn(i))
  <2>1. CASE i = 1
    BY <2>1 DEF CicInv, IdealTypeOK, RegistersCongruent, CombIn, IdealCombIn, Stage
  <2>2. CASE i # 1
    <3>1. i - 1 \in Stage
      BY <2>2 DEF Stage
    <3> QED
      BY <2>2, <3>1 DEF CicInv, IdealTypeOK, RegistersCongruent, CombIn, IdealCombIn
  <2> QED
    BY <2>1, <2>2
<1>2. /\ comb[i] \in Word /\ icomb[i] \in Int /\ Congruent(comb[i], icomb[i])
      /\ comb_d[i] \in Word /\ icomb_d[i] \in Int /\ Congruent(comb_d[i], icomb_d[i])
  BY DEF CicInv, IdealTypeOK, RegistersCongruent
<1>3. CASE ce_dec
  <2>1. /\ comb'[i] = Wrap(CombIn(i) - comb_d[i])
        /\ icomb'[i] = IdealCombIn(i) - icomb_d[i]
    BY <1>3 DEF Comb, IdealClock
  <2>2. /\ comb_d'[i] = IF InReset THEN 0 ELSE CombIn(i)
        /\ icomb_d'[i] = IF InReset THEN 0 ELSE IdealCombIn(i)
    BY <1>3 DEF Comb, IdealClock
  <2>3. comb'[i] \in Word /\ icomb'[i] \in Int /\ Congruent(comb'[i], icomb'[i])
    <3>1. /\ CombIn(i) - comb_d[i] \in Int
          /\ IdealCombIn(i) - icomb_d[i] \in Int
      <4>1. CombIn(i) \in Int /\ comb_d[i] \in Int
        BY <1>1, <1>2, WordFacts
      <4> QED
        BY <1>1, <1>2, <4>1
    <3>2. Wrap(CombIn(i) - comb_d[i]) \in Word
      BY <3>1, WrapIs
    <3>3. Congruent(Wrap(CombIn(i) - comb_d[i]), IdealCombIn(i) - icomb_d[i])
      <4>1. CombIn(i) \in Int /\ comb_d[i] \in Int
        BY <1>1, <1>2, WordFacts
      <4> QED
        BY <1>1, <1>2, <4>1, WrapOfSum
    <3> QED
      BY <2>1, <3>1, <3>2, <3>3
  <2>4. /\ comb_d'[i] \in Word /\ icomb_d'[i] \in Int
        /\ Congruent(comb_d'[i], icomb_d'[i])
    BY <1>1, <2>2, WordFacts, SameIsCongruent
  <2> QED
    BY <2>3, <2>4
<1>4. CASE ~ce_dec
  <2>1. comb'[i] = comb[i] /\ icomb'[i] = icomb[i]
    BY <1>4 DEF Comb, IdealClock
  <2>2. /\ comb_d'[i] = IF InReset THEN 0 ELSE comb_d[i]
        /\ icomb_d'[i] = IF InReset THEN 0 ELSE icomb_d[i]
    BY <1>4 DEF Comb, IdealClock
  <2> QED
    BY <1>2, <2>1, <2>2, WordFacts, SameIsCongruent
<1> QED
  BY <1>3, <1>4

LEMMA CicStep == CicInv /\ [NextWithIdeal]_allVars => CicInv'
<1> SUFFICES ASSUME CicInv, [NextWithIdeal]_allVars PROVE CicInv'
  OBVIOUS
<1>1. CASE NextWithIdeal
  <2>1. /\ data_in' \in Sample /\ Integrate /\ Comb /\ IdealClock
    BY <1>1 DEF NextWithIdeal, Next, Clock
  <2>2. /\ int' = [i \in Stage |-> int'[i]] /\ iint' = [i \in Stage |-> iint'[i]]
        /\ icomb' = [i \in Stage |-> icomb'[i]]
        /\ icomb_d' = [i \in Stage |-> icomb_d'[i]]
    BY <2>1 DEF Integrate, IdealClock, CicInv, IdealTypeOK
  <2>3. /\ comb' = [i \in Stage |-> comb'[i]]
        /\ comb_d' = [i \in Stage |-> comb_d'[i]]
    BY <2>1 DEF Comb, CicInv, IdealTypeOK
  <2>4. IdealTypeOK'
    <3>1. int' \in [Stage -> Word] /\ iint' \in [Stage -> Int]
      BY <2>1, <2>2, IntegratorStep
    <3>2. /\ comb' \in [Stage -> Word] /\ comb_d' \in [Stage -> Word]
          /\ icomb' \in [Stage -> Int] /\ icomb_d' \in [Stage -> Int]
      BY <2>1, <2>2, <2>3, CombStep
    <3> QED
      BY <2>1, <3>1, <3>2 DEF IdealTypeOK
  <2>5. RegistersCongruent'
    BY <2>1, IntegratorStep, CombStep DEF RegistersCongruent
  <2> QED
    BY <2>4, <2>5 DEF CicInv
<1>2. CASE UNCHANGED allVars
  BY <1>2 DEF allVars, vars, ports, regs, ideal, CicInv, IdealTypeOK,
              RegistersCongruent, Congruent
<1> QED
  BY <1>1, <1>2

LEMMA CicInvariant == SpecWithIdeal => []CicInv
BY CicInit, CicStep, PTL DEF SpecWithIdeal

(* Every register of cic_decimator.v is its ideal value up to whole        *)
(* wrap-arounds, however long the filter runs and whenever it is reset.    *)
THEOREM WrapAroundIsModular == SpecWithIdeal => []RegistersCongruent
<1>1. CicInv => RegistersCongruent
  BY DEF CicInv
<1> QED
  BY <1>1, CicInvariant, PTL

(* "Wrap-around Arithmetik ist hier beabsichtigt und korrekt": whenever    *)
(* the ideal third comb fits the register, the register holds it exactly,  *)
(* whatever overflowed on the way.                                         *)
THEOREM OutputIsExact == SpecWithIdeal => []OutputExact
<1>1. CicInv => OutputExact
  <2> SUFFICES ASSUME CicInv, icomb[3] \in Word PROVE comb[3] = icomb[3]
    BY DEF OutputExact
  <2>1. comb[3] \in Word /\ Congruent(comb[3], icomb[3])
    BY DEF CicInv, IdealTypeOK, RegistersCongruent, Stage
  <2> QED
    BY <2>1, CongruentWordsAreEqual
<1> QED
  BY <1>1, CicInvariant, PTL
-----------------------------------------------------------------------------
(* The filter with its ideal and the bitstream since the reset, on any     *)
(* bitstream and with a reset at any clock: MCCic without its bounds.      *)
FilterInit == InitWithIdeal /\ hist = <<>>
Sampled == /\ NextWithIdeal
           /\ hist' = IF InReset THEN <<>> ELSE Append(hist, data_in)
FilterSpec == FilterInit /\ [][Sampled]_mcVars

(* What the run steps through are steps of the filter.                     *)
LEMMA BoundedIsSampled ==
  /\ MCInit => FilterInit
  /\ [MCNext]_mcVars => [Sampled]_mcVars
<1>1. MCInit => FilterInit
  BY StaleAssumption DEF MCInit, FilterInit, InitWithIdeal, Init, PowerUp
<1>2. MCNext => Sampled
  BY DEF MCNext, Sampled, NextWithIdeal, Next, Sample
<1> QED
  BY <1>1, <1>2

(* The strobes trail the counter: the decimator counts the samples since   *)
(* the reset, strobes one clock after a multiple of R, and puts out its    *)
(* word one clock later.                                                   *)
CountInv ==
  /\ data_in \in Sample /\ hist \in Seq(Sample)
  /\ cnt = Len(hist) % R
  /\ ce_dec <=> Len(hist) >= 1 /\ (Len(hist) - 1) % R = 0
  /\ OneOutputPerR

(* The counter, which wraps at R, counts modulo R.                         *)
LEMMA CountsOn ==
  ASSUME NEW n \in Nat
  PROVE  ((n % R) + 1) % R = (n + 1) % R
<1> DEFINE q == n \div R
           r == n % R
<1>1. q \in Int /\ r \in 0 .. R - 1 /\ n = R * q + r
  BY Division, RatioAssumption
<1> HIDE DEF q, r
<1>2. CASE r = R - 1
  <2>1. n + 1 = (q + 1) * R /\ q + 1 \in Int /\ r + 1 = 1 * R
    BY <1>1, <1>2, RatioAssumption
  <2>2. ((q + 1) * R) % R = 0 /\ (1 * R) % R = 0
    BY <2>1, MultipleHasNoRest, RatioAssumption
  <2> QED
    BY <2>1, <2>2 DEF r
<1>3. CASE r # R - 1
  <2>1. n + 1 = R * q + (r + 1) /\ r + 1 \in 0 .. R - 1
    BY <1>1, <1>3, RatioAssumption
  <2>2. (R * q + (r + 1)) % R = r + 1 /\ (r + 1) % R = r + 1
    BY <1>1, <2>1, RestIs, RatioAssumption
  <2>3. (n + 1) % R = r + 1
    BY <2>1, <2>2
  <2> QED
    BY <2>2, <2>3 DEF r
<1> QED
  BY <1>2, <1>3

LEMMA CountInit == FilterInit => CountInv
<1> SUFFICES ASSUME FilterInit PROVE CountInv
  OBVIOUS
<1>1. data_in = 0 /\ hist = <<>> /\ cnt = 0 /\ ce_dec = FALSE /\ out_valid = FALSE
  BY DEF FilterInit, InitWithIdeal, Init, PowerUp
<1>2. Len(hist) = 0 /\ 0 % R = 0 /\ hist \in Seq(Sample) /\ 0 \in Sample
  BY <1>1, RatioAssumption DEF Sample
<1> QED
  BY <1>1, <1>2 DEF CountInv, OneOutputPerR

LEMMA CountStep == CountInv /\ [Sampled]_mcVars => CountInv'
<1> SUFFICES ASSUME CountInv, [Sampled]_mcVars PROVE CountInv'
  OBVIOUS
<1>1. CASE UNCHANGED mcVars
  BY <1>1 DEF CountInv, OneOutputPerR, mcVars, allVars, vars, ports, regs
<1>2. CASE Sampled
  <2> DEFINE n == Len(hist)
  <2>0. n \in Nat /\ data_in' \in Sample
    BY <1>2 DEF CountInv, Sampled, NextWithIdeal, Next
  <2>1. /\ out_valid' = (ce_dec /\ ~InReset) /\ ce_dec' = (~InReset /\ cnt = 0)
        /\ cnt' = IF InReset THEN 0 ELSE (cnt + 1) % R
        /\ hist' = IF InReset THEN <<>> ELSE Append(hist, data_in)
    BY <1>2 DEF Sampled, NextWithIdeal, Next, Clock, Decimate, Comb, CountInv
  <2>2. CASE InReset
    <3>1. /\ hist' \in Seq(Sample) /\ cnt' = Len(hist') % R
          /\ ~(Len(hist') >= 1) /\ ~(Len(hist') >= 2)
      BY <2>1, <2>2, RatioAssumption
    <3>2. ~ce_dec' /\ ~out_valid'
      BY <2>1, <2>2
    <3> QED
      BY <2>0, <3>1, <3>2 DEF CountInv, OneOutputPerR
  <2>3. CASE ~InReset
    <3>1. Len(hist') = n + 1 /\ hist' \in Seq(Sample)
      BY <2>1, <2>3 DEF CountInv
    <3>2. cnt' = (n + 1) % R
      BY <2>0, <2>1, <2>3, CountsOn DEF CountInv
    <3>3. (ce_dec' <=> n % R = 0) /\ (out_valid' <=> n >= 1 /\ (n - 1) % R = 0)
      BY <2>1, <2>3 DEF CountInv
    <3>4. /\ Len(hist') - 1 = n /\ Len(hist') - 2 = n - 1
          /\ Len(hist') >= 1 /\ (Len(hist') >= 2 <=> n >= 1)
      BY <2>0, <3>1
    <3>5. /\ cnt' = Len(hist') % R
          /\ ce_dec' <=> Len(hist') >= 1 /\ (Len(hist') - 1) % R = 0
      BY <3>1, <3>2, <3>3, <3>4
    <3>6. OneOutputPerR'
      BY <3>3, <3>4 DEF OneOutputPerR
    <3> QED
      BY <2>0, <3>1, <3>5, <3>6 DEF CountInv
  <2> QED
    BY <2>2, <2>3
<1> QED
  BY <1>1, <1>2

(* For every ratio and bitstream, and a reset at any phase of the counter: *)
(* cic_decimator.v puts out one word per R samples, the first with the     *)
(* second clock after the reset, and none is skipped or doubled.           *)
THEOREM OnePerRatio == MCSpec => []OneOutputPerR
<1>1. CountInv => OneOutputPerR
  BY DEF CountInv
<1> QED
  BY <1>1, BoundedIsSampled, CountInit, CountStep, PTL DEF MCSpec
-----------------------------------------------------------------------------
(* Induction: a set that holds 0, and n + 1 with every n, holds all        *)
(* natural numbers, because the others would have a smallest one.          *)
LEMMA NatBySet ==
  ASSUME NEW T, 0 \in T, \A n \in Nat : n \in T => n + 1 \in T
  PROVE  Nat \subseteq T
<1> DEFINE U == Nat \ T
<1> SUFFICES ASSUME U # {} PROVE FALSE
  OBVIOUS
<1>1. U \subseteq Nat /\ 0 \notin U /\ \A n \in Nat : n + 1 \in U => n \in U
  OBVIOUS
<1> HIDE DEF U
<1>2. PICK m \in U : \A y \in U : ~(<<y, m>> \in OpToRel(<, Nat))
  BY <1>1, NatLessThanWellFounded, WFMin
<1>3. m \in Nat /\ m # 0
  BY <1>1
<1>4. m - 1 \in Nat /\ (m - 1) + 1 = m /\ m - 1 < m
  BY <1>3
<1>5. m - 1 \in U
  BY <1>1, <1>4
<1>6. <<m - 1, m>> \in OpToRel(<, Nat)
  BY <1>3, <1>4 DEF OpToRel
<1> QED
  BY <1>2, <1>5, <1>6

(* Sums.  The library defines the sum of f over S by a recursive function  *)
(* on the subsets of S: it takes out any element, and adds up the rest.    *)
Total(f, S) == SumFunctionOnSet(f, S)
Any(s) == CHOOSE x \in s : TRUE
Added(f, s, g) == IF s = {} THEN 0 ELSE f[Any(s)] + g[s \ {Any(s)}]
Adds(f, S, g) == g = [s \in SUBSET S |-> Added(f, s, g)]
Small(S, n) == {s \in SUBSET S : Cardinality(s) <= n}

(* The library's definition, in the terms above.                           *)
LEMMA TotalIs ==
  ASSUME NEW f, NEW S
  PROVE  Total(f, S) = (CHOOSE g : Adds(f, S, g))[S]
BY DEF Total, SumFunctionOnSet, FoldFunctionOnSet, MapThenFoldSet, Adds, Added, Any

(* Taking an element out of a finite set leaves one element less.          *)
LEMMA Smaller ==
  ASSUME NEW s, IsFiniteSet(s), s # {}
  PROVE  /\ Any(s) \in s
         /\ Cardinality(s) \in Nat /\ Cardinality(s) > 0
         /\ \A x \in s : IsFiniteSet(s \ {x}) /\ Cardinality(s \ {x}) = Cardinality(s) - 1
<1>1. Any(s) \in s
  BY DEF Any
<1>2. Cardinality(s) \in Nat /\ Cardinality(s) # 0
  BY FS_CardinalityType, FS_EmptySet
<1>3. \A x \in s : IsFiniteSet(s \ {x}) /\ Cardinality(s \ {x}) = Cardinality(s) - 1
  BY FS_RemoveElement
<1> QED
  BY <1>1, <1>2, <1>3

(* The recursion has a solution: up to every number of elements there is   *)
(* one.                                                                    *)
LEMMA AddsExists ==
  ASSUME NEW f, NEW S, IsFiniteSet(S)
  PROVE  \E g : Adds(f, S, g)
<1> DEFINE Upto(n, g) == g = [s \in Small(S, n) |-> Added(f, s, g)]
           T == {n \in Nat : \E g : Upto(n, g)}
<1>1. \A s \in SUBSET S : IsFiniteSet(s) /\ Cardinality(s) \in Nat
  BY FS_Subset, FS_CardinalityType
<1>2. 0 \in T
  <2> DEFINE g == [s \in Small(S, 0) |-> 0]
  <2>1. \A s \in Small(S, 0) : s = {}
    BY <1>1, FS_EmptySet DEF Small
  <2>2. \A s \in Small(S, 0) : Added(f, s, g) = 0
    BY <2>1 DEF Added
  <2>3. Upto(0, g)
    BY <2>2
  <2> QED
    BY <2>3
<1>3. ASSUME NEW n \in Nat, n \in T
      PROVE  n + 1 \in T
  <2>1. PICK g : Upto(n, g)
    BY <1>3
  <2> DEFINE h == [s \in Small(S, n + 1) |-> Added(f, s, g)]
  <2>2. \A s \in Small(S, n) : s \in Small(S, n + 1) /\ h[s] = g[s]
    <3>1. \A s \in Small(S, n) : s \in Small(S, n + 1)
      BY <1>1 DEF Small
    <3>2. \A s \in Small(S, n) : g[s] = Added(f, s, g)
      BY <2>1
    <3> QED
      BY <3>1, <3>2
  <2>3. ASSUME NEW s \in Small(S, n + 1)
        PROVE  Added(f, s, g) = Added(f, s, h)
    <3>1. CASE s = {}
      BY <3>1 DEF Added
    <3>2. CASE s # {}
      <4>1. Any(s) \in s /\ Cardinality(s \ {Any(s)}) = Cardinality(s) - 1
        BY <1>1, <3>2, Smaller DEF Small
      <4>2. s \ {Any(s)} \in Small(S, n)
        BY <1>1, <4>1 DEF Small
      <4>3. h[s \ {Any(s)}] = g[s \ {Any(s)}]
        BY <2>2, <4>2
      <4> HIDE DEF h
      <4> QED
        BY <4>3, <3>2 DEF Added
    <3> QED
      BY <3>1, <3>2
  <2>4. Upto(n + 1, h)
    BY <2>3
  <2> HIDE DEF h
  <2>5. \E k : Upto(n + 1, k)
    BY <2>4
  <2> HIDE DEF Upto
  <2> QED
    BY <2>5
<1>4. Cardinality(S) \in T
  <2> HIDE DEF T
  <2> QED
    BY <1>2, <1>3, NatBySet, FS_CardinalityType
<1>5. Small(S, Cardinality(S)) = SUBSET S
  BY FS_Subset DEF Small
<1> QED
  BY <1>4, <1>5 DEF Adds

(* What the recursion adds up is an integer.                               *)
LEMMA AddsInt ==
  ASSUME NEW f, NEW S, IsFiniteSet(S), \A x \in S : f[x] \in Int,
         NEW g, Adds(f, S, g)
  PROVE  \A s \in SUBSET S : g[s] \in Int
<1> DEFINE T == {n \in Nat : \A s \in SUBSET S : Cardinality(s) = n => g[s] \in Int}
<1>1. \A s \in SUBSET S : IsFiniteSet(s) /\ Cardinality(s) \in Nat
  BY FS_Subset, FS_CardinalityType
<1>2. \A s \in SUBSET S : g[s] = Added(f, s, g)
  BY DEF Adds
<1>3. 0 \in T
  <2>1. ASSUME NEW s \in SUBSET S, Cardinality(s) = 0
        PROVE  g[s] \in Int
    <3>1. s = {}
      BY <1>1, <2>1, FS_EmptySet
    <3>2. g[s] = Added(f, s, g) /\ Added(f, s, g) = 0
      BY <1>2, <3>1 DEF Added
    <3> QED
      BY <3>2
  <2> QED
    BY <2>1
<1>4. ASSUME NEW n \in Nat, n \in T
      PROVE  n + 1 \in T
  <2>1. ASSUME NEW s \in SUBSET S, Cardinality(s) = n + 1
        PROVE  g[s] \in Int
    <3>1. s # {} /\ IsFiniteSet(s)
      BY <1>1, <2>1, FS_EmptySet
    <3>2. Any(s) \in s /\ s \ {Any(s)} \in SUBSET S /\ Cardinality(s \ {Any(s)}) = n
      BY <2>1, <3>1, Smaller
    <3>3. g[s] = f[Any(s)] + g[s \ {Any(s)}] /\ f[Any(s)] \in Int
      BY <1>2, <3>1, <3>2 DEF Added
    <3> QED
      BY <1>4, <3>2, <3>3
  <2> QED
    BY <2>1
<1>5. Nat \subseteq T
  <2> HIDE DEF T
  <2> QED
    BY <1>3, <1>4, NatBySet
<1> QED
  BY <1>1, <1>5

(* Any element may be the one that is taken out.                           *)
Splits(f, s, g) == \A x \in s : g[s] = f[x] + g[s \ {x}]

LEMMA AnyOrder ==
  ASSUME NEW f, NEW S, IsFiniteSet(S), \A x \in S : f[x] \in Int,
         NEW g, Adds(f, S, g)
  PROVE  \A s \in SUBSET S : Splits(f, s, g)
<1> DEFINE T == {n \in Nat : \A s \in SUBSET S : Cardinality(s) = n => Splits(f, s, g)}
<1>1. \A s \in SUBSET S : IsFiniteSet(s) /\ Cardinality(s) \in Nat
  BY FS_Subset, FS_CardinalityType
<1>2. \A s \in SUBSET S : g[s] = Added(f, s, g) /\ g[s] \in Int
  BY AddsInt DEF Adds
<1>3. 0 \in T
  <2>1. ASSUME NEW s \in SUBSET S, Cardinality(s) = 0
        PROVE  Splits(f, s, g)
    <3>1. s = {}
      BY <1>1, <2>1, FS_EmptySet
    <3> QED
      BY <3>1 DEF Splits
  <2> QED
    BY <2>1
<1>4. ASSUME NEW n \in Nat, n \in T
      PROVE  n + 1 \in T
  <2>1. ASSUME NEW s \in SUBSET S, Cardinality(s) = n + 1, NEW x \in s
        PROVE  g[s] = f[x] + g[s \ {x}]
    <3> DEFINE c == Any(s)
    <3>1. s # {} /\ IsFiniteSet(s)
      BY <1>1, <2>1
    <3>2. c \in s /\ \A y \in s : s \ {y} \in SUBSET S /\ Cardinality(s \ {y}) = n
      BY <2>1, <3>1, Smaller
    <3>3. \A y \in s : Splits(f, s \ {y}, g)
      BY <1>4, <3>2
    <3>4. g[s] = f[c] + g[s \ {c}]
      BY <1>2, <3>1 DEF Added
    <3> HIDE DEF c
    <3>5. CASE x = c
      BY <3>4, <3>5
    <3>6. CASE x # c
      <4>1. x \in s \ {c} /\ c \in s \ {x} /\ (s \ {c}) \ {x} = (s \ {x}) \ {c}
        BY <3>2, <3>6
      <4>2. g[s \ {c}] = f[x] + g[(s \ {c}) \ {x}]
        BY <3>2, <3>3, <4>1 DEF Splits
      <4>3. g[s \ {x}] = f[c] + g[(s \ {c}) \ {x}]
        BY <3>2, <3>3, <4>1 DEF Splits
      <4>4. f[x] \in Int /\ f[c] \in Int /\ g[(s \ {c}) \ {x}] \in Int
        BY <1>2, <3>2
      <4> QED
        BY <3>4, <4>2, <4>3, <4>4
    <3> QED
      BY <3>5, <3>6
  <2>2. \A s \in SUBSET S : Cardinality(s) = n + 1 => Splits(f, s, g)
    BY <2>1 DEF Splits
  <2> QED
    BY <2>2
<1>5. Nat \subseteq T
  <2> HIDE DEF T
  <2> QED
    BY <1>3, <1>4, NatBySet
<1> QED
  BY <1>1, <1>5

(* Two solutions agree where both add up the same.                         *)
LEMMA AddsUnique ==
  ASSUME NEW f, NEW S, IsFiniteSet(S), NEW U \in SUBSET S, NEW e,
         NEW g, Adds(f, S, g), NEW h, Adds(e, U, h), \A x \in U : e[x] = f[x]
  PROVE  \A s \in SUBSET U : h[s] = g[s]
<1> DEFINE T == {n \in Nat : \A s \in SUBSET U : Cardinality(s) = n => h[s] = g[s]}
<1>1. \A s \in SUBSET U : IsFiniteSet(s) /\ Cardinality(s) \in Nat
  BY FS_Subset, FS_CardinalityType
<1>2. \A s \in SUBSET U : g[s] = Added(f, s, g) /\ h[s] = Added(e, s, h)
  BY DEF Adds
<1>3. 0 \in T
  <2>1. ASSUME NEW s \in SUBSET U, Cardinality(s) = 0
        PROVE  h[s] = g[s]
    <3>1. s = {}
      BY <1>1, <2>1, FS_EmptySet
    <3> QED
      BY <1>2, <3>1 DEF Added
  <2> QED
    BY <2>1
<1>4. ASSUME NEW n \in Nat, n \in T
      PROVE  n + 1 \in T
  <2>1. ASSUME NEW s \in SUBSET U, Cardinality(s) = n + 1
        PROVE  h[s] = g[s]
    <3>1. s # {} /\ IsFiniteSet(s)
      BY <1>1, <2>1, FS_EmptySet
    <3>2. Any(s) \in s /\ s \ {Any(s)} \in SUBSET U /\ Cardinality(s \ {Any(s)}) = n
      BY <2>1, <3>1, Smaller
    <3>3. g[s] = f[Any(s)] + g[s \ {Any(s)}] /\ h[s] = e[Any(s)] + h[s \ {Any(s)}]
      BY <1>2, <3>1 DEF Added
    <3> QED
      BY <1>4, <3>2, <3>3
  <2> QED
    BY <2>1
<1>5. Nat \subseteq T
  <2> HIDE DEF T
  <2> QED
    BY <1>3, <1>4, NatBySet
<1> QED
  BY <1>1, <1>5

(* So a sum can be split at any element, and depends on nothing but what   *)
(* it adds up.                                                             *)
LEMMA TotalEmpty == ASSUME NEW f PROVE Total(f, {}) = 0
<1>1. PICK g : Adds(f, {}, g)
  BY AddsExists, FS_EmptySet
<1>2. Adds(f, {}, CHOOSE h : Adds(f, {}, h))
  BY <1>1
<1>3. \A h : Adds(f, {}, h) => h[{}] = 0
  BY DEF Adds, Added
<1> QED
  BY <1>2, <1>3, TotalIs

(* A sum is one of its terms and the sum of the others.                    *)
LEMMA TotalSplit ==
  ASSUME NEW f, NEW S, IsFiniteSet(S), \A x \in S : f[x] \in Int
  PROVE  /\ Total(f, S) \in Int
         /\ \A x \in S : Total(f, S) = f[x] + Total(f, S \ {x})
<1> DEFINE g == CHOOSE h : Adds(f, S, h)
<1>1. Adds(f, S, g)
  BY AddsExists
<1>2. Total(f, S) = g[S]
  BY TotalIs
<1> HIDE DEF g
<1>3. g[S] \in Int
  BY <1>1, AddsInt
<1>4. ASSUME NEW x \in S
      PROVE  Total(f, S) = f[x] + Total(f, S \ {x})
  <2> DEFINE U == S \ {x}
             h == CHOOSE k : Adds(f, U, k)
  <2>1. IsFiniteSet(U) /\ U \in SUBSET S
    BY FS_Subset
  <2> HIDE DEF U
  <2>2. Adds(f, U, h)
    BY <2>1, AddsExists
  <2>3. Total(f, U) = h[U]
    BY TotalIs
  <2> HIDE DEF h
  <2>4. h[U] = g[U]
    BY <1>1, <2>1, <2>2, AddsUnique
  <2>5. g[S] = f[x] + g[U]
    BY <1>1, AnyOrder DEF Splits, U
  <2> QED
    BY <1>2, <2>3, <2>4, <2>5 DEF U
<1> QED
  BY <1>2, <1>3, <1>4

(* Two signals that agree on S have the same sum over S.                   *)
LEMMA TotalSame ==
  ASSUME NEW f, NEW e, NEW S, IsFiniteSet(S), \A x \in S : e[x] = f[x]
  PROVE  Total(e, S) = Total(f, S)
<1> DEFINE g == CHOOSE h : Adds(f, S, h)
           k == CHOOSE h : Adds(e, S, h)
<1>1. Adds(f, S, g) /\ Adds(e, S, k)
  BY AddsExists
<1>2. Total(f, S) = g[S] /\ Total(e, S) = k[S]
  BY TotalIs
<1> HIDE DEF g, k
<1> QED
  BY <1>1, <1>2, AddsUnique

-----------------------------------------------------------------------------
(* Running sums and moving sums of signals: integers by the clock they     *)
(* come with, 0 up to the reset.                                           *)
Causal == {f \in [Int -> Int] : \A n \in Int : n <= 0 => f[n] = 0}
Acc(f) == [n \in Int |-> Total(f, 1 .. n)]
Diff(f) == [n \in Int |-> f[n] - f[n - R]]

(* The values of a causal signal.                                          *)
LEMMA CausalIs ==
  ASSUME NEW f \in Causal
  PROVE  /\ f \in [Int -> Int]
         /\ \A n \in Int : f[n] \in Int /\ (n <= 0 => f[n] = 0)
BY DEF Causal

(* A sum of n values, none greater than c, is at most c * n; with c = 0:   *)
(* a sum of zeros is zero.                                                 *)
LEMMA WindowBound ==
  ASSUME NEW f, NEW a \in Int, NEW c \in Nat, NEW n \in Nat,
         \A x \in a + 1 .. a + n : f[x] \in -c .. c
  PROVE  Total(f, a + 1 .. a + n) \in -(c * n) .. c * n
<1> DEFINE Bounded(m) == \A x \in a + 1 .. a + m : f[x] \in -c .. c
           T == {m \in Nat : Bounded(m) =>
                               Total(f, a + 1 .. a + m) \in -(c * m) .. c * m}
<1>1. 0 \in T
  <2>1. a + 1 .. a + 0 = {}
    OBVIOUS
  <2>2. Total(f, a + 1 .. a + 0) = 0
    BY <2>1, TotalEmpty
  <2>3. c * 0 = 0 /\ 0 \in -0 .. 0
    OBVIOUS
  <2> QED
    BY <2>2, <2>3
<1>2. ASSUME NEW m \in Nat, m \in T
      PROVE  m + 1 \in T
  <2> SUFFICES ASSUME Bounded(m + 1)
               PROVE  Total(f, a + 1 .. a + (m + 1)) \in -(c * (m + 1)) .. c * (m + 1)
    OBVIOUS
  <2> DEFINE S == a + 1 .. a + (m + 1)
             x == a + (m + 1)
  <2>1. x \in S /\ S \ {x} = a + 1 .. a + m
    OBVIOUS
  <2>2. Bounded(m)
    OBVIOUS
  <2>3. a + 1 \in Int /\ a + (m + 1) \in Int
    OBVIOUS
  <2>4. IsFiniteSet(S)
    BY <2>3, FS_Interval
  <2>5. f[x] \in -c .. c /\ \A y \in S : f[y] \in Int
    OBVIOUS
  <2> HIDE DEF S, x
  <2>6. Total(f, S) = f[x] + Total(f, a + 1 .. a + m)
    BY <2>1, <2>4, <2>5, TotalSplit
  <2>7. Total(f, a + 1 .. a + m) \in -(c * m) .. c * m
    BY <1>2, <2>2
  <2>8. c * (m + 1) = c * m + c /\ c * m \in Nat
    OBVIOUS
  <2>9. Total(f, S) \in -(c * (m + 1)) .. c * (m + 1)
    BY <2>5, <2>6, <2>7, <2>8
  <2> QED
    BY <2>9 DEF S
<1>3. Nat \subseteq T
  <2> HIDE DEF T
  <2> QED
    BY <1>1, <1>2, NatBySet
<1> QED
  BY <1>3

(* The running sum grows by the value that comes in.                       *)
LEMMA AccIs ==
  ASSUME NEW f \in Causal
  PROVE  /\ Acc(f) \in Causal
         /\ \A n \in Int : Acc(f)[n] = Acc(f)[n - 1] + f[n]
<1>1. ASSUME NEW n \in Int, n <= 0
      PROVE  Acc(f)[n] = 0
  <2>1. 1 .. n = {}
    BY <1>1
  <2> QED
    BY <2>1, TotalEmpty DEF Acc
<1>2. ASSUME NEW n \in Int
      PROVE  Acc(f)[n] \in Int
  <2>1. IsFiniteSet(1 .. n) /\ \A x \in 1 .. n : f[x] \in Int
    BY FS_Interval, CausalIs
  <2>2. Total(f, 1 .. n) \in Int
    BY <2>1, TotalSplit
  <2> QED
    BY <2>2 DEF Acc
<1>3. ASSUME NEW n \in Int
      PROVE  Acc(f)[n] = Acc(f)[n - 1] + f[n]
  <2>1. CASE n <= 0
    <3>1. n - 1 \in Int /\ n - 1 <= 0
      BY <2>1
    <3>2. Acc(f)[n] = 0 /\ Acc(f)[n - 1] = 0 /\ f[n] = 0
      BY <1>1, <2>1, <3>1, CausalIs
    <3> QED
      BY <3>2
  <2>2. CASE n > 0
    <3>1. IsFiniteSet(1 .. n) /\ \A x \in 1 .. n : f[x] \in Int
      BY FS_Interval, CausalIs
    <3>2. n \in 1 .. n /\ (1 .. n) \ {n} = 1 .. n - 1
      BY <2>2
    <3>3. Total(f, 1 .. n) = f[n] + Total(f, 1 .. n - 1)
      BY <3>1, <3>2, TotalSplit
    <3>4. Acc(f)[n] = Total(f, 1 .. n) /\ Acc(f)[n - 1] = Total(f, 1 .. n - 1)
      BY DEF Acc
    <3>5. f[n] \in Int /\ Acc(f)[n - 1] \in Int
      BY <1>2, CausalIs
    <3> QED
      BY <3>3, <3>4, <3>5
  <2> QED
    BY <2>1, <2>2
<1> QED
  BY <1>1, <1>2, <1>3 DEF Causal, Acc

(* The comb subtracts what came in R clocks ago.                           *)
LEMMA DiffIs ==
  ASSUME NEW f \in Causal
  PROVE  /\ Diff(f) \in Causal
         /\ \A n \in Int : Diff(f)[n] = f[n] - f[n - R]
<1>1. \A n \in Int : Diff(f)[n] = f[n] - f[n - R] /\ n - R \in Int
  BY RatioAssumption DEF Diff
<1>2. \A n \in Int : Diff(f)[n] \in Int
  BY <1>1, CausalIs
<1>3. ASSUME NEW n \in Int, n <= 0
      PROVE  Diff(f)[n] = 0
  <2>1. n - R \in Int /\ n - R <= 0
    BY <1>3, RatioAssumption
  <2>2. f[n] = 0 /\ f[n - R] = 0
    BY <1>3, <2>1, CausalIs
  <2> QED
    BY <1>1, <2>2
<1> QED
  BY <1>1, <1>2, <1>3 DEF Causal, Diff

(* The moving sum gains the value that comes in and loses the one that is  *)
(* R clocks old: both are the ends of the same window of R + 1 values.     *)
LEMMA MovingIs ==
  ASSUME NEW f \in Causal
  PROVE  /\ MovingSum(f) \in Causal
         /\ \A n \in Int : MovingSum(f)[n] = MovingSum(f)[n - 1] + (f[n] - f[n - R])
<1>1. \A n \in Int : MovingSum(f)[n] = Total(f, n - R + 1 .. n)
  BY DEF MovingSum, Total
<1>2. ASSUME NEW n \in Int
      PROVE  MovingSum(f)[n] \in Int
  <2> DEFINE W == n - R + 1 .. n
  <2>1. n - R + 1 \in Int /\ \A x \in W : x \in Int
    BY RatioAssumption
  <2>2. IsFiniteSet(W)
    BY <2>1, FS_Interval
  <2>3. \A x \in W : f[x] \in Int
    BY <2>1, CausalIs
  <2>4. MovingSum(f)[n] = Total(f, W)
    BY <1>1
  <2> HIDE DEF W
  <2> QED
    BY <2>2, <2>3, <2>4, TotalSplit
<1>3. ASSUME NEW n \in Int, n <= 0
      PROVE  MovingSum(f)[n] = 0
  <2> DEFINE a == n - R
  <2>1. a \in Int /\ n - R + 1 .. n = a + 1 .. a + R /\ R \in Nat /\ 0 \in Nat
    BY RatioAssumption
  <2>2. \A x \in a + 1 .. a + R : x \in Int /\ x <= 0
    BY <1>3, RatioAssumption
  <2> HIDE DEF a
  <2>3. \A x \in a + 1 .. a + R : f[x] = 0
    BY <2>2, CausalIs
  <2>4. \A x \in a + 1 .. a + R : f[x] \in -0 .. 0
    BY <2>3
  <2>5. Total(f, a + 1 .. a + R) \in -(0 * R) .. 0 * R
    BY <2>1, <2>4, WindowBound
  <2>6. 0 * R = 0
    BY RatioAssumption
  <2>7. MovingSum(f)[n] = Total(f, a + 1 .. a + R)
    BY <1>1, <2>1
  <2> QED
    BY <2>5, <2>6, <2>7
<1>4. ASSUME NEW n \in Int
      PROVE  MovingSum(f)[n] = MovingSum(f)[n - 1] + (f[n] - f[n - R])
  <2> DEFINE W == n - R .. n
  <2>0. n - R \in Int /\ \A x \in W : x \in Int
    BY RatioAssumption
  <2>1. IsFiniteSet(W) /\ \A x \in W : f[x] \in Int
    BY <2>0, FS_Interval, CausalIs
  <2>2. n \in W /\ n - R \in W
    BY RatioAssumption
  <2>3. W \ {n} = (n - 1) - R + 1 .. n - 1 /\ W \ {n - R} = n - R + 1 .. n
    BY RatioAssumption
  <2> HIDE DEF W
  <2>4. /\ Total(f, W) = f[n] + Total(f, W \ {n})
        /\ Total(f, W) = f[n - R] + Total(f, W \ {n - R})
    <3>1. \A x \in W : Total(f, W) = f[x] + Total(f, W \ {x})
      BY <2>1, TotalSplit
    <3> QED
      BY <2>2, <3>1
  <2>5. n - 1 \in Int /\ n - R \in Int
    BY RatioAssumption
  <2>6. /\ Total(f, W \ {n}) = MovingSum(f)[n - 1]
        /\ Total(f, W \ {n - R}) = MovingSum(f)[n]
    BY <1>1, <2>3, <2>5
  <2>7. /\ f[n] \in Int /\ f[n - R] \in Int
        /\ MovingSum(f)[n] \in Int /\ MovingSum(f)[n - 1] \in Int
    BY <1>2, <2>5, CausalIs
  <2> QED
    BY <2>4, <2>6, <2>7
<1> QED
  BY <1>2, <1>3, <1>4 DEF Causal, MovingSum

(* Two signals that both start at 0 and grow alike are the same.           *)
LEMMA SameIncrements ==
  ASSUME NEW f \in Causal, NEW g \in Causal, NEW d,
         \A n \in Int : f[n] = f[n - 1] + d[n] /\ g[n] = g[n - 1] + d[n]
  PROVE  f = g
<1> DEFINE T == {n \in Nat : f[n] = g[n]}
<1>1. 0 \in T
  BY CausalIs
<1>2. ASSUME NEW n \in Nat, n \in T
      PROVE  n + 1 \in T
  <2>1. n + 1 \in Int /\ (n + 1) - 1 = n
    OBVIOUS
  <2>2. f[n + 1] = f[n] + d[n + 1] /\ g[n + 1] = g[n] + d[n + 1]
    BY <2>1
  <2> QED
    BY <1>2, <2>2
<1>3. Nat \subseteq T
  <2> HIDE DEF T
  <2> QED
    BY <1>1, <1>2, NatBySet
<1>4. ASSUME NEW n \in Int
      PROVE  f[n] = g[n]
  <2>1. CASE n <= 0
    BY <2>1, CausalIs
  <2>2. CASE n > 0
    BY <1>3, <2>2
  <2> QED
    BY <2>1, <2>2
<1>5. f \in [Int -> Int] /\ g \in [Int -> Int]
  BY CausalIs
<1> HIDE DEF T
<1> QED
  BY <1>4, <1>5

(* A comb after an integrator is a moving sum, and a comb may be moved     *)
(* past an integrator: the identities behind the cascade.                  *)
LEMMA Cascade ==
  ASSUME NEW f \in Causal
  PROVE  MovingSum(f) = Diff(Acc(f)) /\ Acc(Diff(f)) = Diff(Acc(f))
<1> DEFINE g == Diff(Acc(f))
<1>1. Acc(f) \in Causal /\ Diff(f) \in Causal
  BY AccIs, DiffIs
<1>2. g \in Causal /\ Acc(Diff(f)) \in Causal /\ MovingSum(f) \in Causal
  BY <1>1, AccIs, DiffIs, MovingIs
<1>3. ASSUME NEW n \in Int
      PROVE  g[n] = g[n - 1] + (f[n] - f[n - R])
  <2>1. n - 1 \in Int /\ n - R \in Int /\ (n - 1) - R \in Int /\ (n - R) - 1 = (n - 1) - R
    BY RatioAssumption
  <2>2. /\ g[n] = Acc(f)[n] - Acc(f)[n - R]
        /\ g[n - 1] = Acc(f)[n - 1] - Acc(f)[(n - 1) - R]
    BY <1>1, <2>1, DiffIs
  <2>3. /\ Acc(f)[n] = Acc(f)[n - 1] + f[n]
        /\ Acc(f)[n - R] = Acc(f)[(n - R) - 1] + f[n - R]
    BY <2>1, AccIs
  <2>4. /\ Acc(f)[n - 1] \in Int /\ Acc(f)[(n - 1) - R] \in Int
        /\ f[n] \in Int /\ f[n - R] \in Int
    BY <1>1, <2>1, CausalIs
  <2> HIDE DEF g
  <2> QED
    BY <2>1, <2>2, <2>3, <2>4
<1> HIDE DEF g
<1>4. \A n \in Int : Diff(f)[n] = f[n] - f[n - R]
  BY DiffIs
<1>5. \A n \in Int : g[n] = g[n - 1] + Diff(f)[n]
  BY <1>3, <1>4
<1>6. \A n \in Int : Acc(Diff(f))[n] = Acc(Diff(f))[n - 1] + Diff(f)[n]
  BY <1>1, AccIs
<1>7. \A n \in Int : MovingSum(f)[n] = MovingSum(f)[n - 1] + Diff(f)[n]
  BY <1>4, MovingIs
<1>8. Acc(Diff(f)) = g
  BY <1>2, <1>5, <1>6, SameIncrements
<1>9. MovingSum(f) = g
  BY <1>2, <1>5, <1>7, SameIncrements
<1> QED
  BY <1>8, <1>9 DEF g

(* What the three integrators and the three combs make of a bitstream b.   *)
Streams == {b \in Causal : \A n \in Int : b[n] \in Sample}
A1(b) == Acc(b)
A2(b) == Acc(A1(b))
A3(b) == Acc(A2(b))
D1(b) == Diff(A3(b))
D2(b) == Diff(D1(b))
D3(b) == Diff(D2(b))

(* Each stage adds, or subtracts, what the one before it puts out.         *)
LEMMA StagesAre ==
  ASSUME NEW b \in Streams
  PROVE  /\ b \in Causal
         /\ A1(b) \in Causal /\ A2(b) \in Causal /\ A3(b) \in Causal
         /\ D1(b) \in Causal /\ D2(b) \in Causal /\ D3(b) \in Causal
         /\ \A n \in Int : /\ A1(b)[n] = A1(b)[n - 1] + b[n]
                           /\ A2(b)[n] = A2(b)[n - 1] + A1(b)[n]
                           /\ A3(b)[n] = A3(b)[n - 1] + A2(b)[n]
         /\ \A n \in Int : /\ D1(b)[n] = A3(b)[n] - A3(b)[n - R]
                           /\ D2(b)[n] = D1(b)[n] - D1(b)[n - R]
                           /\ D3(b)[n] = D2(b)[n] - D2(b)[n - R]
<1>1. b \in Causal
  BY DEF Streams
<1>2. A1(b) \in Causal /\ \A n \in Int : A1(b)[n] = A1(b)[n - 1] + b[n]
  BY <1>1, AccIs DEF A1
<1>3. A2(b) \in Causal /\ \A n \in Int : A2(b)[n] = A2(b)[n - 1] + A1(b)[n]
  BY <1>2, AccIs DEF A2
<1>4. A3(b) \in Causal /\ \A n \in Int : A3(b)[n] = A3(b)[n - 1] + A2(b)[n]
  BY <1>3, AccIs DEF A3
<1>5. D1(b) \in Causal /\ \A n \in Int : D1(b)[n] = A3(b)[n] - A3(b)[n - R]
  BY <1>4, DiffIs DEF D1
<1>6. D2(b) \in Causal /\ \A n \in Int : D2(b)[n] = D1(b)[n] - D1(b)[n - R]
  BY <1>5, DiffIs DEF D2
<1>7. D3(b) \in Causal /\ \A n \in Int : D3(b)[n] = D2(b)[n] - D2(b)[n - R]
  BY <1>6, DiffIs DEF D3
<1> QED
  BY <1>1, <1>2, <1>3, <1>4, <1>5, <1>6, <1>7

(* Three integrators and three combs are three moving sums.                *)
LEMMA StagesAreMovingSums ==
  ASSUME NEW b \in Streams
  PROVE  D3(b) = MovingSum(MovingSum(MovingSum(b)))
<1>1. /\ b \in Causal /\ A1(b) \in Causal /\ A2(b) \in Causal
      /\ Diff(A1(b)) \in Causal /\ Diff(A2(b)) \in Causal
      /\ Diff(Diff(A2(b))) \in Causal
  BY StagesAre, DiffIs
<1>2. MovingSum(b) = Diff(A1(b))
  BY <1>1, Cascade DEF A1
<1>3. MovingSum(Diff(A1(b))) = Diff(Diff(A2(b)))
  BY <1>1, Cascade DEF A2
<1>4. MovingSum(Diff(Diff(A2(b)))) = Diff(Acc(Diff(Diff(A2(b)))))
  BY <1>1, Cascade
<1>5. Acc(Diff(Diff(A2(b)))) = Diff(Acc(Diff(A2(b))))
  BY <1>1, Cascade
<1>6. Acc(Diff(A2(b))) = Diff(A3(b))
  BY <1>1, Cascade DEF A3
<1> QED
  BY <1>2, <1>3, <1>4, <1>5, <1>6 DEF D1, D2, D3

(* A moving sum is at most R times as large as what it sums.               *)
LEMMA MovingBound ==
  ASSUME NEW f, NEW c \in Nat, \A n \in Int : f[n] \in -c .. c
  PROVE  \A n \in Int : MovingSum(f)[n] \in -(c * R) .. c * R
<1> TAKE n \in Int
<1> DEFINE a == n - R
<1>1. a \in Int /\ n - R + 1 .. n = a + 1 .. a + R /\ R \in Nat
  BY RatioAssumption
<1>2. \A x \in a + 1 .. a + R : x \in Int
  BY RatioAssumption
<1>3. MovingSum(f)[n] = Total(f, n - R + 1 .. n)
  BY DEF MovingSum, Total
<1> HIDE DEF a
<1>4. Total(f, a + 1 .. a + R) \in -(c * R) .. c * R
  BY <1>1, <1>2, WindowBound
<1> QED
  BY <1>1, <1>3, <1>4

(* The gain of the filter is R^3, which a register holds.                  *)
LEMMA StagesFit ==
  ASSUME NEW b \in Streams, NEW n \in Int
  PROVE  D3(b)[n] \in Word
<1>1. /\ 1 * R \in Nat /\ 1 * R = R /\ R * R \in Nat /\ R * R * R \in Nat
      /\ (1 * R) * R = R * R
  BY RatioAssumption
<1>2. \A m \in Int : b[m] \in -1 .. 1
  BY DEF Streams, Sample
<1>3. \A m \in Int : MovingSum(b)[m] \in -R .. R
  BY <1>1, <1>2, MovingBound
<1>4. \A m \in Int : MovingSum(MovingSum(b))[m] \in -(R * R) .. R * R
  BY <1>1, <1>3, MovingBound, RatioAssumption
<1>5. MovingSum(MovingSum(MovingSum(b)))[n] \in -(R * R * R) .. R * R * R
  BY <1>1, <1>4, MovingBound
<1> QED
  BY <1>1, <1>5, StagesAreMovingSums, GainAssumption, WidthAssumption DEF Word

-----------------------------------------------------------------------------
(* The clocks at which an output is decided, and the last of them.         *)
Strobe(n) == n >= 1 /\ (n - 1) % R = 0
LastAt(n) == 2 + R * ((n - 2) \div R)

(* The quotient of a number given by its quotient and rest.                *)
LEMMA QuotientIs ==
  ASSUME NEW q \in Int, NEW r \in 0 .. R - 1
  PROVE  (R * q + r) \div R = q
BY RatioAssumption

(* A strobe at clock n decides the output of clock n + 1, and the one      *)
(* before it came R clocks earlier.                                        *)
LEMMA LastAtStrobe ==
  ASSUME NEW n \in Nat, Strobe(n)
  PROVE  LastAt(n + 1) = n + 1 /\ LastAt(n) = n + 1 - R
<1> DEFINE q == (n - 1) \div R
<1>1. q \in Int /\ n - 1 = R * q + 0
  BY Division, RatioAssumption DEF Strobe
<1> HIDE DEF q
<1>2. /\ (n + 1) - 2 = R * q + 0 /\ n - 2 = R * (q - 1) + (R - 1)
      /\ 0 \in 0 .. R - 1 /\ R - 1 \in 0 .. R - 1 /\ q - 1 \in Int
  BY <1>1, RatioAssumption
<1>3. ((n + 1) - 2) \div R = q /\ (n - 2) \div R = q - 1
  BY <1>1, <1>2, QuotientIs
<1>4. R * (q - 1) = R * q - R
  BY <1>1, RatioAssumption
<1> QED
  BY <1>1, <1>3, <1>4, RatioAssumption DEF LastAt

(* Without a strobe the last output stays the last.                        *)
LEMMA LastAtOther ==
  ASSUME NEW n \in Nat, ~Strobe(n)
  PROVE  LastAt(n + 1) = LastAt(n)
<1> DEFINE q == (n - 1) \div R
           r == (n - 1) % R
<1>1. q \in Int /\ r \in 0 .. R - 1 /\ n - 1 = R * q + r
  BY Division, RatioAssumption
<1>2. r # 0
  <2>1. CASE n = 0
    <3>1. n - 1 = R * (-1) + (R - 1) /\ R - 1 \in 0 .. R - 1 /\ -1 \in Int
      BY <2>1, RatioAssumption
    <3>2. (R * (-1) + (R - 1)) % R = R - 1
      BY <3>1, RestIs, RatioAssumption
    <3> QED
      BY <3>1, <3>2, RatioAssumption
  <2>2. CASE n # 0
    BY <2>2 DEF Strobe
  <2> QED
    BY <2>1, <2>2
<1> HIDE DEF q, r
<1>3. /\ (n + 1) - 2 = R * q + r /\ n - 2 = R * q + (r - 1)
      /\ r - 1 \in 0 .. R - 1
  BY <1>1, <1>2, RatioAssumption
<1>4. ((n + 1) - 2) \div R = q /\ (n - 2) \div R = q
  BY <1>1, <1>3, QuotientIs
<1> QED
  BY <1>4 DEF LastAt

LEMMA LastAtStart == LastAt(0) = 2 - R
<1>1. 0 - 2 = R * (-1) + (R - 2) /\ R - 2 \in 0 .. R - 1 /\ -1 \in Int
  BY RatioAssumption
<1>2. (0 - 2) \div R = -1
  BY <1>1, QuotientIs
<1> QED
  BY <1>2, RatioAssumption DEF LastAt

LEMMA LastAtInt == ASSUME NEW n \in Nat PROVE LastAt(n) \in Int
<1>1. n - 2 \in Int
  OBVIOUS
<1>2. (n - 2) \div R \in Int
  BY <1>1, Division, RatioAssumption
<1> QED
  BY <1>2, RatioAssumption DEF LastAt

(* Output k comes with a strobe: between strobes no further one is due.    *)
LEMMA DueAtStrobe ==
  ASSUME NEW n \in Nat, ~Strobe(n), NEW k \in Nat, n + 1 >= 2 + k * R
  PROVE  n >= 2 + k * R
<1>1. k * R \in Nat
  BY RatioAssumption
<1>2. SUFFICES ASSUME n + 1 = 2 + k * R PROVE FALSE
  BY <1>1
<1>3. n - 1 = k * R /\ n >= 1
  BY <1>1, <1>2
<1>4. (k * R) % R = 0
  BY MultipleHasNoRest, RatioAssumption
<1> QED
  BY <1>3, <1>4 DEF Strobe

(* What the ideal registers ii (integrators), ic (combs), id (delays) and  *)
(* the output hold n clocks after a reset: the integrators trail the       *)
(* running sums by 0, 1 and 2 clocks, each comb the one before it by one   *)
(* output.  The combs are not cleared by the reset, so each of them holds  *)
(* its value only once the ones before it have been replaced.              *)
Integrated(b, n, ii) ==
  ii[1] = A1(b)[n] /\ ii[2] = A2(b)[n - 1] /\ ii[3] = A3(b)[n - 2]

Combed(b, n, e, ic, id, out) ==
  /\ id[1] = A3(b)[e]
  /\ n >= 2         => ic[1] = D1(b)[e]
  /\ n >= 2 + 1 * R => id[2] = D1(b)[e - R]
  /\ n >= 2 + 2 * R => ic[2] = D2(b)[e - R]
  /\ n >= 2 + 3 * R => id[3] = D2(b)[e - 2 * R]
  /\ n >= 2 + 4 * R => ic[3] = D3(b)[e - 2 * R]
  /\ n >= 2 + 5 * R => out = D3(b)[e - 3 * R] \div Dropped

(* A clock of the integrators takes in one more value of the stream.       *)
LEMMA IntegratorsFollow ==
  ASSUME NEW b \in Streams, NEW n \in Nat, NEW ii, NEW jj, NEW x,
         Integrated(b, n, ii), x = b[n + 1],
         jj[1] = ii[1] + x, jj[2] = ii[2] + ii[1], jj[3] = ii[3] + ii[2]
  PROVE  Integrated(b, n + 1, jj)
<1>1. /\ n + 1 \in Int /\ n \in Int /\ n - 1 \in Int
      /\ (n + 1) - 1 = n /\ (n + 1) - 2 = n - 1 /\ (n - 1) - 1 = n - 2
  OBVIOUS
<1>2. /\ A1(b)[n + 1] = A1(b)[n] + b[n + 1]
      /\ A2(b)[n] = A2(b)[n - 1] + A1(b)[n]
      /\ A3(b)[n - 1] = A3(b)[n - 2] + A2(b)[n - 1]
  BY <1>1, StagesAre
<1> QED
  BY <1>1, <1>2 DEF Integrated

(* A strobe moves every comb on by one output.  What a comb takes in is    *)
(* due by then, as R is at least 2.                                        *)
LEMMA CombsFollow ==
  ASSUME NEW b \in Streams, NEW n \in Nat, Strobe(n), NEW ii,
         Integrated(b, n, ii),
         NEW ic, NEW id, NEW out, Combed(b, n, LastAt(n) - 3, ic, id, out),
         NEW jc, NEW jd, NEW new,
         jc[1] = ii[3] - id[1], jc[2] = ic[1] - id[2], jc[3] = ic[2] - id[3],
         jd[1] = ii[3], jd[2] = ic[1], jd[3] = ic[2],
         n >= 2 + 4 * R => new = ic[3] \div Dropped
  PROVE  Combed(b, n + 1, LastAt(n + 1) - 3, jc, jd, new)
<1> DEFINE d == LastAt(n) - 3
           e == LastAt(n + 1) - 3
<1>1. /\ e = n - 2 /\ d = e - R
      /\ d - R = e - 2 * R /\ d - 2 * R = e - 3 * R
      /\ e \in Int /\ e - R \in Int /\ e - 2 * R \in Int
      /\ (e - R) - R = e - 2 * R /\ (e - 2 * R) - R = e - 3 * R
  BY LastAtStrobe, LastAtInt, RatioAssumption
<1>2. /\ n + 1 >= 2 + 1 * R => n >= 2
      /\ n + 1 >= 2 + 2 * R => n >= 2 /\ n >= 2 + 1 * R
      /\ n + 1 >= 2 + 3 * R => n >= 2 + 2 * R
      /\ n + 1 >= 2 + 4 * R => n >= 2 + 2 * R /\ n >= 2 + 3 * R
      /\ n + 1 >= 2 + 5 * R => n >= 2 + 4 * R
  BY RatioAssumption
<1>3. Combed(b, n, d, ic, id, out)
  OBVIOUS
<1> HIDE DEF d, e
<1>4. /\ D1(b)[e] = A3(b)[e] - A3(b)[d]
      /\ D2(b)[e - R] = D1(b)[e - R] - D1(b)[d - R]
      /\ D3(b)[e - 2 * R] = D2(b)[e - 2 * R] - D2(b)[d - 2 * R]
  BY <1>1, StagesAre
<1>5. ii[3] = A3(b)[e]
  BY <1>1 DEF Integrated
<1>6. jd[1] = A3(b)[e] /\ jc[1] = D1(b)[e]
  BY <1>3, <1>4, <1>5 DEF Combed
<1>7. n + 1 >= 2 + 1 * R => jd[2] = D1(b)[e - R]
  BY <1>1, <1>2, <1>3 DEF Combed
<1>8. n + 1 >= 2 + 2 * R => jc[2] = D2(b)[e - R]
  BY <1>1, <1>2, <1>3, <1>4 DEF Combed
<1>9. n + 1 >= 2 + 3 * R => jd[3] = D2(b)[e - 2 * R]
  BY <1>1, <1>2, <1>3 DEF Combed
<1>10. n + 1 >= 2 + 4 * R => jc[3] = D3(b)[e - 2 * R]
  BY <1>1, <1>2, <1>3, <1>4 DEF Combed
<1>11. n + 1 >= 2 + 5 * R => new = D3(b)[e - 3 * R] \div Dropped
  BY <1>1, <1>2, <1>3 DEF Combed
<1>12. Combed(b, n + 1, e, jc, jd, new)
  BY <1>6, <1>7, <1>8, <1>9, <1>10, <1>11 DEF Combed
<1> QED
  BY <1>12 DEF e

(* Without a strobe the combs hold what they hold, and nothing is due.     *)
LEMMA CombsRest ==
  ASSUME NEW b \in Streams, NEW n \in Nat, ~Strobe(n),
         NEW ic, NEW id, NEW out, Combed(b, n, LastAt(n) - 3, ic, id, out)
  PROVE  Combed(b, n + 1, LastAt(n + 1) - 3, ic, id, out)
<1>1. LastAt(n + 1) = LastAt(n)
  BY LastAtOther
<1>2. n + 1 >= 2 => n >= 2
  <2>1. n + 1 >= 2 + 0 * R => n >= 2 + 0 * R
    BY DueAtStrobe
  <2>2. 0 * R = 0
    BY RatioAssumption
  <2> QED
    BY <2>1, <2>2
<1>3. /\ n + 1 >= 2 + 1 * R => n >= 2 + 1 * R
      /\ n + 1 >= 2 + 2 * R => n >= 2 + 2 * R
      /\ n + 1 >= 2 + 3 * R => n >= 2 + 3 * R
      /\ n + 1 >= 2 + 4 * R => n >= 2 + 4 * R
      /\ n + 1 >= 2 + 5 * R => n >= 2 + 5 * R
  BY DueAtStrobe
<1> QED
  BY <1>1, <1>2, <1>3 DEF Combed

(* After a reset the sums are still zero, and no comb is due.              *)
LEMMA Cleared ==
  ASSUME NEW b \in Streams, NEW ii, NEW ic, NEW id, NEW out,
         ii[1] = 0, ii[2] = 0, ii[3] = 0, id[1] = 0
  PROVE  Integrated(b, 0, ii) /\ Combed(b, 0, LastAt(0) - 3, ic, id, out)
<1>1. /\ 0 \in Int /\ 0 - 1 \in Int /\ 0 - 2 \in Int /\ LastAt(0) - 3 \in Int
      /\ 0 <= 0 /\ 0 - 1 <= 0 /\ 0 - 2 <= 0 /\ LastAt(0) - 3 <= 0
  BY LastAtStart, RatioAssumption
<1>2. A1(b) \in Causal /\ A2(b) \in Causal /\ A3(b) \in Causal
  BY StagesAre
<1>3. /\ A1(b)[0] = 0 /\ A2(b)[0 - 1] = 0 /\ A3(b)[0 - 2] = 0
      /\ A3(b)[LastAt(0) - 3] = 0
  BY <1>1, <1>2, CausalIs
<1>4. /\ ~(0 >= 2) /\ ~(0 >= 2 + 1 * R) /\ ~(0 >= 2 + 2 * R)
      /\ ~(0 >= 2 + 3 * R) /\ ~(0 >= 2 + 4 * R) /\ ~(0 >= 2 + 5 * R)
  BY RatioAssumption
<1>5. Integrated(b, 0, ii)
  BY <1>3 DEF Integrated
<1>6. Combed(b, 0, LastAt(0) - 3, ic, id, out)
  BY <1>3, <1>4 DEF Combed
<1> QED
  BY <1>5, <1>6

-----------------------------------------------------------------------------
(* The inductive invariant: for every stream that begins with the bits     *)
(* since the reset, the ideal registers hold what the stages make of it.   *)
(* The exact output follows from CicInv, the strobe from CountInv.         *)
Begins(b) == \A i \in 1 .. Len(hist) : b[i] = hist[i]
SumInv == \A b \in Streams : Begins(b) =>
            /\ Integrated(b, Len(hist), iint)
            /\ Combed(b, Len(hist), LastOutput - 3, icomb, icomb_d, data_out)
FilterInv == CicInv /\ CountInv /\ SumInv

(* The registers start as a reset leaves them.                             *)
LEMMA SumInit == FilterInit => SumInv
<1> SUFFICES ASSUME FilterInit, NEW b \in Streams
             PROVE  /\ Integrated(b, Len(hist), iint)
                    /\ Combed(b, Len(hist), LastOutput - 3, icomb, icomb_d, data_out)
  BY DEF SumInv
<1>1. /\ iint[1] = 0 /\ iint[2] = 0 /\ iint[3] = 0 /\ icomb_d[1] = 0
      /\ Len(hist) = 0
  BY DEF FilterInit, InitWithIdeal, Init, PowerUp, IdealInit, Stage
<1>2. LastOutput = LastAt(0)
  BY <1>1 DEF LastOutput, LastAt
<1> QED
  BY <1>1, <1>2, Cleared

(* Once the ideal third comb holds a moving sum, which fits the register,  *)
(* the register holds the same.                                            *)
LEMMA ThirdCombIsExact ==
  ASSUME CicInv, NEW b \in Streams, NEW e \in Int, icomb[3] = D3(b)[e]
  PROVE  comb[3] = icomb[3]
<1>1. icomb[3] \in Word
  BY StagesFit
<1>2. comb[3] \in Word /\ Congruent(comb[3], icomb[3])
  BY DEF CicInv, IdealTypeOK, RegistersCongruent, Stage
<1> QED
  BY <1>1, <1>2, CongruentWordsAreEqual

(* Every clock keeps the invariant, whether it resets, strobes or does     *)
(* neither.                                                                *)
LEMMA SumStep == FilterInv /\ [Sampled]_mcVars => SumInv'
<1> SUFFICES ASSUME FilterInv, [Sampled]_mcVars PROVE SumInv'
  OBVIOUS
<1>1. CASE UNCHANGED mcVars
  BY <1>1 DEF FilterInv, SumInv, Begins, LastOutput, mcVars, allVars, vars, ports,
              regs, ideal
<1>2. CASE Sampled
  <2> SUFFICES ASSUME NEW b \in Streams, Begins(b)'
               PROVE  /\ Integrated(b, Len(hist'), iint')
                      /\ Combed(b, Len(hist'), LastAt(Len(hist')) - 3,
                                icomb', icomb_d', data_out')
    BY DEF SumInv, LastOutput, LastAt
  <2> DEFINE n == Len(hist)
  <2>0. n \in Nat /\ hist \in Seq(Sample) /\ (ce_dec <=> Strobe(n))
    BY DEF FilterInv, CountInv, Strobe
  <2>1. /\ Integrate /\ Decimate /\ Comb /\ IdealClock
        /\ hist' = IF InReset THEN <<>> ELSE Append(hist, data_in)
    BY <1>2 DEF Sampled, NextWithIdeal, Next, Clock
  <2>2. CASE InReset
    <3>1. Len(hist') = 0
      BY <2>1, <2>2
    <3>2. iint'[1] = 0 /\ iint'[2] = 0 /\ iint'[3] = 0 /\ icomb_d'[1] = 0
      BY <2>1, <2>2 DEF IdealClock, Stage
    <3> QED
      BY <3>1, <3>2, Cleared
  <2>3. CASE ~InReset
    <3>1. /\ Len(hist') = n + 1 /\ hist'[n + 1] = data_in
          /\ \A i \in 1 .. n : i \in 1 .. n + 1 /\ hist'[i] = hist[i]
      <4>1. hist' = Append(hist, data_in) /\ data_in \in Sample
        BY <2>1, <2>3 DEF FilterInv, CountInv
      <4> QED
        BY <2>0, <4>1
    <3>2. Begins(b) /\ data_in = b[n + 1]
      <4>1. \A i \in 1 .. n + 1 : b[i] = hist'[i]
        BY <3>1 DEF Begins
      <4>2. n + 1 \in 1 .. n + 1
        BY <2>0
      <4> QED
        BY <3>1, <4>1, <4>2 DEF Begins
    <3>3. /\ Integrated(b, n, iint)
          /\ Combed(b, n, LastAt(n) - 3, icomb, icomb_d, data_out)
      BY <3>2 DEF FilterInv, SumInv, LastOutput, LastAt
    <3>4. Integrated(b, n + 1, iint')
      <4>1. /\ iint'[1] = iint[1] + data_in
            /\ iint'[2] = iint[2] + iint[1] /\ iint'[3] = iint[3] + iint[2]
        BY <2>1, <2>3 DEF IdealClock, IdealIn, Stage
      <4> HIDE DEF n
      <4> QED
        BY <2>0, <3>2, <3>3, <4>1, IntegratorsFollow
    <3>5. CASE ce_dec
      <4>1. /\ icomb'[1] = iint[3] - icomb_d[1] /\ icomb'[2] = icomb[1] - icomb_d[2]
            /\ icomb'[3] = icomb[2] - icomb_d[3]
            /\ icomb_d'[1] = iint[3] /\ icomb_d'[2] = icomb[1]
            /\ icomb_d'[3] = icomb[2]
        BY <2>1, <2>3, <3>5 DEF IdealClock, IdealCombIn, Stage
      <4>2. n >= 2 + 4 * R => data_out' = icomb[3] \div Dropped
        <5>1. data_out' = comb[3] \div Dropped
          BY <2>1, <2>3, <3>5 DEF Comb
        <5>2. LastAt(n) - 3 - 2 * R \in Int
          BY <2>0, LastAtInt, RatioAssumption
        <5>3. n >= 2 + 4 * R => icomb[3] = D3(b)[LastAt(n) - 3 - 2 * R]
          BY <3>3 DEF Combed
        <5>4. n >= 2 + 4 * R => comb[3] = icomb[3]
          BY <5>2, <5>3, ThirdCombIsExact DEF FilterInv
        <5> QED
          BY <5>1, <5>4
      <4> HIDE DEF n
      <4>3. Combed(b, n + 1, LastAt(n + 1) - 3, icomb', icomb_d', data_out')
        BY <2>0, <3>3, <3>5, <4>1, <4>2, CombsFollow
      <4> QED
        BY <3>1, <3>4, <4>3
    <3>6. CASE ~ce_dec
      <4>1. icomb' = icomb /\ data_out' = data_out
        BY <2>1, <2>3, <3>6 DEF IdealClock, Comb
      <4>2. icomb_d' = icomb_d
        BY <2>1, <2>3, <3>6 DEF IdealClock, FilterInv, CicInv, IdealTypeOK
      <4> HIDE DEF n
      <4>3. Combed(b, n + 1, LastAt(n + 1) - 3, icomb, icomb_d, data_out)
        BY <2>0, <3>3, <3>6, CombsRest
      <4> QED
        BY <3>1, <3>4, <4>1, <4>2, <4>3
    <3> QED
      BY <3>5, <3>6
  <2> QED
    BY <2>2, <2>3
<1> QED
  BY <1>1, <1>2

(* The three parts together are inductive.                                 *)
LEMMA FilterInvariant == FilterSpec => []FilterInv
<1>1. FilterInit => FilterInv
  BY CicInit, CountInit, SumInit DEF FilterInit, FilterInv
<1>2. FilterInv /\ [Sampled]_mcVars => FilterInv'
  <2>1. [Sampled]_mcVars => [NextWithIdeal]_allVars
    BY DEF Sampled, mcVars
  <2> QED
    BY <2>1, CicStep, CountStep, SumStep DEF FilterInv
<1> QED
  BY <1>1, <1>2, PTL DEF FilterSpec

(* The bits since the reset are such a stream.                             *)
LEMMA BitsAre ==
  ASSUME hist \in Seq(Sample)
  PROVE  Bits \in Streams /\ Begins(Bits)
<1>1. DOMAIN hist = 1 .. Len(hist) /\ Len(hist) \in Nat /\ 0 \in Sample
  BY DEF Sample
<1>2. \A n \in DOMAIN hist : hist[n] \in Sample
  BY <1>1
<1>3. \A n \in Int : Bits[n] = IF n \in DOMAIN hist THEN hist[n] ELSE 0
  BY DEF Bits
<1>4. \A n \in Int : Bits[n] \in Sample /\ (n <= 0 => Bits[n] = 0)
  BY <1>1, <1>2, <1>3
<1>5. Bits \in Streams
  BY <1>4, WordFacts DEF Streams, Causal, Bits
<1>6. Begins(Bits)
  BY <1>1, <1>3 DEF Begins
<1> QED
  BY <1>5, <1>6

(* Instantiated with the bits since the reset it is the property.          *)
LEMMA InvariantGivesOutput == FilterInv => OutputIsMovingSum
<1> SUFFICES ASSUME FilterInv, Len(hist) >= 2 + 5 * R
             PROVE  data_out = Filtered[LastOutput - 3 - 3 * R] \div Dropped
  BY DEF OutputIsMovingSum
<1>1. Bits \in Streams /\ Begins(Bits)
  BY BitsAre DEF FilterInv, CountInv
<1>2. Combed(Bits, Len(hist), LastOutput - 3, icomb, icomb_d, data_out)
  BY <1>1 DEF FilterInv, SumInv
<1>3. D3(Bits) = Filtered
  BY <1>1, StagesAreMovingSums DEF Filtered
<1> QED
  BY <1>2, <1>3 DEF Combed

(* The decimator is a filter: on every bitstream, for every ratio, width   *)
(* and reset, each word of cic_decimator.v from the sixth after a reset on *)
(* is the top of the triple moving sum of the bits, whatever the           *)
(* integrators overflowed and whatever the combs held at power-up.         *)
THEOREM FilterIsMovingSum == FilterSpec => []OutputIsMovingSum
BY FilterInvariant, InvariantGivesOutput, PTL

(* The same of the bitstreams of the run, which are bounded in length.     *)
THEOREM OutputIsTripleMovingSum == MCSpec => []OutputIsMovingSum
<1>1. MCSpec => FilterSpec
  BY BoundedIsSampled, PTL DEF MCSpec, FilterSpec
<1> QED
  BY <1>1, FilterIsMovingSum, PTL
=============================================================================
