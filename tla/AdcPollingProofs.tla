-------------------------- MODULE AdcPollingProofs --------------------------
(***************************************************************************)
(* Proofs about AdcPolling: what the ready flag means, for every timing    *)
(* and every program, and how long an announcement lasts when the loop of  *)
(* tb_wb.v reads the samples.                                              *)
(***************************************************************************)
EXTENDS AdcPolling, TLAPS

(* Clocks of an access.                                                    *)
Length == IF strobeClocks = 1 THEN 2 ELSE strobeClocks

Types == /\ program \in Programs
         /\ access \in {None, 0, 1, 2}
         /\ program = "tb_wb" => access \in {None, 2}
         /\ program = "tb_sigma_delta" => access \in {None, 0, 1}
         /\ clock \in Nat
         /\ access = None => clock <= MaxPause
         /\ access # None => clock <= Length - 1

(* The first clock of a DATA access takes the flag, and so do the others.  *)
TakenByRead == access = 2 /\ clock >= 1 => ~data_ready

Inv == Types /\ TakenByRead /\ ReadyMeansNew /\ LostOnlyInReadStrobe

LEMMA Numbers == None = 99 /\ Adc!STATUS = 1 /\ Adc!DATA = 2
BY DEF None, Adc!STATUS, Adc!DATA

LEMMA Lengths ==
  ASSUME Types
  PROVE  strobeClocks \in 1 .. 3 /\ Length \in 2 .. 3
BY DEF Types, Programs, strobeClocks, Length

LEMMA StrobedIs ==
  ASSUME Types
  PROVE  ReadsData <=> access = 2 /\ clock < strobeClocks
BY Numbers DEF ReadsData, Adc!Reads, Adc!wb_xfer, Strobe, Types

LEMMA FlagStep ==
  ASSUME Next
  PROVE  data_ready' <=> ~ReadsData /\ (adc_valid \/ data_ready)
BY DEF Next, Adc!Clock, Adc!Latch, ReadsData

(* A step of the program, without the names of the code.                   *)
LEMMA ProgramStep ==
  ASSUME Types, Next
  PROVE  \/ /\ access = None /\ clock < MaxPause /\ access' = None
            /\ clock' = clock + 1
         \/ /\ access = None /\ access' \in {0, 1, 2} /\ clock' = 0
            /\ program = "tb_wb" => access' = 2
            /\ program = "tb_sigma_delta" => access' \in {0, 1}
         \/ access # None /\ clock = Length - 1 /\ access' = None /\ clock' = 0
         \/ access # None /\ clock < Length - 1 /\ access' = access /\ clock' = clock + 1
<1>1. CASE Pause
  BY <1>1 DEF Pause
<1>2. CASE Ask
  BY <1>2 DEF Ask, FakeCpu, ReadLoop, Software
<1>3. CASE Wait
  <2>1. strobeClocks \in 1 .. 3 /\ clock \in Nat
    BY Lengths DEF Types
  <2>2. CASE clock >= 1 /\ clock + 1 >= strobeClocks
    <3>1. access' = None /\ clock' = 0 /\ access # None
      BY <1>3, <2>2 DEF Wait
    <3>2. clock = Length - 1
      BY <2>1, <2>2, <3>1 DEF Types, Length
    <3> QED
      BY <3>1, <3>2
  <2>3. CASE ~(clock >= 1 /\ clock + 1 >= strobeClocks)
    <3>1. access' = access /\ clock' = clock + 1 /\ access # None
      BY <1>3, <2>3 DEF Wait
    <3>2. clock < Length - 1
      BY <2>1, <2>3, <3>1 DEF Types, Length
    <3> QED
      BY <3>1, <3>2
  <2> QED
    BY <2>2, <2>3
<1> QED
  BY <1>1, <1>2, <1>3 DEF Next

LEMMA TypesStep ==
  ASSUME Types, Next
  PROVE  Types' /\ program' = program /\ Length' = Length
<1>1. program' = program /\ Length' = Length
  BY DEF Next, Length, strobeClocks
<1>2. Length \in 2 .. 3
  BY Lengths
<1>3. /\ access' \in {None, 0, 1, 2} /\ clock' \in Nat
      /\ program = "tb_wb" => access' \in {None, 2}
      /\ program = "tb_sigma_delta" => access' \in {None, 0, 1}
      /\ access' = None => clock' <= MaxPause
      /\ access' # None => clock' <= Length - 1
  BY <1>2, ProgramStep, PollingAssumption, Numbers DEF Types
<1> QED
  BY <1>1, <1>3 DEF Types

LEMMA TakenStep ==
  ASSUME Inv, Next
  PROVE  TakenByRead'
<1>1. SUFFICES ASSUME access' = 2, clock' >= 1 PROVE ~data_ready'
  BY DEF TakenByRead
<1>2. access = 2 /\ clock < Length - 1
  BY <1>1, ProgramStep, Numbers DEF Inv
<1>3. clock < strobeClocks
  BY <1>2, Lengths DEF Inv, Types, Length
<1> QED
  BY <1>2, <1>3, FlagStep, StrobedIs DEF Inv

LEMMA MeaningStep ==
  ASSUME Inv, Next
  PROVE  ReadyMeansNew' /\ LostOnlyInReadStrobe'
<1>1. /\ unread' <=> adc_valid \/ (unread /\ ~(ReadsData /\ clock = 0))
      /\ collided' <=> IF adc_valid THEN ReadsData ELSE collided
  BY DEF Next, Record
<1>2. data_ready' <=> ~ReadsData /\ (adc_valid \/ data_ready)
  BY FlagStep
<1>3. ReadyMeansNew'
  BY <1>1, <1>2 DEF Inv, ReadyMeansNew
<1>4. LostOnlyInReadStrobe'
  <2>1. ReadsData /\ clock # 0 => ~data_ready
    BY StrobedIs DEF Inv, Types, TakenByRead
  <2> QED
    BY <1>1, <1>2, <2>1 DEF Inv, LostOnlyInReadStrobe
<1> QED
  BY <1>3, <1>4

LEMMA Initially == Init => Inv
<1> SUFFICES ASSUME Init PROVE Inv
  OBVIOUS
<1>1. Types
  BY PollingAssumption, Numbers DEF Init, Types
<1>2. ~data_ready /\ ~unread
  BY DEF Init, Adc!PowerUp
<1> QED
  BY <1>1, <1>2 DEF Inv, TakenByRead, ReadyMeansNew, LostOnlyInReadStrobe

LEMMA Invariance == Spec => []Inv
<1>1. Inv /\ [Next]_vars => Inv'
  <2>1. SUFFICES ASSUME Inv, [Next]_vars PROVE Inv'
    OBVIOUS
  <2>2. CASE Next
    BY <2>1, <2>2, TypesStep, TakenStep, MeaningStep DEF Inv
  <2>3. CASE UNCHANGED vars
    BY <2>1, <2>3
       DEF vars, Inv, Types, Length, strobeClocks, TakenByRead, ReadyMeansNew,
           LostOnlyInReadStrobe
  <2> QED
    BY <2>1, <2>2, <2>3
<1> QED
  BY Initially, <1>1, PTL DEF Spec

-----------------------------------------------------------------------------
(* No program takes a sample for a new one that it has already got.        *)
THEOREM AnnouncedIsNew == Spec => []ReadyMeansNew
<1>1. Inv => ReadyMeansNew
  BY DEF Inv
<1> QED
  BY Invariance, <1>1, PTL

(* A sample is not announced only if it came in the clock of a read.       *)
THEOREM LostInReadStrobe == Spec => []LostOnlyInReadStrobe
<1>1. Inv => LostOnlyInReadStrobe
  BY DEF Inv
<1> QED
  BY Invariance, <1>1, PTL

(* The Fake CPU never takes an announcement back: DATA is not the address  *)
(* that it reads.                                                          *)
THEOREM NothingTaken == Spec => FakeCpuTakesNothing
<1>1. Inv /\ [Next]_vars
        => [program = "tb_sigma_delta" /\ data_ready => data_ready']_vars
  <2>1. SUFFICES ASSUME Inv, Next, program = "tb_sigma_delta", data_ready
                 PROVE  data_ready'
    OBVIOUS
  <2>2. ~ReadsData
    BY <2>1, StrobedIs, Numbers DEF Inv, Types
  <2> QED
    BY <2>1, <2>2, FlagStep
<1> QED
  BY Invariance, <1>1, PTL DEF Spec, FakeCpuTakesNothing

(* Clocks until the loop of tb_wb.v strobes DATA, at most, when a sample   *)
(* is announced: an access that is under way cannot have passed its first  *)
(* strobe, which would have taken the flag.                                *)
ToRead == IF access = None THEN MaxPause + 1 - clock ELSE 0

(* How long a sample waits for that loop: while it is announced the read   *)
(* comes nearer with every clock.  It is the bound of ReadyIsRead, and all *)
(* of it but that the clock ticks.                                         *)
ReadIsNear == program = "tb_wb" /\ data_ready => ToRead \in 0 .. MaxPause + 1
ReadComesNearer ==
  [][program = "tb_wb" /\ data_ready /\ data_ready' => ToRead' < ToRead]_vars

(* With tb_wb.v no announcement lasts longer than MaxPause + 2 clocks.     *)
THEOREM AnnouncementIsShort == Spec => []ReadIsNear /\ ReadComesNearer
<1>1. Inv => ReadIsNear
  BY PollingAssumption DEF ReadIsNear, Inv, Types, ToRead
<1>2. Inv /\ [Next]_vars
        => [program = "tb_wb" /\ data_ready /\ data_ready' => ToRead' < ToRead]_vars
  <2>1. SUFFICES ASSUME Inv, Next, program = "tb_wb", data_ready, data_ready'
                 PROVE  ToRead' < ToRead
    OBVIOUS
  <2>2. access # 2
    BY <2>1, FlagStep, StrobedIs, Lengths DEF Inv, Types, TakenByRead
  <2>3. access = None /\ clock \in 0 .. MaxPause
    BY <2>1, <2>2, PollingAssumption DEF Inv, Types
  <2>4. \/ clock < MaxPause /\ access' = None /\ clock' = clock + 1
        \/ access' = 2
    BY <2>1, <2>3, ProgramStep DEF Inv
  <2>5. ToRead = MaxPause + 1 - clock
    BY <2>3 DEF ToRead
  <2>6. ToRead' = IF access' = None THEN MaxPause + 1 - clock' ELSE 0
    BY DEF ToRead
  <2> QED
    BY <2>3, <2>4, <2>5, <2>6, Numbers, PollingAssumption
<1> QED
  BY Invariance, <1>1, <1>2, PTL DEF Spec, ReadComesNearer
=============================================================================
