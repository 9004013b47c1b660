---------------------------- MODULE SdAdcProofs ----------------------------
(***************************************************************************)
(* Proofs about SdAdcTop: a sample never meets a read of the single-ported *)
(* FIFO memory, although nothing in the circuit arbitrates between the     *)
(* two.  They stay apart because the decimator and the transmitter leave   *)
(* reset together: the enable from which the transmitter counts its bits   *)
(* comes at most Div - 1 clocks after the release, which is one clock too  *)
(* early for a read to be under way when the sample is there.              *)
(***************************************************************************)
EXTENDS SdAdcTop, SequenceTheorems, TLAPS

Bit == 2 * Div       \* clocks of a bit

(* Counting modulo b, without the remainder.                               *)
Next1(x, b) == IF x = b - 1 THEN 0 ELSE x + 1

(* Clocks since the last enable.                                           *)
Age == IF c = 0 THEN Div - 1 ELSE c - 1

(* Clocks since the enable at which sclk rose: 0 before that edge, Div     *)
(* before the one at which it falls.                                       *)
Phase == IF (Age = 0) <=> sclk THEN Age + Div ELSE Age

(* Clocks since the decimator counted a multiple of a bit.                 *)
Time == cnt % Bit

(* The decimator is ahead of the transmitter by the clocks that passed     *)
(* from the release of the reset to the first enable.                      *)
Ahead == \E d \in 0 .. Div - 1 : Time = Phase + d \/ Time + Bit = Phase + d

LEMMA Division ==
  ASSUME NEW a \in Int, NEW b \in Int, b > 0
  PROVE  /\ a \div b \in Int /\ a % b \in 0 .. b - 1
         /\ a = b * (a \div b) + (a % b)
OBVIOUS

LEMMA RestIs ==
  ASSUME NEW q \in Int, NEW b \in Nat \ {0}, NEW r \in 0 .. b - 1
  PROVE  (b * q + r) % b = r
OBVIOUS

LEMMA Increment ==
  ASSUME NEW x \in Nat, NEW b \in Nat \ {0}
  PROVE  (x + 1) % b = Next1(x % b, b)
<1> DEFINE q == x \div b
           r == x % b
<1>1. q \in Int /\ r \in 0 .. b - 1 /\ x = b * q + r
  BY Division
<1> HIDE DEF q, r
<1>2. CASE r = b - 1
  <2>1. x + 1 = b * (q + 1) + 0 /\ q + 1 \in Int /\ 0 \in 0 .. b - 1
    BY <1>1, <1>2
  <2>2. (b * (q + 1) + 0) % b = 0
    BY <2>1, RestIs
  <2>3. (x + 1) % b = 0
    BY <2>1, <2>2
  <2> QED
    BY <1>2, <2>3 DEF Next1, r
<1>3. CASE r # b - 1
  <2>1. x + 1 = b * q + (r + 1) /\ r + 1 \in 0 .. b - 1
    BY <1>1, <1>3
  <2>2. (b * q + (r + 1)) % b = r + 1
    BY <1>1, <2>1, RestIs
  <2>3. (x + 1) % b = r + 1
    BY <2>1, <2>2
  <2> QED
    BY <1>3, <2>3 DEF Next1, r
<1> QED
  BY <1>2, <1>3

(* The decimator's counter also counts modulo a bit.                       *)
LEMMA TimePasses ==
  ASSUME NEW x \in 0 .. R - 1
  PROVE  /\ (x + 1) % R \in 0 .. R - 1
         /\ x % Bit \in 0 .. Bit - 1
         /\ ((x + 1) % R) % Bit = Next1(x % Bit, Bit)
         /\ (x + 1) % R = Next1(x, R)
<1> DEFINE b == Bit
<1>0. b \in Nat \ {0} /\ R \in Nat \ {0} /\ R % b = 0 /\ x \in Nat
  BY RatioAssumption DEF Bit
<1> HIDE DEF b
<1>1. (x + 1) % b = Next1(x % b, b)
  BY <1>0, Increment
<1>2. (x + 1) % R = Next1(x, R)
  BY <1>0, RatioAssumption DEF Next1
<1>3. x % b \in 0 .. b - 1
  BY <1>0, Division
<1>4. ((x + 1) % R) % b = Next1(x % b, b)
  <2>1. CASE x = R - 1
    <3>1. x + 1 = R /\ (x + 1) % R = 0
      BY <1>0, <1>2, <2>1 DEF Next1
    <3>2. 0 % b = 0
      BY <1>0
    <3> QED
      BY <1>0, <1>1, <3>1, <3>2
  <2>2. CASE x # R - 1
    BY <1>1, <1>2, <2>2 DEF Next1
  <2> QED
    BY <2>1, <2>2
<1>5. Next1(x, R) \in 0 .. R - 1
  BY <1>0 DEF Next1
<1> QED
  BY <1>1, <1>2, <1>3, <1>4, <1>5 DEF b

-----------------------------------------------------------------------------
(* Registers of the sample path that the argument needs.                   *)
Types == /\ rst \in BOOLEAN /\ i2s_enable \in BOOLEAN /\ sclk \in BOOLEAN
         /\ cnt \in 0 .. R - 1 /\ c \in 0 .. Div - 1
         /\ wr_addr \in Fifo!Pointer /\ rd_addr \in Int

(* When the strobes come: the enable once in Div clocks, the sample two    *)
(* clocks after the decimator counted a multiple of R.                     *)
Strobes == /\ en[Div] = (c = 1)
           /\ ce_dec => cnt = 1
           /\ adc_valid => cnt = 2

(* After a fall of sclk: one clock later for the request, two for the read *)
(* (which is when the next enable comes, if Div = 2).                      *)
Reading == /\ fifo_ready => i2s_enable /\ ~sclk /\ Age = 1
           /\ fifo_read_sync =>
                i2s_enable /\ ~sclk /\ Age = IF Div = 2 THEN 0 ELSE 2

(* The inductive invariant, for a circuit that is not always in reset.     *)
IInv == ~software_rst =>
          /\ Types
          /\ Strobes
          /\ rst => cnt = 0 /\ ~fifo_read_sync
          /\ ~rst => Reading /\ (i2s_enable => Ahead)

(* The age of the enable and the phase of the bit count as well.           *)
LEMMA AgeIs ==
  ASSUME c \in 0 .. Div - 1
  PROVE  /\ Age \in 0 .. Div - 1
         /\ Age = 0 <=> c = 1
BY RatioAssumption DEF Age

(* A clock of the generator: one more clock since the last enable.         *)
LEMMA AgeGrows ==
  ASSUME c \in 0 .. Div - 1, Gen!Clock, ~software_rst
  PROVE  /\ c' \in 0 .. Div - 1
         /\ Age' = Next1(Age, Div)
         /\ en'[Div] = (c' = 1)
<1>1. c' = (c + 1) % Div /\ en'[Div] = (c % Div = 0)
  BY DEF Gen!Clock
<1>2. c' = Next1(c, Div) /\ (c % Div = 0 <=> c = 0)
  BY <1>1, RatioAssumption DEF Next1
<1> QED
  BY <1>1, <1>2, RatioAssumption DEF Next1, Age

(* sclk toggles at every enable.                                           *)
LEMMA SclkToggles ==
  ASSUME Types, en[Div] = (c = 1), ~software_rst, I2s!Sclk
  PROVE  /\ sclk' \in BOOLEAN
         /\ sclk' <=> ~rst /\ (sclk <=> ~(i2s_enable /\ c = 1))
<1>1. sclk' = (~device_reset /\ (sclk # (i2s_enable /\ c = 1)))
  BY DEF I2s!Sclk
<1>2. sclk \in BOOLEAN
  BY DEF Types
<1> DEFINE toggle == i2s_enable /\ c = 1
<1>3. toggle \in BOOLEAN
  OBVIOUS
<1> HIDE DEF toggle
<1>4. (sclk # toggle) <=> (sclk <=> ~toggle)
  BY <1>2, <1>3
<1> QED
  BY <1>1, <1>4 DEF toggle, device_reset

(* While the transmitter runs, Phase counts the clocks of a bit.           *)
LEMMA PhaseGrows ==
  ASSUME Types, en[Div] = (c = 1), ~software_rst, i2s_enable, ~rst,
         Gen!Clock, I2s!Sclk
  PROVE  /\ Phase' = Next1(Phase, Bit)
         /\ Phase \in 0 .. Bit - 1
<1>1. /\ Age \in 0 .. Div - 1 /\ (Age = 0 <=> c = 1)
      /\ Age' = Next1(Age, Div)
  BY AgeIs, AgeGrows DEF Types
<1>2. sclk' <=> (sclk <=> Age # 0)
  BY <1>1, SclkToggles
<1>3. Phase' = IF (Age' = 0) <=> sclk' THEN Age' + Div ELSE Age'
  BY DEF Phase
<1> HIDE DEF Age
<1>4. CASE Age = 0
  <2>1. Age' = 1 /\ 0 # Div - 1
    BY <1>1, <1>4, RatioAssumption DEF Next1
  <2>2. CASE sclk
    <3>1. ~sclk' /\ Phase = Div /\ Phase' = Div + 1
      BY <1>2, <1>3, <1>4, <2>1, <2>2, RatioAssumption DEF Phase
    <3> QED
      BY <3>1, RatioAssumption DEF Next1, Bit
  <2>3. CASE ~sclk
    <3>1. sclk' /\ Phase = 0 /\ Phase' = 1
      BY <1>2, <1>3, <1>4, <2>1, <2>3, RatioAssumption DEF Phase
    <3> QED
      BY <3>1, RatioAssumption DEF Next1, Bit
  <2> QED
    BY <2>2, <2>3
<1>5. CASE Age # 0
  BY <1>1, <1>2, <1>3, <1>5, RatioAssumption DEF Phase, Next1, Bit
<1> QED
  BY <1>4, <1>5

(* Both sides count together, so the lead stays what it was.               *)
LEMMA AheadStays ==
  ASSUME Ahead, Time \in 0 .. Bit - 1, Phase \in 0 .. Bit - 1,
         Time' = Next1(Time, Bit), Phase' = Next1(Phase, Bit)
  PROVE  Ahead'
<1>1. PICK d \in 0 .. Div - 1 : Time = Phase + d \/ Time + Bit = Phase + d
  BY DEF Ahead
<1>2. Time' = Phase' + d \/ Time' + Bit = Phase' + d
  BY <1>1, RatioAssumption DEF Next1, Bit
<1> QED
  BY <1>2 DEF Ahead

(* Released with the decimator's counter at 0 and sclk low, the            *)
(* transmitter waits for the next enable, wherever the generator is.       *)
LEMMA AheadAtRelease ==
  ASSUME cnt' = 0, ~sclk', c' \in 0 .. Div - 1
  PROVE  Ahead'
<1>1. Time' = 0
  BY RatioAssumption DEF Time, Bit
<1>2. PICK a \in 0 .. Div - 1 : Age' = a
  <2>1. \A x \in 0 .. Div - 1 :
          (IF x = 0 THEN Div - 1 ELSE x - 1) \in 0 .. Div - 1
    BY RatioAssumption
  <2>2. Age' = IF c' = 0 THEN Div - 1 ELSE c' - 1
    BY DEF Age
  <2> QED
    BY <2>1, <2>2
<1>3. Phase' = IF a = 0 THEN 0 ELSE a + Div
  BY <1>2, RatioAssumption DEF Phase
<1>4. CASE a = 0
  <2>1. 0 \in 0 .. Div - 1 /\ Time' = Phase' + 0
    BY <1>1, <1>3, <1>4, RatioAssumption
  <2> QED
    BY <2>1 DEF Ahead
<1>5. CASE a # 0
  <2>1. Div - a \in 0 .. Div - 1 /\ Time' + Bit = Phase' + (Div - a)
    BY <1>1, <1>2, <1>3, <1>5, RatioAssumption DEF Bit
  <2> QED
    BY <2>1 DEF Ahead
<1> QED
  BY <1>4, <1>5

(* A read under way is one clock away from the first sample it could meet. *)
LEMMA NoMeeting ==
  ASSUME IInv, ~device_reset
  PROVE  ~(adc_valid /\ fifo_read_sync)
<1> SUFFICES ASSUME adc_valid, fifo_read_sync PROVE FALSE
  OBVIOUS
<1>1. /\ ~sclk /\ Age = IF Div = 2 THEN 0 ELSE 2
      /\ Ahead /\ cnt = 2 /\ cnt \in 0 .. R - 1
  BY DEF IInv, Types, Strobes, Reading, device_reset
<1>2. Time = 2
  BY <1>1, RatioAssumption DEF Time, Bit
<1>3. Phase = IF Div = 2 THEN 0 ELSE Div + 2
  BY <1>1, RatioAssumption DEF Phase
<1> QED
  BY <1>1, <1>2, <1>3, RatioAssumption DEF Ahead, Bit

-----------------------------------------------------------------------------
(* The strobes of the decimator stay where they are.                       *)
LEMMA NextStrobes ==
  ASSUME IInv, ~software_rst, Next
  PROVE  /\ Strobes'
         /\ cnt' \in 0 .. R - 1
         /\ rst \/ rst' => cnt' = 0
         /\ ~rst /\ ~rst' => cnt' = Next1(cnt, R) /\ Time' = Next1(Time, Bit)
<1>1. /\ cnt' = (IF rst \/ rst' THEN 0 ELSE (cnt + 1) % R)
      /\ ce_dec' = (~(rst \/ rst') /\ cnt = 0)
      /\ adc_valid' = (~(rst \/ rst') /\ ce_dec)
  BY DEF Next, Decimator, Cic!Decimate, Cic!InReset
<1>2. cnt \in 0 .. R - 1 /\ (ce_dec => cnt = 1) /\ R >= 4
  <2>1. R >= 4
    BY RatioAssumption
  <2> QED
    BY <2>1 DEF IInv, Types, Strobes
<1>3. /\ (cnt + 1) % R \in 0 .. R - 1 /\ (cnt + 1) % R = Next1(cnt, R)
      /\ ((cnt + 1) % R) % Bit = Next1(cnt % Bit, Bit)
  BY <1>2, TimePasses
<1>4. en'[Div] = (c' = 1)
  BY AgeGrows DEF IInv, Types, Next
<1>5. cnt' \in 0 .. R - 1 /\ (rst \/ rst' => cnt' = 0)
  BY <1>1, <1>3, RatioAssumption
<1>6. (ce_dec' => cnt' = 1) /\ (adc_valid' => cnt' = 2)
  <2>1. (cnt = 0 => cnt + 1 = 1) /\ (cnt = 1 => cnt + 1 = 2)
    OBVIOUS
  <2>2. cnt = 0 \/ cnt = 1 => (cnt + 1) % R = cnt + 1
    BY <1>2, <1>3, RatioAssumption DEF Next1
  <2>3. ce_dec' \/ adc_valid' => ~(rst \/ rst')
    BY <1>1
  <2>4. (ce_dec' => cnt = 0) /\ (adc_valid' => cnt = 1)
    BY <1>1, <1>2
  <2> QED
    BY <1>1, <2>1, <2>2, <2>3, <2>4
<1> QED
  BY <1>1, <1>3, <1>4, <1>5, <1>6 DEF Strobes, Time

(* A request is made when sclk falls and lasts one clock; the read follows *)
(* one clock later.                                                        *)
LEMMA NextReading ==
  ASSUME IInv, ~software_rst, Next, ~rst'
  PROVE  Reading'
<1>1. /\ Age' = Next1(Age, Div) /\ Age \in 0 .. Div - 1 /\ (Age = 0 <=> c = 1)
      /\ en[Div] <=> c = 1
  BY AgeIs, AgeGrows DEF IInv, Types, Strobes, Next
<1>2. /\ i2s_enable' = i2s_enable
      /\ sclk' <=> ~rst /\ (sclk <=> ~(i2s_enable /\ c = 1))
      /\ fifo_read_sync' = (~(rst \/ rst') /\ fifo_ready)
  <2>1. I2s!Sclk /\ Types /\ en[Div] = (c = 1)
    BY DEF Next, I2s!Clock, IInv, Strobes
  <2> QED
    BY <2>1, SclkToggles DEF Next, ReadSync, Fifo!InReset, device_reset
<1>3. /\ rst => ~fifo_ready'
      /\ ~rst /\ fifo_ready' => (i2s_enable /\ en[Div] /\ sclk)
                                 \/ (~i2s_enable /\ fifo_ready)
  BY DEF Next, device_reset, I2s!Clock, I2s!ResetFetch, I2s!HoldFetch,
         I2s!Idle, I2s!Fetch, I2s!Fall
<1> HIDE DEF Age
<1>4. ~rst => Reading
  BY DEF IInv
<1>5. sclk \in BOOLEAN /\ i2s_enable \in BOOLEAN
  BY DEF IInv, Types
<1>6. ASSUME fifo_ready' PROVE i2s_enable' /\ ~sclk' /\ Age' = 1
  <2>1. i2s_enable /\ en[Div] /\ sclk /\ ~rst
    BY <1>3, <1>4, <1>6 DEF Reading
  <2>2. Age = 0 /\ Age' = 1
    BY <1>1, <2>1, RatioAssumption DEF Next1
  <2>3. c = 1
    BY <1>1, <2>2
  <2> QED
    BY <1>2, <2>1, <2>2, <2>3
<1>7. ASSUME fifo_read_sync'
      PROVE  i2s_enable' /\ ~sclk' /\ Age' = IF Div = 2 THEN 0 ELSE 2
  <2>1. ~rst /\ fifo_ready /\ i2s_enable /\ ~sclk /\ Age = 1
    BY <1>2, <1>4, <1>7 DEF Reading
  <2>2. Age' = IF Div = 2 THEN 0 ELSE 2
    BY <1>1, <2>1, RatioAssumption DEF Next1
  <2>3. c # 1
    BY <1>1, <2>1
  <2> QED
    BY <1>2, <2>1, <2>2, <2>3
<1> QED
  BY <1>6, <1>7 DEF Reading

(* The pointers keep their types.                                          *)
LEMMA NextPointers ==
  ASSUME wr_addr \in Fifo!Pointer, rd_addr \in Int, Fifo!Clock
  PROVE  wr_addr' \in Fifo!Pointer /\ rd_addr' \in Int
<1>1. /\ 0 \in Fifo!Pointer
      /\ \A p \in Fifo!Pointer : Fifo!Succ(p) \in Fifo!Pointer
  BY RatioAssumption DEF Fifo!Pointer, Fifo!Succ
<1>2. Fifo!Succ(rd_addr) \in Int
  BY RatioAssumption DEF Fifo!Succ
<1> QED
  BY <1>1, <1>2 DEF Fifo!Clock, Fifo!ClearPointers, Fifo!AdvanceWrite,
                    Fifo!AdvanceRead, Fifo!HoldPointers

LEMMA InitIInv == Init => IInv
<1> SUFFICES ASSUME Init, ~software_rst PROVE IInv
  BY DEF IInv
<1>1. Types
  <2>1. rst \in BOOLEAN /\ i2s_enable \in BOOLEAN
    BY Zenon DEF Init
  <2>2. sclk \in BOOLEAN
    BY DEF Init, I2s!PowerUp
  <2>3. cnt \in 0 .. R - 1 /\ wr_addr \in Fifo!Pointer /\ rd_addr \in Int
    BY RatioAssumption DEF Init, Fifo!Pointer
  <2>4. c \in 0 .. Div - 1
    BY DEF Init, Gen!Anywhere
  <2> QED
    BY <2>1, <2>2, <2>3, <2>4 DEF Types
<1>2. en[Div] = (c = 1)
  <2>1. c \in 0 .. Div - 1 /\ en[Div] = ((c + Div - 1) % Div = 0)
    BY DEF Init, Gen!Anywhere
  <2>2. (c + Div - 1) % Div = 0 <=> c = 1
    BY <2>1, RatioAssumption
  <2> QED
    BY <2>1, <2>2
<1> QED
  BY <1>1, <1>2 DEF Init, IInv, Strobes

LEMMA NextIInv == IInv /\ [Next]_vars => IInv'
<1> SUFFICES ASSUME IInv, [Next]_vars, ~software_rst' PROVE IInv'
  BY DEF IInv
<1>1. CASE UNCHANGED vars
  BY <1>1 DEF vars, IInv, Types, Strobes, Reading, Ahead, Time, Phase, Age
<1>2. CASE Next
  <2>0. ~software_rst /\ Types /\ Strobes /\ (rst => cnt = 0 /\ ~fifo_read_sync)
    BY <1>2 DEF Next, IInv
  <2>1. /\ Strobes' /\ cnt' \in 0 .. R - 1
        /\ rst \/ rst' => cnt' = 0
        /\ ~rst /\ ~rst' => Time' = Next1(Time, Bit)
    BY <1>2, <2>0, NextStrobes
  <2>2. sclk' \in BOOLEAN /\ (rst => ~sclk') /\ i2s_enable' = i2s_enable
    BY <1>2, <2>0, SclkToggles DEF Next, I2s!Clock, Strobes
  <2>3. c' \in 0 .. Div - 1 /\ rst' \in BOOLEAN
    BY <1>2, <2>0, AgeGrows DEF Next, Types
  <2>4. Types'
    <3>1. wr_addr' \in Fifo!Pointer /\ rd_addr' \in Int
      BY <1>2, <2>0, NextPointers DEF Next, Types
    <3> QED
      BY <2>0, <2>1, <2>2, <2>3, <3>1 DEF Types
  <2>5. rst' => cnt' = 0 /\ ~fifo_read_sync'
    BY <1>2, <2>1 DEF Next, ReadSync, Fifo!InReset, device_reset
  <2>6. ASSUME ~rst' PROVE Reading'
    BY <1>2, <2>0, <2>6, NextReading
  <2>7. ASSUME ~rst', i2s_enable' PROVE Ahead'
    <3>1. CASE rst
      <4>1. cnt' = 0 /\ ~sclk' /\ c' \in 0 .. Div - 1
        BY <2>1, <2>2, <2>3, <3>1
      <4> QED
        BY <4>1, AheadAtRelease
    <3>2. CASE ~rst
      <4>1. Ahead /\ i2s_enable
        BY <2>0, <2>2, <2>7, <3>2 DEF IInv
      <4>2. Time \in 0 .. Bit - 1 /\ Time' = Next1(Time, Bit)
        BY <2>0, <2>1, <2>7, <3>2, TimePasses DEF Types, Time
      <4>3. Phase \in 0 .. Bit - 1 /\ Phase' = Next1(Phase, Bit)
        BY <1>2, <2>0, <4>1, <3>2, PhaseGrows DEF Next, Strobes, I2s!Clock
      <4> QED
        BY <4>1, <4>2, <4>3, AheadStays
    <3> QED
      BY <3>1, <3>2
  <2> QED
    BY <2>1, <2>4, <2>5, <2>6, <2>7 DEF IInv
<1> QED
  BY <1>1, <1>2

(* For every divider, every depth and every sample period of whole bits: a *)
(* sample that comes while the FIFO has room is stored, although a FIFO    *)
(* with this memory drops what is written during a read (adc_soc.v:99).    *)
THEOREM NoCollision == Spec => StoredWhenNotFull
<1>1. IInv /\ [Next]_vars
        => [fifo_write /\ ~Fifo!InReset => wr_addr' # wr_addr]_vars
  <2> SUFFICES ASSUME IInv, Next, fifo_write, ~Fifo!InReset
               PROVE  wr_addr' # wr_addr
    OBVIOUS
  <2>1. ~device_reset /\ adc_valid /\ ~fifo_full
    BY DEF Fifo!InReset, fifo_write
  <2>2. ~fifo_read_sync
    BY <2>1, NoMeeting
  <2>3. Fifo!w_wr
    BY <2>1 DEF fifo_full, fifo_write, Fifo!w_wr, Fifo!o_full, Fifo!o_fill
  <2>4. wr_addr' = Fifo!Succ(wr_addr)
    BY <2>2, <2>3 DEF Next, Fifo!Clock, Fifo!ClearPointers, Fifo!AdvanceWrite,
         Fifo!AdvanceRead, Fifo!HoldPointers, Fifo!w_rd
  <2>5. wr_addr \in Fifo!Pointer
    BY <2>1 DEF IInv, Types, device_reset
  <2> QED
    BY <2>4, <2>5, RatioAssumption DEF Fifo!Succ, Fifo!Pointer
<1> QED
  BY InitIInv, NextIInv, <1>1, PTL DEF Spec, StoredWhenNotFull

-----------------------------------------------------------------------------
(* The FIFO of the sample path is that of Sfifo, so it is a bounded queue: *)
(* SfifoProofs says so for every depth, also for this one.                 *)
Stored == INSTANCE SfifoProofs
            WITH Data <- Words, i_rst <- device_reset, i_wr <- fifo_write,
                 i_data <- next, i_rd <- fifo_read_sync, o_data <- fifo_out

(* The assumption of Sfifo.                                                *)
LEMMA HasWords == Depth \in Nat \ {0}
BY RatioAssumption

LEMMA SameFifo ==
  /\ Fifo!Clock <=> Stored!Clock
  /\ Fifo!Contents = Stored!Contents
  /\ Fifo!InReset <=> device_reset \/ device_reset'
BY DEF Fifo!Clock, Fifo!ClearPointers, Fifo!AdvanceWrite, Fifo!AdvanceRead,
       Fifo!HoldPointers, Fifo!MemRead, Fifo!MemWrite, Fifo!MemIdle, Fifo!InReset,
       Fifo!w_wr, Fifo!w_rd, Fifo!o_full, Fifo!o_empty, Fifo!o_fill, Fifo!Slot,
       Fifo!Succ, Fifo!Contents, Fifo!Words,
       Stored!Clock, Stored!ClearPointers, Stored!AdvanceWrite, Stored!AdvanceRead,
       Stored!HoldPointers, Stored!MemRead, Stored!MemWrite, Stored!MemIdle,
       Stored!InReset, Stored!w_wr, Stored!w_rd, Stored!o_full, Stored!o_empty,
       Stored!o_fill, Stored!Slot, Stored!Succ, Stored!Contents, Stored!Words

(* Numbers count modulo Labels, so steps add up.                           *)
LEMMA PlusAdds ==
  ASSUME NEW w \in Int, NEW m \in Int, NEW n \in Int
  PROVE  /\ Plus(w, m) \in Words
         /\ Plus(Plus(w, m), n) = Plus(w, m + n)
<1> DEFINE q == (w + m) \div Labels
           r == (w + m) % Labels
           p == (r + n) \div Labels
           s == (r + n) % Labels
<1>0. Labels \in Nat \ {0}
  BY LabelsAssumption, RatioAssumption
<1>1. q \in Int /\ r \in 0 .. Labels - 1 /\ w + m = Labels * q + r
  BY <1>0, Division
<1>2. p \in Int /\ s \in 0 .. Labels - 1 /\ r + n = Labels * p + s
  <2>1. r + n \in Int
    BY <1>1
  <2> QED
    BY <1>0, <2>1, Division
<1> HIDE DEF q, r, p, s
<1>3. w + (m + n) = Labels * (q + p) + s
  <2>1. Labels * (q + p) = Labels * q + Labels * p
    BY <1>0, <1>1, <1>2
  <2> QED
    BY <1>0, <1>1, <1>2, <2>1
<1>4. (w + (m + n)) % Labels = s
  <2>1. (Labels * (q + p) + s) % Labels = s
    BY <1>0, <1>1, <1>2, RestIs
  <2> QED
    BY <1>3, <2>1
<1> QED
  BY <1>1, <1>4 DEF Plus, Words, r, s

LEMMA PlusZero == ASSUME NEW w \in Words PROVE Plus(w, 0) = w /\ w \in Int
BY LabelsAssumption, RatioAssumption DEF Plus, Words

-----------------------------------------------------------------------------
(* The types of the FIFO and of the numbers, in reset as well.             *)
Numbered == /\ Stored!IInv
            /\ sent \in Words
            /\ fifo_reg \in Words \cup {Silence}

LEMMA NumberedMeans ==
  ASSUME Numbered
  PROVE  /\ Stored!Contents \in Seq(Words) /\ Len(Stored!Contents) \in Nat
         /\ fifo_empty <=> Stored!Contents = <<>>
         /\ next \in Words /\ fifo_out \in Words /\ sent \in Words
         /\ next \in Int /\ fifo_out \in Int /\ sent \in Int
<1>1. /\ next \in Words /\ fifo_out \in Words /\ sent \in Words
      /\ wr_addr \in Stored!Pointer /\ rd_addr \in Stored!Pointer
  BY DEF Numbered, Stored!IInv, Stored!TypeOK
<1>2. /\ Stored!Contents \in Seq(Words)
      /\ Stored!Contents = <<>> <=> Stored!o_fill = 0
  BY HasWords, Stored!ContentsIsSeq DEF Numbered
<1>3. Stored!o_fill = 0 <=> fifo_empty
  BY <1>1, HasWords, Stored!FillIs
     DEF Stored!o_fill, Stored!Pointer, fifo_empty
<1>4. Len(Stored!Contents) \in Nat
  BY <1>2, LenProperties
<1>5. Words \subseteq Int
  BY DEF Words
<1> QED
  BY <1>1, <1>2, <1>3, <1>4, <1>5

(* The same of the state after a clock.                                    *)
LEMMA ContentsAfter ==
  ASSUME Numbered'
  PROVE  /\ Stored!Contents' \in Seq(Words) /\ Len(Stored!Contents') \in Nat
         /\ wr_addr' = rd_addr' => Stored!Contents' = <<>>
         /\ fifo_out' \in Words
<1>1. /\ fifo_mem' \in [Stored!Addresses -> Words]
      /\ wr_addr' \in Stored!Pointer /\ rd_addr' \in Stored!Pointer
      /\ Stored!o_fill' \in 0 .. Depth /\ fifo_out' \in Words
  BY DEF Numbered, Stored!IInv, Stored!TypeOK, Stored!FillInRange
<1>2. /\ Stored!Contents' \in Seq(Words)
      /\ Len(Stored!Contents') = Stored!o_fill'
  BY <1>1, HasWords, Stored!WordsIsSeq DEF Stored!Contents
<1>3. wr_addr' = rd_addr' => Stored!o_fill' = 0
  <2>1. \A x \in Stored!Pointer : (x - x) % (2 * Depth) = 0
    BY HasWords DEF Stored!Pointer
  <2> QED
    BY <1>1, <2>1 DEF Stored!o_fill
<1> QED
  BY <1>1, <1>2, <1>3, EmptySeq, LenProperties

LEMMA NextNumbered ==
  ASSUME Numbered, Next
  PROVE  Numbered'
<1>1. Stored!IInv /\ Stored!Clock /\ fifo_out \in Words
      /\ fifo_mem \in [Stored!Addresses -> Words] /\ rd_addr \in Stored!Pointer
  BY SameFifo DEF Numbered, Next, Stored!IInv, Stored!TypeOK
<1>2. fifo_out' \in Words /\ fifo_out' \in Int
  <2>1. Stored!Slot(rd_addr) \in Stored!Addresses
    BY <1>1, HasWords, Stored!SlotIs DEF Stored!Pointer
  <2>2. fifo_out' \in Words
    BY <1>1, <2>1 DEF Stored!Clock, Stored!MemRead, Stored!MemWrite, Stored!MemIdle
  <2> QED
    BY <2>2 DEF Words
<1>3. next' \in Words /\ sent' \in Words
  <2>1. \A w \in Int : Plus(w, 1) \in Words /\ Plus(w, -1) \in Words
    BY PlusAdds
  <2>2. Plus(next, 1) \in Words /\ next \in Words /\ sent \in Words
    BY NumberedMeans, PlusAdds
  <2> QED
    BY <1>2, <2>1, <2>2 DEF Next, Record, Numbered
<1>4. fifo_reg' \in Words \cup {Silence}
  BY <1>1 DEF Next, I2s!Clock, I2s!ResetFetch, I2s!HoldFetch, I2s!Idle, I2s!Fetch, Numbered
<1>5. Stored!Next
  <2>1. device_reset' \in BOOLEAN /\ fifo_write' \in BOOLEAN /\ fifo_read_sync' \in BOOLEAN
    BY DEF device_reset, fifo_write, Next, ReadSync
  <2> QED
    BY <1>1, <1>3, <2>1 DEF Stored!Next
<1> QED
  BY <1>1, <1>3, <1>4, <1>5, HasWords, Stored!NextIInv DEF Numbered

-----------------------------------------------------------------------------
(* Without a read, a FIFO that is not empty stays so: a write does not     *)
(* take the pointer all the way round.                                     *)
LEMMA NotEmptied ==
  ASSUME Numbered, ~fifo_empty, ~fifo_read_sync, ~Fifo!InReset, Fifo!Clock
  PROVE  ~fifo_empty'
<1>1. rd_addr' = rd_addr /\ (wr_addr' = wr_addr \/ Fifo!AdvanceWrite)
  BY DEF Fifo!Clock, Fifo!ClearPointers, Fifo!AdvanceWrite, Fifo!AdvanceRead,
         Fifo!HoldPointers, Fifo!w_rd
<1>2. CASE wr_addr' = wr_addr
  BY <1>1, <1>2 DEF fifo_empty
<1>3. CASE Fifo!AdvanceWrite
  <2>1. wr_addr' = Fifo!Succ(wr_addr) /\ (wr_addr - rd_addr) % (2 * Depth) # Depth
    BY <1>3 DEF Fifo!AdvanceWrite, Fifo!w_wr, Fifo!o_full, Fifo!o_fill
  <2>2. /\ wr_addr \in Stored!Pointer /\ rd_addr \in Stored!Pointer
        /\ (wr_addr - rd_addr) % (2 * Depth) \in 0 .. Depth
        /\ Fifo!Succ(wr_addr) = Stored!Succ(wr_addr)
    BY DEF Numbered, Stored!IInv, Stored!TypeOK, Stored!FillInRange, Stored!o_fill,
           Fifo!Succ, Stored!Succ
  <2>3. /\ wr_addr' = IF wr_addr = 2 * Depth - 1 THEN 0 ELSE wr_addr + 1
        /\ (IF wr_addr >= rd_addr THEN wr_addr - rd_addr
            ELSE wr_addr - rd_addr + 2 * Depth) \in 0 .. Depth - 1
    BY <2>1, <2>2, HasWords, Stored!SuccIs, Stored!FillIs
  <2> QED
    BY <1>1, <2>2, <2>3, HasWords DEF Stored!Pointer, fifo_empty
<1> QED
  BY <1>1, <1>2, <1>3

(* A word that is asked for is there, from the request to the read.        *)
Provided == /\ device_reset => ~fifo_read_sync
            /\ ~device_reset => (fifo_ready \/ fifo_read_sync => ~fifo_empty)

LEMMA NextProvided ==
  ASSUME IInv, Numbered, Provided, Next
  PROVE  Provided'
<1>1. fifo_read_sync' <=> ~Fifo!InReset /\ fifo_ready
  BY DEF Next, ReadSync
<1>2. ASSUME device_reset' PROVE ~fifo_read_sync'
  BY <1>1, <1>2 DEF Fifo!InReset
<1>3. ASSUME ~device_reset', fifo_ready' \/ fifo_read_sync' PROVE ~fifo_empty'
  <2>1. ~software_rst /\ ~rst'
    BY <1>3 DEF Next, device_reset
  <2>2. ~rst
    <3>1. rst => ~fifo_ready' /\ ~fifo_read_sync'
      BY <1>1 DEF Next, device_reset, I2s!Clock, I2s!ResetFetch, I2s!HoldFetch,
                  I2s!Idle, I2s!Fetch, Fifo!InReset
    <3> QED
      BY <1>3, <3>1
  <2>3. ~Fifo!InReset /\ Reading /\ Fifo!Clock /\ ~device_reset
    BY <1>3, <2>1, <2>2 DEF Fifo!InReset, device_reset, IInv, Next
  <2>4. ~fifo_read_sync /\ ~fifo_empty
    <3>1. CASE fifo_read_sync'
      <4>1. fifo_ready /\ Age = 1
        BY <1>1, <2>3, <3>1 DEF Reading
      <4>2. ~(1 = IF Div = 2 THEN 0 ELSE 2)
        OBVIOUS
      <4> QED
        BY <2>3, <4>1, <4>2 DEF Reading, Provided
    <3>2. CASE fifo_ready'
      <4>1. fifo_ready' => (~i2s_enable /\ fifo_ready) \/ (sclk /\ ~fifo_empty)
        BY <2>3 DEF Next, I2s!Clock, I2s!ResetFetch, I2s!HoldFetch, I2s!Idle,
                    I2s!Fetch, I2s!Fall
      <4> QED
        BY <2>3, <3>2, <4>1 DEF Reading
    <3> QED
      BY <1>3, <3>1, <3>2
  <2> QED
    BY <2>3, <2>4, NotEmptied
<1> QED
  BY <1>2, <1>3 DEF Provided

EInv == IInv /\ Numbered /\ Provided

LEMMA InitEInv == Init => EInv
<1> SUFFICES ASSUME Init PROVE EInv
  OBVIOUS
<1>1. IInv /\ Provided
  BY InitIInv DEF Init, I2s!PowerUp, Provided
<1>2. 0 \in Words /\ 1 \in Words /\ Labels - 1 \in Words
  BY LabelsAssumption, HasWords DEF Words
<1>3. Stored!Init
  <2>1. device_reset = TRUE /\ fifo_write = FALSE /\ fifo_read_sync = FALSE
    BY DEF Init, device_reset, fifo_write
  <2>2. fifo_mem \in [Stored!Addresses -> Words]
    BY <1>2 DEF Init, Fifo!Addresses, Stored!Addresses
  <2> QED
    BY <1>2, <2>1, <2>2 DEF Init, Stored!Init, Stored!PowerUp
<1>4. Numbered
  BY <1>2, <1>3, HasWords, Stored!InitIInv DEF Init, Numbered
<1> QED
  BY <1>1, <1>4 DEF EInv

LEMMA NextEInv == EInv /\ [Next]_vars => EInv'
<1>1. ASSUME EInv, Next PROVE EInv'
  BY <1>1, NextIInv, NextNumbered, NextProvided DEF EInv
<1>2. ASSUME EInv, UNCHANGED vars PROVE EInv'
  <2>1. IInv' /\ Provided'
    BY <1>2, NextIInv DEF EInv, vars, Provided, fifo_empty, device_reset
  <2>2. Stored!IInv'
    BY <1>2 DEF EInv, Numbered, vars, Stored!IInv, Stored!TypeOK, Stored!FillInRange,
         Stored!o_fill, device_reset, fifo_write, fifo_full
  <2> QED
    BY <1>2, <2>1, <2>2 DEF EInv, Numbered, vars
<1> QED
  BY <1>1, <1>2

(* For every divider, depth and sample period of whole bits: the FIFO is   *)
(* never read while it is empty, although the transmitter looked at its    *)
(* flag two clocks before (adc_soc.v:102-111).                             *)
THEOREM NeverReadsEmpty == Spec => []ReadOnlyNonEmpty
<1>1. EInv => ReadOnlyNonEmpty
  BY DEF EInv, Provided, ReadOnlyNonEmpty
<1> QED
  BY <1>1, InitEInv, NextEInv, PTL DEF Spec

-----------------------------------------------------------------------------
(* When words are asked for: with the last bit of a frame, to be loaded at *)
(* the next fall of sclk; and once more at the first bit after a reset,    *)
(* when fifo_reg has none.                                                 *)
Asking == /\ sclk_counter \in 0 .. Slots - 1
          /\ sclk_counter = 0 => request_fifo
          /\ request_fifo /\ sclk_counter # 0 =>
               sclk_counter = Slots - 1 /\ fifo_reg = Silence

(* The words before the FIFO: in the input register of the transmitter,    *)
(* and in the read port.                                                   *)
InReg == IF fifo_reg = Silence THEN 0 ELSE 1
InPort == IF Popping THEN 0 ELSE 1

(* Every word under way has the number of its place after the last one     *)
(* sent, and the next sample to be accepted follows them.                  *)
InOrder ==
  /\ fifo_reg # Silence => fifo_reg = Plus(sent, 1)
  /\ ~Popping => fifo_out = Plus(sent, InReg + 1)
  /\ \A k \in 1 .. Len(Stored!Contents) :
       Stored!Contents[k] = Plus(sent, InReg + InPort + k)
  /\ next = Plus(sent, InReg + InPort + Len(Stored!Contents) + 1)

OInv == /\ EInv
        /\ ~device_reset => Asking /\ InOrder

(* What a clock does to the FIFO, seen as a queue, outside of reset.       *)
LEMMA QueueStep ==
  ASSUME Numbered, Numbered', Provided, Next, ~device_reset, ~device_reset'
  PROVE  IF fifo_read_sync
         THEN /\ Stored!Contents # <<>> /\ Stored!Contents' = Tail(Stored!Contents)
              /\ fifo_out' = Head(Stored!Contents)
              /\ wr_addr' = wr_addr
         ELSE /\ fifo_out' = fifo_out
              /\ \/ wr_addr' = wr_addr /\ Stored!Contents' = Stored!Contents
                 \/ /\ wr_addr' # wr_addr
                    /\ Stored!Contents' = Append(Stored!Contents, next)
<1>1. Stored!IInv /\ Stored!IInv' /\ Stored!Clock
  BY SameFifo DEF Numbered, Next
<1>2. /\ Stored!MemRead \/ Stored!MemWrite \/ Stored!MemIdle
      /\ \/ Stored!ClearPointers \/ Stored!AdvanceWrite
         \/ Stored!AdvanceRead \/ Stored!HoldPointers
  BY <1>1 DEF Stored!Clock
<1>3. ~Stored!ClearPointers
  BY DEF Stored!ClearPointers, Stored!InReset
<1>4. Stored!Next
  BY <1>1 DEF Stored!Next, Stored!IInv, Stored!TypeOK
<1>5. Stored!Queue!ReadPort
  BY <1>1, <1>4, HasWords, Stored!ReadPortStep
<1>6. CASE fifo_read_sync
  <2>1. Stored!Contents # <<>>
    BY <1>6, NumberedMeans DEF Provided
  <2>2. Stored!w_rd
    <3>1. Stored!o_fill # 0
      BY <1>1, <2>1, HasWords, Stored!ContentsIsSeq
    <3> QED
      BY <1>6, <3>1 DEF Stored!w_rd, Stored!o_empty
  <2>3. Stored!AdvanceRead
    BY <1>2, <1>3, <1>6, <2>2 DEF Stored!AdvanceWrite, Stored!HoldPointers
  <2>4. Stored!Queue!Take
    BY <1>1, <1>2, <2>3, HasWords, Stored!ReadStep
  <2> QED
    BY <1>5, <1>6, <2>1, <2>3, <2>4
       DEF Stored!AdvanceRead, Stored!Queue!Take, Stored!Queue!ReadPort
<1>7. CASE ~fifo_read_sync
  <2>1. fifo_out' = fifo_out
    BY <1>5, <1>7 DEF Stored!Queue!ReadPort
  <2>2. CASE Stored!AdvanceWrite
    <3>1. Stored!Queue!Offer
      BY <1>1, <1>2, <2>2, HasWords, Stored!WriteStep
    <3>2. wr_addr \in Stored!Pointer /\ wr_addr' = Stored!Succ(wr_addr)
      BY <1>1, <2>2 DEF Stored!AdvanceWrite, Stored!IInv, Stored!TypeOK
    <3>3. wr_addr' # wr_addr
      BY <3>2, RatioAssumption DEF Stored!Succ, Stored!Pointer
    <3> QED
      BY <1>7, <2>1, <3>1, <3>3 DEF Stored!Queue!Offer
  <2>3. CASE Stored!HoldPointers
    <3>1. Stored!Queue!Refuse
      BY <1>1, <1>2, <2>3, HasWords, Stored!HoldStep
    <3> QED
      BY <1>7, <2>1, <2>3, <3>1 DEF Stored!Queue!Refuse, Stored!HoldPointers
  <2> QED
    BY <1>2, <1>3, <1>7, <2>2, <2>3 DEF Stored!AdvanceRead, Stored!w_rd
<1> QED
  BY <1>6, <1>7

LEMMA NextAsking ==
  ASSUME Next, ~device_reset', ~device_reset => Asking
  PROVE  Asking'
<1>1. /\ I2s!ResetSerial \/ I2s!HoldSerial \/ I2s!Load \/ I2s!Shift
      /\ I2s!ResetFetch \/ I2s!HoldFetch \/ I2s!Idle \/ I2s!Fetch
      /\ sclk_counter' = IF device_reset THEN Slots - 1
                         ELSE IF I2s!Fall THEN (sclk_counter + 1) % Slots
                         ELSE sclk_counter
  BY DEF Next, I2s!Clock, I2s!Sclk, I2s!Last
<1>2. CASE device_reset
  <2>1. sclk_counter' = Slots - 1 /\ fifo_reg' = Silence
    BY <1>1, <1>2 DEF I2s!ResetFetch, I2s!HoldFetch, I2s!Idle, I2s!Fetch
  <2>2. Slots - 1 \in 0 .. Slots - 1 /\ Slots - 1 # 0
    BY SlotsAssumption
  <2> QED
    BY <2>1, <2>2 DEF Asking
<1>3. CASE ~device_reset /\ ~I2s!Fall
  <2>1. sclk_counter' = sclk_counter /\ request_fifo' = request_fifo
    BY <1>1, <1>3 DEF I2s!ResetSerial, I2s!HoldSerial, I2s!Load, I2s!Shift
  <2>2. fifo_reg' = fifo_reg
    BY <1>1, <1>3 DEF I2s!ResetFetch, I2s!HoldFetch, I2s!Idle, I2s!Fetch
  <2> QED
    BY <1>3, <2>1, <2>2 DEF Asking
<1>4. CASE ~device_reset /\ I2s!Fall
  <2>1. /\ sclk_counter \in 0 .. Slots - 1
        /\ sclk_counter' = IF sclk_counter = Slots - 1 THEN 0 ELSE sclk_counter + 1
        /\ sclk_counter' \in 0 .. Slots - 1
    BY <1>1, <1>3, <1>4, SlotsAssumption DEF Asking
  <2>2. CASE sclk_counter = 0
    <3>1. request_fifo' = FALSE /\ sclk_counter' # 0
      BY <1>1, <1>4, <2>1, <2>2, SlotsAssumption
         DEF I2s!ResetSerial, I2s!HoldSerial, I2s!Load, I2s!Shift
    <3> QED
      BY <2>1, <3>1 DEF Asking
  <2>3. CASE sclk_counter # 0
    <3>1. request_fifo' = (request_fifo \/ sclk_counter = Slots - 1)
      BY <1>1, <1>4, <2>3
         DEF I2s!ResetSerial, I2s!HoldSerial, I2s!Load, I2s!Shift, I2s!Last
    <3>2. request_fifo => sclk_counter = Slots - 1
      BY <1>4, <2>3 DEF Asking
    <3>3. sclk_counter' = 0 <=> sclk_counter = Slots - 1
      BY <2>1
    <3> QED
      BY <2>1, <3>1, <3>2, <3>3 DEF Asking
  <2> QED
    BY <2>2, <2>3
<1> QED
  BY <1>2, <1>3, <1>4

(* What a clock does to the two words before the FIFO, outside of reset: a *)
(* fetch sends the word in fifo_reg, if there is one, and takes the word   *)
(* in the read port, if the FIFO has another; the read then brings that.   *)
Fetches == /\ ~Popping /\ ~fifo_read_sync
           /\ Popping' <=> ~fifo_empty
           /\ fifo_reg' = IF fifo_empty THEN Silence ELSE fifo_out
           /\ sent' = IF fifo_reg = Silence THEN sent ELSE fifo_reg
Refills == /\ fifo_read_sync /\ Popping /\ ~Popping'
           /\ fifo_reg' = fifo_reg /\ sent' = sent
Waits == /\ ~fifo_read_sync /\ (Popping' <=> Popping)
         /\ fifo_reg' = fifo_reg /\ sent' = sent

(* The fetch that a request leads to is one of the sort above.             *)
LEMMA FetchIs ==
  ASSUME IInv, Asking, Next, ~device_reset, ~device_reset', I2s!Fetch
  PROVE  Fetches
<1>1. Reading
  BY DEF IInv, device_reset
<1>2. /\ I2s!ResetSerial \/ I2s!HoldSerial \/ I2s!Load \/ I2s!Shift
      /\ fifo_read_sync' <=> fifo_ready
      /\ sent' = IF I2s!Load /\ fifo_reg # Silence THEN fifo_reg ELSE sent
  BY DEF Next, I2s!Clock, ReadSync, Fifo!InReset, Record
<1>3. /\ I2s!Fall /\ request_fifo /\ sclk
      /\ fifo_ready' = ~fifo_empty
      /\ fifo_reg' = IF fifo_empty THEN Silence ELSE fifo_out
  BY DEF I2s!Fetch, I2s!Fall
<1>4. ~fifo_ready /\ ~fifo_read_sync
  BY <1>1, <1>3 DEF Reading
<1>5. fifo_reg # Silence => I2s!Load
  <2>1. fifo_reg # Silence => sclk_counter = 0
    BY <1>3 DEF Asking
  <2> QED
    BY <1>2, <1>3, <2>1 DEF I2s!ResetSerial, I2s!HoldSerial, I2s!Shift
<1> QED
  BY <1>2, <1>3, <1>4, <1>5 DEF Fetches, Popping

(* There are no other steps.                                               *)
LEMMA SerialStep ==
  ASSUME IInv, Asking, Next, ~device_reset, ~device_reset'
  PROVE  Fetches \/ Refills \/ Waits
<1>1. Reading
  BY DEF IInv, device_reset
<1>2. /\ I2s!ResetSerial \/ I2s!HoldSerial \/ I2s!Load \/ I2s!Shift
      /\ I2s!ResetFetch \/ I2s!HoldFetch \/ I2s!Idle \/ I2s!Fetch
      /\ fifo_read_sync' <=> fifo_ready
      /\ sent' = IF I2s!Load /\ fifo_reg # Silence THEN fifo_reg ELSE sent
  BY DEF Next, I2s!Clock, ReadSync, Fifo!InReset, Record
<1>3. fifo_ready => ~fifo_read_sync
  <2>1. ~(1 = IF Div = 2 THEN 0 ELSE 2)
    OBVIOUS
  <2> QED
    BY <1>1, <2>1 DEF Reading
<1>4. CASE I2s!Fetch
  BY <1>4, FetchIs
<1>5. CASE ~I2s!Fetch
  <2>1. I2s!HoldFetch \/ I2s!Idle
    BY <1>2, <1>5 DEF I2s!ResetFetch
  <2>2. ~I2s!Load
    BY <2>1 DEF I2s!HoldFetch, I2s!Idle, I2s!Load, I2s!Fall, Asking
  <2>3. fifo_reg' = fifo_reg /\ ~fifo_ready'
    BY <1>1, <2>1 DEF I2s!HoldFetch, I2s!Idle, Reading
  <2>4. Popping' <=> fifo_ready
    BY <1>2, <2>3 DEF Popping
  <2> QED
    BY <1>2, <1>3, <2>2, <2>3, <2>4 DEF Refills, Waits, Popping
<1> QED
  BY <1>4, <1>5

(* So a place in the order is the same word before and after, or one       *)
(* nearer, when the word of fifo_reg has been sent.                        *)
LEMMA PlacesKept ==
  ASSUME Numbered, InOrder, Fetches \/ Waits
  PROVE  \A n \in Int : Plus(sent', InReg' + InPort' + n) = Plus(sent, InReg + InPort + n)
<1>1. CASE Waits
  BY <1>1 DEF Waits, InReg, InPort
<1>2. CASE Fetches
  <2>1. InReg' + InPort' = 1 /\ InPort = 1 /\ InReg \in 0 .. 1
    <3>1. ~fifo_empty => fifo_reg' # Silence
      BY <1>2, NumberedMeans, LabelsAssumption DEF Fetches, Words
    <3> QED
      BY <1>2, <3>1 DEF Fetches, InReg, InPort
  <2>2. sent' = Plus(sent, InReg)
    BY <1>2, NumberedMeans, PlusZero DEF Fetches, InReg, InOrder
  <2>3. ASSUME NEW n \in Int
        PROVE  Plus(Plus(sent, InReg), 1 + n) = Plus(sent, InReg + 1 + n)
    <3>1. sent \in Int /\ InReg \in Int /\ 1 + n \in Int
      BY <2>1, NumberedMeans
    <3>2. Plus(Plus(sent, InReg), 1 + n) = Plus(sent, InReg + (1 + n))
      BY <3>1, PlusAdds
    <3> QED
      BY <3>1, <3>2
  <2> QED
    BY <2>1, <2>2, <2>3
<1> QED
  BY <1>1, <1>2

LEMMA NextInOrder ==
  ASSUME IInv, Provided, Numbered, Asking, InOrder, Next, Numbered',
         ~device_reset, ~device_reset'
  PROVE  InOrder'
<1> DEFINE q == Stored!Contents
           base == InReg + InPort
<1>1. Fetches \/ Refills \/ Waits
  BY SerialStep
<1>2. /\ q \in Seq(Words) /\ Len(q) \in Nat /\ base \in Int /\ InReg \in Int
      /\ q' \in Seq(Words) /\ next \in Words
      /\ base' \in Int /\ InReg' \in Int
  <2>1. /\ InReg \in 0 .. 1 /\ InPort \in 0 .. 1
        /\ InReg' \in 0 .. 1 /\ InPort' \in 0 .. 1
    BY DEF InReg, InPort
  <2> QED
    BY <2>1, NumberedMeans, ContentsAfter
<1>3. /\ \A k \in 1 .. Len(q) : q[k] = Plus(sent, base + k)
      /\ next = Plus(sent, base + (Len(q) + 1))
  <2>1. base + (Len(q) + 1) = base + Len(q) + 1
    BY <1>2
  <2> QED
    BY <2>1 DEF InOrder
<1>4. next' = IF wr_addr' # wr_addr THEN Plus(next, 1) ELSE next
  BY SameFifo DEF Next, Record
<1>5. \A n \in Int : Plus(Plus(sent, base + n), 1) = Plus(sent, base + (n + 1))
  <2> TAKE n \in Int
  <2>1. sent \in Int /\ base + n \in Int /\ base + n + 1 = base + (n + 1)
    BY <1>2, NumberedMeans
  <2> HIDE DEF base
  <2> QED
    BY <2>1, PlusAdds
<1>6. CASE Fetches \/ Waits
  <2>1. \A n \in Int : Plus(sent', base' + n) = Plus(sent, base + n)
    BY <1>6, PlacesKept
  <2>2. /\ fifo_out' = fifo_out
        /\ \/ wr_addr' = wr_addr /\ q' = q
           \/ wr_addr' # wr_addr /\ q' = Append(q, next)
    BY <1>6, QueueStep DEF Fetches, Waits
  <2>3. fifo_reg' # Silence => fifo_reg' = Plus(sent', 1)
    <3>1. CASE Waits
      BY <3>1 DEF Waits, InOrder
    <3>2. ASSUME Fetches, fifo_reg' # Silence PROVE fifo_reg' = Plus(sent', 1)
      <4>1. fifo_reg' = Plus(sent, InReg + 1) /\ base = InReg + 1
        BY <3>2 DEF Fetches, InOrder, InPort
      <4>2. base' = 1
        BY <3>2 DEF Fetches, InReg, InPort
      <4>3. Plus(sent', 1 + 0) = Plus(sent, base + 0) /\ base + 0 = base
        BY <1>2, <2>1, <4>2
      <4> QED
        BY <4>1, <4>3
    <3> QED
      BY <1>6, <3>1, <3>2
  <2>4. ~Popping' => fifo_out' = Plus(sent', InReg' + 1)
    <3>1. ~Popping' => ~Popping
      BY <1>6 DEF Fetches, Waits
    <3>2. ASSUME ~Popping', ~Popping PROVE fifo_out = Plus(sent', InReg' + 1)
      <4>1. base' = InReg' + 1 /\ base = InReg + 1
        BY <3>2 DEF InPort
      <4>2. /\ Plus(sent', base' + 0) = Plus(sent, base + 0)
            /\ base' + 0 = base' /\ base + 0 = base
        BY <1>2, <2>1
      <4> QED
        BY <3>2, <4>1, <4>2 DEF InOrder
    <3> QED
      BY <2>2, <3>1, <3>2
  <2>5. /\ \A k \in 1 .. Len(q') : q'[k] = Plus(sent', base' + k)
        /\ next' = Plus(sent', base' + (Len(q') + 1))
    <3> HIDE DEF q, base
    <3>0. /\ Len(q) + 1 \in Int /\ (Len(q) + 1) + 1 \in Int
          /\ \A k \in 1 .. Len(q) + 1 : k \in Int
      BY <1>2
    <3>1. CASE wr_addr' = wr_addr /\ q' = q
      <4>1. \A k \in 1 .. Len(q) : q[k] = Plus(sent', base' + k)
        BY <1>2, <1>3, <2>1
      <4>2. next' = Plus(sent', base' + (Len(q) + 1))
        BY <1>3, <1>4, <2>1, <3>0, <3>1
      <4> QED
        BY <3>1, <4>1, <4>2
    <3>2. CASE wr_addr' # wr_addr /\ q' = Append(q, next)
      <4>1. /\ Len(q') = Len(q) + 1 /\ q'[Len(q) + 1] = next
            /\ \A k \in 1 .. Len(q) : q'[k] = q[k]
        BY <1>2, <3>2, AppendProperties
      <4>2. \A k \in 1 .. Len(q) + 1 : q'[k] = Plus(sent, base + k)
        BY <1>2, <1>3, <4>1
      <4>3. next' = Plus(sent, base + ((Len(q) + 1) + 1))
        BY <1>3, <1>4, <1>5, <3>0, <3>2
      <4> QED
        BY <2>1, <3>0, <4>1, <4>2, <4>3
    <3> QED
      BY <2>2, <3>1, <3>2
  <2>6. base' + (Len(q') + 1) = InReg' + InPort' + Len(q') + 1
    BY <1>2, LenProperties
  <2> QED
    BY <2>3, <2>4, <2>5, <2>6 DEF InOrder
<1>7. CASE Refills
  <2>1. /\ q # <<>> /\ q' = Tail(q) /\ fifo_out' = Head(q) /\ wr_addr' = wr_addr
    BY <1>7, QueueStep DEF Refills
  <2>2. /\ InReg' = InReg /\ InPort = 0 /\ InPort' = 1 /\ base' = base + 1
        /\ base = InReg /\ sent' = sent
    BY <1>7 DEF Refills, InReg, InPort
  <2>3. fifo_reg' # Silence => fifo_reg' = Plus(sent', 1)
    BY <1>7 DEF Refills, InOrder
  <2>4. fifo_out' = Plus(sent', InReg' + 1)
    <3>1. Head(q) = q[1] /\ 1 \in 1 .. Len(q)
      BY <1>2, <2>1, EmptySeq
    <3> QED
      BY <1>3, <2>1, <2>2, <3>1
  <2>5. /\ \A k \in 1 .. Len(q') : q'[k] = Plus(sent', base' + k)
        /\ next' = Plus(sent', base' + (Len(q') + 1))
    <3> HIDE DEF q, base
    <3>1. Len(q') = Len(q) - 1 /\ \A k \in 1 .. Len(q) - 1 : q'[k] = q[k + 1]
      BY <1>2, <2>1, HeadTailProperties
    <3>2. /\ Len(q) - 1 + 1 = Len(q) /\ base + 1 + Len(q) = base + (Len(q) + 1)
          /\ \A k \in 1 .. Len(q) - 1 : k + 1 \in 1 .. Len(q) /\ base + 1 + k = base + (k + 1)
      BY <1>2
    <3> QED
      BY <1>3, <1>4, <2>1, <2>2, <3>1, <3>2
  <2>6. base' + (Len(q') + 1) = InReg' + InPort' + Len(q') + 1
    BY <1>2, LenProperties
  <2> QED
    BY <2>3, <2>4, <2>5, <2>6 DEF InOrder
<1> QED
  BY <1>1, <1>6, <1>7

(* Out of reset the FIFO is empty, and the word left in its read port is   *)
(* the first that is sent.                                                 *)
LEMMA OrderAtRelease ==
  ASSUME Numbered', Next, device_reset, ~device_reset'
  PROVE  InOrder'
<1>1. /\ fifo_reg' = Silence /\ ~fifo_ready' /\ ~fifo_read_sync'
      /\ next' = Plus(fifo_out', 1) /\ sent' = Plus(fifo_out', -1)
      /\ wr_addr' = rd_addr'
  BY DEF Next, I2s!Clock, I2s!ResetFetch, I2s!HoldFetch, I2s!Idle, I2s!Fetch,
         ReadSync, Record, Fifo!InReset, Fifo!Clock, Fifo!ClearPointers,
         Fifo!AdvanceWrite, Fifo!AdvanceRead, Fifo!HoldPointers
<1>2. InReg' = 0 /\ InPort' = 1
  BY <1>1 DEF InReg, InPort, Popping
<1>3. /\ Stored!Contents' = <<>> /\ Len(Stored!Contents') = 0
      /\ fifo_out' \in Words /\ fifo_out' \in Int
  <2>1. Stored!Contents' = <<>> /\ fifo_out' \in Words
    BY <1>1, ContentsAfter
  <2> QED
    BY <2>1, EmptySeq DEF Words
<1>4. \A w \in Words : Plus(Plus(w, -1), 1) = w /\ Plus(Plus(w, -1), 2) = Plus(w, 1)
  <2> TAKE w \in Words
  <2>1. w \in Int /\ -1 \in Int /\ 1 \in Int /\ 2 \in Int /\ -1 + 1 = 0 /\ -1 + 2 = 1
    BY DEF Words
  <2>2. Plus(Plus(w, -1), 1) = Plus(w, -1 + 1) /\ Plus(Plus(w, -1), 2) = Plus(w, -1 + 2)
    BY <2>1, PlusAdds
  <2> QED
    BY <2>1, <2>2, PlusZero
<1> QED
  BY <1>1, <1>2, <1>3, <1>4 DEF InOrder

LEMMA InitOInv == Init => OInv
BY InitEInv DEF Init, device_reset, OInv

LEMMA NextOInv == OInv /\ [Next]_vars => OInv'
<1>1. ASSUME OInv, Next PROVE OInv'
  <2>1. EInv'
    BY <1>1, NextEInv DEF OInv
  <2>2. ASSUME ~device_reset' PROVE Asking'
    BY <1>1, <2>2, NextAsking DEF OInv
  <2>3. ASSUME ~device_reset' PROVE InOrder'
    BY <1>1, <2>1, <2>3, NextInOrder, OrderAtRelease DEF OInv, EInv
  <2> QED
    BY <2>1, <2>2, <2>3 DEF OInv
<1>2. ASSUME OInv, UNCHANGED vars PROVE OInv'
  <2>1. EInv'
    BY <1>2, NextEInv DEF OInv
  <2>2. /\ UNCHANGED <<device_reset, Popping, Stored!Contents>>
        /\ UNCHANGED <<fifo_reg, fifo_out, next, sent, sclk_counter, request_fifo>>
    BY <1>2 DEF vars, device_reset, Popping, Stored!Contents, Stored!o_fill
  <2> HIDE DEF Popping
  <2>3. ~device_reset' => Asking' /\ InOrder'
    BY <1>2, <2>2 DEF OInv, Asking, InOrder, InReg, InPort
  <2> QED
    BY <2>1, <2>3 DEF OInv
<1> QED
  BY <1>1, <1>2

LEMMA UnderWayInOrder ==
  ASSUME Numbered, InOrder
  PROVE  LET w == UnderWay
         IN /\ w = [k \in 1 .. Len(w) |-> Plus(sent, k)]
            /\ next = Plus(sent, Len(w) + 1)
<1> DEFINE x == IF fifo_reg = Silence THEN <<>> ELSE <<fifo_reg>>
           y == IF Popping THEN <<>> ELSE <<fifo_out>>
           z == Stored!Contents
           w == (x \o y) \o z
<1>1. /\ x \in Seq(Words) /\ Len(x) = InReg
      /\ InReg = 1 => x[1] = Plus(sent, 1)
  BY DEF Numbered, InOrder, InReg
<1>2. /\ y \in Seq(Words) /\ Len(y) = InPort
      /\ InPort = 1 => y[1] = Plus(sent, InReg + 1)
  BY NumberedMeans DEF InOrder, InPort
<1>3. /\ z \in Seq(Words) /\ Len(z) \in Nat /\ InReg \in 0 .. 1 /\ InPort \in 0 .. 1
  BY NumberedMeans DEF InReg, InPort
<1>4. /\ \A k \in 1 .. Len(z) : z[k] = Plus(sent, InReg + InPort + k)
      /\ next = Plus(sent, InReg + InPort + Len(z) + 1)
  BY DEF InOrder
<1>5. UnderWay = w
  BY SameFifo DEF UnderWay
<1> HIDE DEF x, y, z
<1>6. /\ x \o y \in Seq(Words) /\ Len(x \o y) = InReg + InPort
      /\ \A k \in 1 .. InReg + InPort :
           (x \o y)[k] = IF k <= InReg THEN x[k] ELSE y[k - InReg]
  BY <1>1, <1>2, ConcatProperties
<1>7. \A k \in 1 .. InReg + InPort : (x \o y)[k] = Plus(sent, k)
  BY <1>1, <1>2, <1>3, <1>6
<1>8. /\ w \in Seq(Words) /\ Len(w) = InReg + InPort + Len(z)
      /\ \A k \in 1 .. Len(w) :
           w[k] = IF k <= InReg + InPort THEN (x \o y)[k] ELSE z[k - (InReg + InPort)]
  BY <1>3, <1>6, ConcatProperties
<1>9. \A k \in 1 .. Len(w) : w[k] = Plus(sent, k)
  <2> TAKE k \in 1 .. Len(w)
  <2>1. CASE k <= InReg + InPort
    BY <1>3, <1>7, <1>8, <2>1
  <2>2. CASE ~(k <= InReg + InPort)
    <3>1. /\ k - (InReg + InPort) \in 1 .. Len(z)
          /\ InReg + InPort + (k - (InReg + InPort)) = k
      BY <1>3, <1>8, <2>2
    <3>2. w[k] = z[k - (InReg + InPort)]
      BY <1>8, <2>2
    <3> QED
      BY <1>4, <3>1, <3>2
  <2> QED
    BY <2>1, <2>2
<1>10. w \in [1 .. Len(w) -> Words]
  BY <1>8, LenProperties
<1> HIDE DEF w
<1>11. w = [k \in 1 .. Len(w) |-> Plus(sent, k)]
  BY <1>9, <1>10
<1> QED
  BY <1>4, <1>5, <1>8, <1>11

(* For every depth, divider, frame length and sample period of whole bits: *)
(* no sample that the FIFO of sd_adc_top has accepted is lost, doubled or  *)
(* overtaken on its way to the serial output (adc_soc.v, i2s_master.v),    *)
(* however full the FIFO is and whenever a reset comes.                    *)
THEOREM NoSampleLost == Spec => []NoSampleLostAfterAcceptance
<1>1. OInv => NoSampleLostAfterAcceptance
  BY UnderWayInOrder DEF OInv, EInv, NoSampleLostAfterAcceptance
<1> QED
  BY <1>1, InitOInv, NextOInv, PTL DEF Spec

-----------------------------------------------------------------------------
(* Clocks to the next load of the shift register: bits of the frame that   *)
(* are left, and clocks to the fall of sclk.                               *)
Running == i2s_enable /\ ~device_reset
BitsLeft == IF sclk_counter = 0 THEN 0 ELSE Slots - sclk_counter
ClocksLeft == IF Phase <= Div THEN Div - Phase ELSE Div + Bit - Phase
ToLoad == BitsLeft * Bit + ClocksLeft

(* While it runs, the transmitter loads at the end of every frame, however *)
(* the FIFO is filled, and every load fetches: the word in fifo_reg is     *)
(* sent, and the word in the read port follows if the FIFO has another.    *)
LoadIsNear == Running => ToLoad \in 0 .. Slots * Bit - 1
LoadComesNearer ==
  [][Running /\ ~device_reset' =>
       IF ToLoad = 0 THEN I2s!Load /\ Fetches /\ ToLoad' = Slots * Bit - 1
       ELSE ~I2s!Load /\ ToLoad' = ToLoad - 1]_vars

(* Counting b bits of B clocks: the products, for the solver.              *)
LEMMA Products ==
  ASSUME NEW b \in Nat, NEW B \in Nat, NEW S \in Nat, b < S
  PROVE  /\ b * B \in Nat /\ S * B \in Nat /\ (S - 1) * B = S * B - B
         /\ (b - 1) * B = b * B - B
         /\ b * B <= S * B - B
         /\ b # 0 => b * B >= B
<1>1. b * B \in Nat /\ S * B \in Nat
  OBVIOUS
<1>2. (S - 1) * B = S * B - B /\ (b - 1) * B = b * B - B
  OBVIOUS
<1>3. b * B <= S * B - B
  <2>1. S - 1 - b \in Nat /\ (S - 1 - b) * B \in Nat
    OBVIOUS
  <2>2. (S - 1 - b) * B = S * B - B - b * B
    OBVIOUS
  <2> QED
    BY <1>1, <2>1, <2>2
<1>4. b # 0 => b * B >= B
  <2>1. b # 0 => (b - 1) * B \in Nat
    OBVIOUS
  <2> QED
    BY <1>1, <1>2, <2>1
<1> QED
  BY <1>1, <1>2, <1>3, <1>4

(* A clock of the bit, and the fall of sclk at its middle.                 *)
LEMMA ClocksLeftFall ==
  ASSUME OInv, Next, Running, ~device_reset'
  PROVE  /\ I2s!Fall <=> ClocksLeft = 0
         /\ ClocksLeft \in 0 .. Bit - 1
         /\ ClocksLeft' = IF ClocksLeft = 0 THEN Bit - 1 ELSE ClocksLeft - 1
<1>1. /\ Types /\ en[Div] = (c = 1) /\ ~software_rst /\ ~rst /\ i2s_enable
      /\ Gen!Clock /\ I2s!Sclk
  BY DEF OInv, EInv, IInv, Strobes, Running, device_reset, Next, I2s!Clock
<1>2. Phase' = Next1(Phase, Bit) /\ Phase \in 0 .. Bit - 1
  BY <1>1, PhaseGrows
<1>3. I2s!Fall <=> Phase = Div
  <2>1. Age \in 0 .. Div - 1 /\ (Age = 0 <=> c = 1)
    BY <1>1, AgeIs DEF Types
  <2>2. I2s!Fall <=> Age = 0 /\ sclk
    BY <1>1, <2>1 DEF I2s!Fall
  <2> QED
    BY <2>1, <2>2, RatioAssumption DEF Phase
<1>4. /\ ClocksLeft = 0 <=> Phase = Div
      /\ ClocksLeft \in 0 .. Bit - 1
  BY <1>2, RatioAssumption DEF ClocksLeft, Bit
<1>5. ClocksLeft' = IF Phase' <= Div THEN Div - Phase' ELSE Div + Bit - Phase'
  BY DEF ClocksLeft, Bit
<1>6. ClocksLeft' = IF ClocksLeft = 0 THEN Bit - 1 ELSE ClocksLeft - 1
  <2> HIDE DEF Phase
  <2>1. CASE Phase = Bit - 1
    <3>1. Phase' = 0
      BY <1>2, <2>1 DEF Next1
    <3> QED
      BY <1>5, <2>1, <3>1, RatioAssumption DEF ClocksLeft, Bit
  <2>2. CASE Phase # Bit - 1
    <3>1. Phase' = Phase + 1
      BY <1>2, <2>2 DEF Next1
    <3> QED
      BY <1>2, <1>5, <2>2, <3>1, RatioAssumption DEF ClocksLeft, Bit
  <2> QED
    BY <2>1, <2>2
<1> QED
  BY <1>3, <1>4, <1>6

(* A frame is counted down clock by clock, and its end is a load.          *)
LEMMA LoadStep ==
  ASSUME OInv, Next, Running, ~device_reset'
  PROVE  IF ToLoad = 0 THEN I2s!Load /\ Fetches /\ ToLoad' = Slots * Bit - 1
         ELSE ~I2s!Load /\ ToLoad' = ToLoad - 1
<1> DEFINE S == sclk_counter
<1>1. /\ I2s!Fall <=> ClocksLeft = 0
      /\ ClocksLeft \in 0 .. Bit - 1
      /\ ClocksLeft' = IF ClocksLeft = 0 THEN Bit - 1 ELSE ClocksLeft - 1
  BY ClocksLeftFall
<1>2. Asking /\ IInv /\ ~device_reset
  BY DEF OInv, EInv, Running
<1>3. /\ I2s!ResetSerial \/ I2s!HoldSerial \/ I2s!Load \/ I2s!Shift
      /\ I2s!ResetFetch \/ I2s!HoldFetch \/ I2s!Idle \/ I2s!Fetch
      /\ sclk_counter' = IF I2s!Fall THEN (sclk_counter + 1) % Slots
                         ELSE sclk_counter
  BY <1>2 DEF Next, I2s!Clock, I2s!Sclk
<1>4. S \in 0 .. Slots - 1 /\ Slots \in Nat /\ Slots >= 2 /\ Bit \in Nat /\ Bit >= 4
  BY <1>2, SlotsAssumption, RatioAssumption DEF Asking, Bit
<1>5. BitsLeft \in Nat /\ BitsLeft < Slots /\ (BitsLeft = 0 <=> S = 0)
  BY <1>4 DEF BitsLeft
<1>6. BitsLeft' = IF ~I2s!Fall THEN BitsLeft
                  ELSE IF BitsLeft = 0 THEN Slots - 1 ELSE BitsLeft - 1
  <2>1. BitsLeft' = IF sclk_counter' = 0 THEN 0 ELSE Slots - sclk_counter'
    BY DEF BitsLeft
  <2>2. CASE ~I2s!Fall
    BY <1>3, <2>1, <2>2 DEF BitsLeft
  <2>3. CASE I2s!Fall
    <3>1. sclk_counter' = IF S = Slots - 1 THEN 0 ELSE S + 1
      BY <1>3, <1>4, <2>3
    <3> QED
      BY <1>4, <2>1, <2>3, <3>1 DEF BitsLeft
  <2> QED
    BY <2>2, <2>3
<1>7. ToLoad' = BitsLeft' * Bit + ClocksLeft'
  BY DEF ToLoad, Bit
<1>8. I2s!Load <=> I2s!Fall /\ S = 0
  BY <1>2, <1>3 DEF I2s!ResetSerial, I2s!HoldSerial, I2s!Load, I2s!Shift
<1>9. I2s!Load => Fetches
  <2>1. I2s!Load => I2s!Fetch
    BY <1>2, <1>3, <1>8
       DEF I2s!ResetFetch, I2s!HoldFetch, I2s!Idle, I2s!Fall, Asking
  <2> QED
    BY <1>2, <2>1, FetchIs
<1> DEFINE b == BitsLeft
           k == ClocksLeft
<1>10. /\ b * Bit \in Nat /\ (Slots - 1) * Bit = Slots * Bit - Bit
       /\ (b - 1) * Bit = b * Bit - Bit /\ (b # 0 => b * Bit >= Bit)
  BY <1>4, <1>5, Products
<1>11. ToLoad = b * Bit + k
  BY DEF ToLoad
<1> HIDE DEF b, k
<1>12. ToLoad = 0 <=> b = 0 /\ k = 0
  BY <1>1, <1>4, <1>5, <1>10, <1>11 DEF b, k
<1>13. CASE ToLoad = 0
  <2>1. I2s!Load /\ b = 0 /\ k = 0
    BY <1>1, <1>5, <1>8, <1>12, <1>13 DEF b, k
  <2>2. BitsLeft' = Slots - 1 /\ ClocksLeft' = Bit - 1
    BY <1>1, <1>6, <1>8, <2>1 DEF b, k
  <2>3. ToLoad' = (Slots - 1) * Bit + (Bit - 1)
    BY <1>7, <2>2
  <2>4. ToLoad' = Slots * Bit - 1
    BY <1>4, <1>10, <2>3
  <2> QED
    BY <1>9, <1>13, <2>1, <2>4
<1>14. CASE ToLoad # 0
  <2>1. ~I2s!Load
    BY <1>1, <1>5, <1>8, <1>12, <1>14 DEF b, k
  <2>2. CASE k = 0
    <3>1. BitsLeft' = b - 1 /\ ClocksLeft' = Bit - 1
      BY <1>1, <1>6, <1>12, <1>14, <2>2 DEF b, k
    <3>2. ToLoad' = (b - 1) * Bit + (Bit - 1)
      BY <1>7, <3>1
    <3>3. ToLoad' = ToLoad - 1
      BY <1>4, <1>10, <1>11, <2>2, <3>2
    <3> QED
      BY <1>14, <2>1, <3>3
  <2>3. CASE k # 0
    <3>1. BitsLeft' = b /\ ClocksLeft' = k - 1
      BY <1>1, <1>6, <2>3 DEF b, k
    <3>2. ToLoad' = b * Bit + (k - 1)
      BY <1>7, <3>1
    <3>3. k \in Int
      BY <1>1, <1>4 DEF k
    <3>4. ToLoad' = ToLoad - 1
      BY <1>10, <1>11, <3>2, <3>3
    <3> QED
      BY <1>14, <2>1, <3>4
  <2> QED
    BY <2>2, <2>3
<1> QED
  BY <1>13, <1>14

(* The next load is always less than a frame away.                         *)
LEMMA LoadBound == OInv => LoadIsNear
<1> SUFFICES ASSUME OInv, Running PROVE ToLoad \in 0 .. Slots * Bit - 1
  BY DEF LoadIsNear
<1>1. Types /\ Asking
  BY DEF OInv, EInv, IInv, Running, device_reset
<1>2. Age \in 0 .. Div - 1
  BY <1>1, AgeIs DEF Types
<1>3. Phase \in 0 .. Bit - 1
  BY <1>2, RatioAssumption DEF Phase, Bit
<1>4. ClocksLeft \in 0 .. Bit - 1
  BY <1>3, RatioAssumption DEF ClocksLeft, Bit
<1>5. BitsLeft \in Nat /\ BitsLeft < Slots /\ Slots \in Nat /\ Bit \in Nat
  BY <1>1, SlotsAssumption, RatioAssumption DEF Asking, BitsLeft, Bit
<1> HIDE DEF BitsLeft, ClocksLeft, Bit
<1>6. /\ BitsLeft * Bit \in Nat /\ Slots * Bit \in Nat
      /\ BitsLeft * Bit <= Slots * Bit - Bit
  BY <1>5, Products
<1> QED
  BY <1>4, <1>5, <1>6 DEF ToLoad

(* The transmitter never stalls: the next load is less than a frame away,  *)
(* comes nearer with every clock, and takes the next word on its way.      *)
THEOREM FramesGoOn == Spec => []LoadIsNear /\ LoadComesNearer
<1>1. OInv /\ [Next]_vars
        => [Running /\ ~device_reset' =>
              IF ToLoad = 0 THEN I2s!Load /\ Fetches /\ ToLoad' = Slots * Bit - 1
              ELSE ~I2s!Load /\ ToLoad' = ToLoad - 1]_vars
  BY LoadStep
<1> QED
  BY InitOInv, NextOInv, LoadBound, <1>1, PTL DEF Spec, LoadComesNearer
=============================================================================
