----------------------------- MODULE AdcPolling -----------------------------
(***************************************************************************)
(* The programs that read the ADC, and the samples that come meanwhile:    *)
(*   tb_sigma_delta  the "Fake CPU" of tb_sigma_delta.v polls STATUS and,  *)
(*                   when a sample is announced, reads address 0, which is *)
(*                   CTRL, although its comment says DATA;                 *)
(*   tb_wb           the last loop of tb_wb.v reads DATA again and again;  *)
(*   cpu             software on the processor may read anything.          *)
(* A program may pause between two accesses.  A strobe lasts 1 clock from  *)
(* the CPU's bus gateway (neorv32_xbus.vhd), 2 clocks in tb_wb.v and 3 in  *)
(* tb_sigma_delta.v: the register file performs a read in each.            *)
(***************************************************************************)
EXTENDS Integers

CONSTANTS
  R,         \* clocks from sample to sample
  Labels,    \* samples are numbered 0 .. Labels - 1, again and again
  MaxPause   \* bound: clocks between two accesses

ASSUME PollingAssumption == MaxPause \in Nat /\ Labels \in Nat \ {0} /\ R \in Nat \ {0}

VARIABLES
  timer, number, adc_valid,                     \* the decimator
  data_latched, data_ready, wb_data, wb_ack,    \* AdcWbRegfile
  adc_enable, adc_soft_rst, continuous_mode, file,
  program,                                      \* which of the three it is
  access, clock, announced,                     \* the program
  unread, collided  \* history of the newest sample: no read has returned it;
                    \* it came in a clock in which DATA was strobed

vars == <<timer, number, adc_valid, data_latched, data_ready, wb_data, wb_ack,
          adc_enable, adc_soft_rst, continuous_mode, file, program,
          access, clock, announced, unread, collided>>

Programs == {"tb_sigma_delta", "tb_wb", "cpu"}

(* Numbers are words that share no bit with the flags of the registers.    *)
Bits == 0 .. Labels + 2
Sample(n) == {n + 3}

None == 99
strobeClocks == CASE program = "tb_sigma_delta" -> 3
                  [] program = "tb_wb" -> 2
                  [] OTHER -> 1
Strobe == access # None /\ clock < strobeClocks

Adc == INSTANCE AdcWbRegfile WITH
         AdcWords <- {Sample(n) : n \in 0 .. Labels - 1}, Addresses <- {0, 1, 2},
         Written <- {}, LowHalf <- Bits, Reset256 <- {}, DeadBeef <- Bits,
         rst <- FALSE, wb_cyc_i <- Strobe, wb_stb_i <- Strobe, wb_we_i <- FALSE,
         wb_addr_i <- access, wb_data_i <- {}, adc_data_i <- Sample(number),
         adc_valid_i <- adc_valid, wb_data_o <- wb_data, wb_ack_o <- wb_ack,
         adc_enable_o <- adc_enable, adc_soft_rst_o <- adc_soft_rst,
         continuous_mode_o <- continuous_mode

Decimator == /\ timer' = (timer + 1) % R
             /\ adc_valid' = (timer = 0)
             /\ number' = IF timer = 0 THEN (number + 1) % Labels ELSE number

Pause == /\ access = None /\ clock < MaxPause
         /\ clock' = clock + 1
         /\ UNCHANGED <<access, announced>>

(* Faulty variant of FakeCpu: it reads DATA.                               *)
FakeCpuReadsData == program = "tb_sigma_delta" /\ access' = IF announced THEN 2 ELSE 1

(* The next access: its address, over 4.                                   *)
FakeCpu == program = "tb_sigma_delta" /\ access' = IF announced THEN 0 ELSE 1
ReadLoop == program = "tb_wb" /\ access' = 2
Software == program = "cpu" /\ access' \in 0 .. 2

Ask == /\ access = None
       /\ FakeCpu \/ ReadLoop \/ Software
       /\ clock' = 0
       /\ UNCHANGED announced

(* The data is taken when the acknowledge is first seen.                   *)
Wait == /\ access # None
        /\ announced' = IF wb_ack /\ clock = 1
                        THEN access = Adc!STATUS /\ 0 \in wb_data ELSE announced
        /\ IF clock >= 1 /\ clock + 1 >= strobeClocks
           THEN access' = None /\ clock' = 0
           ELSE UNCHANGED access /\ clock' = clock + 1

ReadsData == Adc!Reads(Adc!DATA)

Record == /\ unread' = (adc_valid \/ (unread /\ ~(ReadsData /\ clock = 0)))
          /\ collided' = IF adc_valid THEN ReadsData ELSE collided

Init == /\ timer \in 0 .. R - 1 /\ number = 0 /\ adc_valid = FALSE
        /\ Adc!PowerUp
        /\ program \in Programs
        /\ access = None /\ clock = 0 /\ announced = FALSE
        /\ unread = FALSE /\ collided = FALSE

Next == /\ Pause \/ Ask \/ Wait
        /\ Decimator /\ Adc!Clock /\ Record /\ UNCHANGED program

Spec == Init /\ [][Next]_vars /\ WF_vars(Next)

-----------------------------------------------------------------------------
(* A sample that STATUS announces has not been returned by any read:       *)
(* no program takes the same sample for two.                               *)
ReadyMeansNew == data_ready => unread

(* A sample that no read has returned is still announced, unless it came   *)
(* in the very clock of a DATA strobe: then the read wins the flag and the *)
(* sample is never announced.                                              *)
LostOnlyInReadStrobe == unread => data_ready \/ collided

(* The loop of tb_wb.v answers every announcement: the flag does not stay  *)
(* up for ever.                                                            *)
ReadyIsRead == program = "tb_wb" /\ data_ready ~> ~data_ready

(* "Fake CPU: poll STATUS then read DATA" (tb_sigma_delta.v:201): but the  *)
(* address that it reads is that of CTRL, so that no sample it polls is    *)
(* ever taken, at whatever phase of its strobes the sample comes.          *)
FakeCpuTakesNothing == [][program = "tb_sigma_delta" /\ data_ready => data_ready']_vars
=============================================================================
