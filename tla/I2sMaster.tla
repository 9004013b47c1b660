----------------------------- MODULE I2sMaster ------------------------------
(***************************************************************************)
(* The I2S transmitter audio/i2s_master.v.  A stereo word of the FIFO is   *)
(* one value; the 64-bit shift register is the word that was loaded into   *)
(* it and the number of bits shifted out since.  See Sfifo for the         *)
(* convention about states and ports.                                      *)
(***************************************************************************)
EXTENDS Naturals

CONSTANTS
  Slots,     \* bits of a frame: 64, of which 24 of each half carry the word
  Words,     \* the words of the FIFO
  Silence    \* 48'h000000000000, as written by the code itself

VARIABLES
  rst, clk_en, mclk_en, sclk_en, fifo_data, fifo_valid,   \* ports
  mclk, sclk, lrclk, sclk_counter, buffer, request_fifo, fifo_ready, fifo_reg

regs == <<mclk, sclk, lrclk, sclk_counter, buffer, request_fifo, fifo_ready, fifo_reg>>

Half == Slots \div 2
Last == Slots - 1

(* The clock at which sclk falls: everything serial happens there.         *)
Fall == clk_en /\ sclk_en /\ sclk

Mclk == mclk' = (~rst /\ (mclk # (clk_en /\ mclk_en)))

Sclk == /\ sclk' = (~rst /\ (sclk # (clk_en /\ sclk_en)))
        /\ sclk_counter' = IF rst THEN Last
                           ELSE IF Fall THEN (sclk_counter + 1) % Slots
                           ELSE sclk_counter

ResetSerial == /\ rst
               /\ lrclk' = TRUE
               /\ buffer' = [word |-> Silence, shifted |-> 0]
               /\ request_fifo' = TRUE

HoldSerial == ~rst /\ ~Fall /\ UNCHANGED <<lrclk, buffer, request_fifo>>

Load == /\ ~rst /\ Fall /\ sclk_counter = 0
        /\ lrclk' = FALSE
        /\ buffer' = [word |-> fifo_reg, shifted |-> 0]
        /\ request_fifo' = FALSE

(* Faulty variant of Shift: lrclk changes with the first bit of a channel, *)
(* not one bit before it.                                                  *)
ShiftLate == /\ ~rst /\ Fall /\ sclk_counter # 0
             /\ lrclk' = (sclk_counter >= Half)
             /\ buffer' = [buffer EXCEPT !.shifted = @ + 1]
             /\ request_fifo' = (request_fifo \/ sclk_counter = Last)

(* Faulty variant of Shift: the next word is not asked for.                *)
ShiftWithoutRequest == /\ ~rst /\ Fall /\ sclk_counter # 0
                       /\ lrclk' = (Half - 1 <= sclk_counter /\ sclk_counter < Last)
                       /\ buffer' = [buffer EXCEPT !.shifted = @ + 1]
                       /\ UNCHANGED request_fifo

Shift == /\ ~rst /\ Fall /\ sclk_counter # 0
         /\ lrclk' = (Half - 1 <= sclk_counter /\ sclk_counter < Last)
         /\ buffer' = [buffer EXCEPT !.shifted = @ + 1]
         /\ request_fifo' = (request_fifo \/ sclk_counter = Last)

ResetFetch == rst /\ fifo_ready' = FALSE /\ fifo_reg' = Silence

(* Nothing is cleared while clk_en is low, fifo_ready included.            *)
HoldFetch == ~rst /\ ~clk_en /\ UNCHANGED <<fifo_ready, fifo_reg>>

Idle == /\ ~rst /\ clk_en /\ ~(Fall /\ request_fifo)
        /\ fifo_ready' = FALSE /\ UNCHANGED fifo_reg

(* Faulty variant of Fetch: an empty FIFO repeats the last word.           *)
FetchRepeats == /\ ~rst /\ Fall /\ request_fifo
                /\ fifo_ready' = fifo_valid
                /\ fifo_reg' = fifo_data

Fetch == /\ ~rst /\ Fall /\ request_fifo
         /\ fifo_ready' = fifo_valid
         /\ fifo_reg' = IF fifo_valid THEN fifo_data ELSE Silence

Clock == /\ Mclk /\ Sclk
         /\ ResetSerial \/ HoldSerial \/ Load \/ Shift
         /\ ResetFetch \/ HoldFetch \/ Idle \/ Fetch

(* The initial block; mclk and fifo_reg are not in it.                     *)
PowerUp == /\ lrclk = TRUE /\ sclk_counter = Last /\ sclk = FALSE
           /\ buffer = [word |-> Silence, shifted |-> 0]
           /\ request_fifo = FALSE /\ fifo_ready = FALSE
           /\ mclk \in BOOLEAN /\ fifo_reg \in Words

-----------------------------------------------------------------------------
(* The I2S alignment that a receiver relies on (tb_i2s_master.v:66-101):   *)
(* lrclk is low for the left channel and changes one bit before the first  *)
(* bit of a channel, counted in bits of the shift register itself and not  *)
(* in the counter that drives lrclk.                                       *)
LrclkOneBitEarly ==
  buffer.word # Silence =>
    (lrclk <=> Half - 1 <= buffer.shifted /\ buffer.shifted < Last)
=============================================================================
