------------------------------ MODULE SdAdcTop ------------------------------
(***************************************************************************)
(* The sample path of sd_adc_top (adc/adc_soc.v): the decimator writes the *)
(* FIFO, the I2S transmitter reads it.  The FIFO has a registered read     *)
(* port and the transmitter takes the word before the one it asks for, so  *)
(* that two words are on their way outside the FIFO.  Accepted samples are *)
(* numbered, which is all that is said about their value.                  *)
(***************************************************************************)
EXTENDS Integers, Sequences

CONSTANTS
  R,             \* decimation ratio, 2^OSR_BITS
  Depth,         \* FIFO words, 2^FIFO_LEN_BITS
  Slots, Div,    \* bits of an I2S frame, clocks of the slowest enable
  Labels,        \* samples are numbered 0 .. Labels - 1, again and again
  Silence

(* More numbers than words under way: equal numbers are the same sample.   *)
(* Silence is the word that the transmitter makes up itself.               *)
ASSUME LabelsAssumption == /\ Labels \in Nat /\ Labels > Depth + 3
                           /\ Silence \notin 0 .. Labels - 1

(* The last bit of a frame, which asks for the next word, is not the first.*)
ASSUME SlotsAssumption == Slots \in Nat /\ Slots >= 2

(* A sample lasts a whole number of I2S bits, two enables each: 256 clocks *)
(* and 32 in the SoC.  OSR_BITS >= 5 is enough, all being powers of two.   *)
ASSUME RatioAssumption == /\ Div \in Nat /\ Div >= 2
                          /\ R \in Nat \ {0} /\ R % (2 * Div) = 0
                          /\ Depth \in Nat \ {0}

VARIABLES
  rst,
  software_rst, i2s_enable,   \* wires that nothing drives
  cnt, ce_dec, adc_valid,     \* cic_decimator.v: when samples come
  wr_addr, rd_addr, fifo_mem, fifo_out, fifo_read_sync,
  c, en,                      \* clock_generator.v
  mclk, sclk, lrclk, sclk_counter, buffer, request_fifo, fifo_ready, fifo_reg,
  next, sent                  \* history: numbers of the next sample to be
                              \* accepted and of the last one sent

vars == <<rst, software_rst, i2s_enable, cnt, ce_dec, adc_valid, wr_addr,
          rd_addr, fifo_mem, fifo_out, fifo_read_sync, c, en, mclk, sclk, lrclk,
          sclk_counter, buffer, request_fifo, fifo_ready, fifo_reg, next, sent>>

Words == 0 .. Labels - 1
Plus(w, n) == (w + n) % Labels

device_reset == rst \/ software_rst

fifo_full == (wr_addr - rd_addr) % (2 * Depth) = Depth     \* o_full of the FIFO
fifo_empty == wr_addr = rd_addr                            \* and o_empty

(* Faulty variant of fifo_write: nothing is written.                       *)
fifo_writeNever == adc_valid /\ FALSE

fifo_write == adc_valid /\ ~fifo_full

Cic == INSTANCE CicDecimator
         WITH Half <- 1, Dropped <- 1, rstn <- ~rst, data_in <- 0, int <- 0,
              comb <- 0, comb_d <- 0, data_out <- next, out_valid <- adc_valid
Fifo == INSTANCE Sfifo
          WITH Data <- Words, i_rst <- device_reset, i_wr <- fifo_write,
               i_data <- next, i_rd <- fifo_read_sync, o_data <- fifo_out
Gen == INSTANCE ClockGenerator
         WITH Ratios <- {Div}, rst <- software_rst, clk_en <- en
I2s == INSTANCE I2sMaster
         WITH rst <- device_reset, clk_en <- i2s_enable, mclk_en <- en[Div],
              sclk_en <- en[Div], fifo_data <- fifo_out, fifo_valid <- ~fifo_empty

(* Faulty variant of Decimator: the strobe comes one clock early.          *)
DecimatorEarly == Cic!Decimate /\ adc_valid' = (~Cic!InReset /\ cnt = 0)

(* The timing of the decimator: its arithmetic is CicIdeal's.              *)
Decimator == Cic!Decimate /\ adc_valid' = (~Cic!InReset /\ ce_dec)

(* Faulty variant of ReadSync: the strobe lasts several clocks.            *)
ReadSyncLong == fifo_read_sync' = (~Fifo!InReset /\ (fifo_ready \/ (fifo_read_sync /\ ~sclk)))

(* The read strobe is delayed by one clock.                                *)
ReadSync == fifo_read_sync' = (~Fifo!InReset /\ fifo_ready)

(* The sample at the decimator's output keeps its number until the FIFO    *)
(* has taken one.  After a reset the word left in the read port is sent    *)
(* once more, before the first sample: it counts as sample next - 1.       *)
Record ==
  /\ next' = IF Fifo!InReset THEN Plus(fifo_out', 1)
             ELSE IF wr_addr' # wr_addr THEN Plus(next, 1) ELSE next
  /\ sent' = IF Fifo!InReset THEN Plus(fifo_out', -1)
             ELSE IF I2s!Load /\ fifo_reg # Silence THEN fifo_reg ELSE sent

Init == /\ rst = TRUE /\ software_rst \in BOOLEAN /\ i2s_enable \in BOOLEAN
        /\ cnt = 0 /\ ce_dec = FALSE /\ adc_valid = FALSE
        /\ wr_addr = 0 /\ rd_addr = 0 /\ fifo_read_sync = FALSE
        /\ fifo_mem = [s \in Fifo!Addresses |-> 0] /\ fifo_out = 0
        /\ Gen!Anywhere /\ I2s!PowerUp /\ fifo_reg = 0
        /\ next = 1 /\ sent = Labels - 1

Next == /\ rst' \in BOOLEAN /\ UNCHANGED <<software_rst, i2s_enable>>
        /\ Decimator /\ ReadSync /\ Fifo!Clock /\ Gen!Clock /\ I2s!Clock
        /\ Record

Spec == Init /\ [][Next]_vars /\ WF_vars(Next)

-----------------------------------------------------------------------------
(* A pop is under way from the request until the read port has changed:    *)
(* meanwhile the port still holds the word that fifo_reg has taken.        *)
Popping == fifo_ready \/ fifo_read_sync

UnderWay == (IF fifo_reg = Silence THEN <<>> ELSE <<fifo_reg>>)
              \o (IF Popping THEN <<>> ELSE <<fifo_out>>)
              \o Fifo!Contents

(* The words between the last one sent and the next one to be accepted are *)
(* all there, once each and in order, in the transmitter's input register, *)
(* the read port and the FIFO: no accepted sample is lost, doubled or      *)
(* overtaken on its way to the serial output, however often the FIFO runs  *)
(* empty or full, and after a reset at any moment.                         *)
NoSampleLostAfterAcceptance ==
  ~device_reset =>
    /\ UnderWay = [k \in 1 .. Len(UnderWay) |-> Plus(sent, k)]
    /\ next = Plus(sent, Len(UnderWay) + 1)

(* The FIFO is never asked for a word it does not have, although the       *)
(* request was decided two clocks before the read: the memory word under   *)
(* the read pointer of an empty FIFO is never sent.                        *)
ReadOnlyNonEmpty == fifo_read_sync => ~fifo_empty

(* "write when valid and not full" (adc_soc.v:99): a sample that is        *)
(* offered while there is room is stored.                                  *)
StoredWhenNotFull == [][fifo_write /\ ~Fifo!InReset => wr_addr' # wr_addr]_vars

(* Every sample in the FIFO is sent, if the transmitter is enabled and is  *)
(* not reset first.                                                        *)
AcceptedIsSent ==
  \A w \in Words :
    (i2s_enable /\ \E k \in DOMAIN Fifo!Contents : Fifo!Contents[k] = w)
      ~> (sent = w \/ device_reset)

(* Eight samples come for every frame that is sent: the FIFO fills up and  *)
(* from then on is never more than one word short of full, so that every   *)
(* frame is a whole FIFO late and seven samples of eight are refused.      *)
FifoStaysFull ==
  <>[]~device_reset => <>[](Fifo!o_fill >= Depth - 1)
=============================================================================
