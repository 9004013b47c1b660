----------------------------- MODULE I2sStream ------------------------------
(***************************************************************************)
(* The I2S transmitter and its clock generator, fed as tb_i2s_master.v     *)
(* feeds it: a source shows its next word, keeps it until fifo_ready and   *)
(* then moves on; it may have no word for any time.  Words are numbered.   *)
(* clk_en is up: nothing in the repository switches it while it runs, and  *)
(* i2s_master.v would read a word twice if it fell behind a request.       *)
(***************************************************************************)
EXTENDS Integers

CONSTANTS
  Ratios, Div, Slots,
  Labels,      \* words are numbered 0 .. Labels - 1, again and again
  Silence

ASSUME RatiosAssumption == /\ Div \in Nat \ {0} /\ {4, 16} \subseteq Ratios
                           /\ \A n \in Ratios : n \in Nat \ {0} /\ Div % n = 0
ASSUME SlotsAssumption == Slots \in Nat /\ Slots >= 4 /\ Slots % 2 = 0
ASSUME WordsAssumption == Labels \in Nat \ {0} /\ Silence \notin 0 .. Labels - 1

VARIABLES
  rst, c, en,
  mclk, sclk, lrclk, sclk_counter, buffer, request_fifo, fifo_ready, fifo_reg,
  head, valid,     \* the source: number of its next word, has it arrived
  sent             \* history: number of the last word loaded for sending

vars == <<rst, c, en, mclk, sclk, lrclk, sclk_counter, buffer,
          request_fifo, fifo_ready, fifo_reg, head, valid, sent>>

Words == 0 .. Labels - 1

Gen == INSTANCE ClockGenerator WITH rst <- FALSE, clk_en <- en
I2s == INSTANCE I2sMaster WITH clk_en <- TRUE, mclk_en <- en[4],
         sclk_en <- en[16], fifo_data <- head, fifo_valid <- valid

(* The source drops its word in the clock in which fifo_ready is high.     *)
Source ==
  \/ /\ fifo_ready
     /\ head' = (head + 1) % Labels
     /\ valid' \in BOOLEAN
  \/ /\ ~fifo_ready
     /\ valid' \in {v \in BOOLEAN : valid => v}
     /\ UNCHANGED head

Sending == I2s!Load /\ fifo_reg # Silence

Record == sent' = IF rst THEN (head' - 1) % Labels
                  ELSE IF Sending THEN fifo_reg ELSE sent

Init == /\ rst = TRUE
        /\ Gen!Anywhere /\ I2s!PowerUp
        /\ head = 0 /\ valid \in BOOLEAN /\ sent = Labels - 1

Next == /\ rst' \in BOOLEAN
        /\ Gen!Clock /\ I2s!Clock /\ Source /\ Record

Spec == Init /\ [][Next]_vars

-----------------------------------------------------------------------------
(* The alignment of i2s_master.v holds from the release of the reset on.   *)
LrclkOneBitEarly == ~rst => I2s!LrclkOneBitEarly

Next1(n) == (n + 1) % Labels

(* Every word the source gave is sent once, in the order given, whatever   *)
(* the gaps between them: the words that have left the source and not yet  *)
(* been sent are at most one, in fifo_reg.                                 *)
EveryWordSentOnce ==
  ~rst =>
    IF fifo_reg = Silence THEN head = Next1(sent)
    ELSE /\ fifo_reg = Next1(sent)
         /\ head = IF fifo_ready THEN fifo_reg ELSE Next1(fifo_reg)

(* The bit clock stays locked to the master clock of the codec: sclk only  *)
(* ever changes together with mclk, after a reset at any phase too.        *)
SclkOnMclkEdge == [][sclk' # sclk /\ ~rst => mclk' # mclk]_vars
=============================================================================
