------------------------------ MODULE I2sProofs ------------------------------
(***************************************************************************)
(* Proofs about I2sStream for every frame length, every period of the      *)
(* clock generator and every numbering of the words: frames are aligned,   *)
(* words are sent once each and in order, and sclk moves with mclk.        *)
(***************************************************************************)
EXTENDS I2sStream, TLAPS

(* Where the serial side stands: the bit counter is one ahead of the shift *)
(* register, and lrclk is what the counter made of it.                     *)
Aligned == /\ sclk_counter \in 0 .. Slots - 1
           /\ buffer.word # Silence =>
                /\ buffer.shifted = IF sclk_counter = 0 THEN Slots - 1 ELSE sclk_counter - 1
                /\ lrclk <=> /\ Slots \div 2 - 1 <= buffer.shifted
                             /\ buffer.shifted < Slots - 1

(* When words are asked for: with the last bit of a frame, and once more   *)
(* at the first bit after a reset, when there is no word in fifo_reg.  The *)
(* word is acknowledged while sclk is low, so never twice.                 *)
Asking == /\ sclk_counter = 0 => request_fifo
          /\ request_fifo /\ sclk_counter # 0 =>
               sclk_counter = Slots - 1 /\ fifo_reg = Silence
          /\ fifo_ready => ~sclk /\ fifo_reg # Silence

(* Both bit clocks come from one counter: 4 divides 16.                    *)
Enables == /\ c \in Int /\ mclk \in BOOLEAN /\ sclk \in BOOLEAN
           /\ en[4] \in BOOLEAN /\ en[16] \in BOOLEAN
           /\ en[16] => en[4]

Numbers == head \in Words /\ (valid \in BOOLEAN)

IInv == /\ Aligned /\ Enables /\ Numbers
        /\ ~rst => Asking /\ EveryWordSentOnce

-----------------------------------------------------------------------------
LEMMA FallIs == I2s!Fall <=> en[16] /\ sclk
  BY DEF I2s!Fall

(* Numbering modulo Labels.                                                *)
LEMMA NumberingIs ==
  ASSUME NEW n \in Words
  PROVE  Next1(n) \in Words /\ (n - 1) % Labels \in Words
         /\ Next1((n - 1) % Labels) = n
<1>1. (n - 1) % Labels = IF n = 0 THEN Labels - 1 ELSE n - 1
  BY WordsAssumption DEF Words
<1>2. \A k \in Words : (k + 1) % Labels = IF k = Labels - 1 THEN 0 ELSE k + 1
  BY WordsAssumption DEF Words
<1> QED
  BY <1>1, <1>2, WordsAssumption DEF Words, Next1

LEMMA NextEnables ==
  ASSUME Enables, Next
  PROVE  Enables'
<1>1. c' = (c + 1) % Div /\ en'[4] = (c % 4 = 0) /\ en'[16] = (c % 16 = 0)
  BY RatiosAssumption DEF Next, Gen!Clock
<1>2. c \in Int /\ c' \in Int
  BY <1>1, RatiosAssumption DEF Enables
<1>3. c % 16 = 0 => c % 4 = 0
  BY <1>2
<1>4. mclk' \in BOOLEAN /\ sclk' \in BOOLEAN
  BY DEF Next, I2s!Clock, I2s!Mclk, I2s!Sclk
<1> QED
  BY <1>1, <1>2, <1>3, <1>4 DEF Enables

(* The bit clocks toggle with their enables.                               *)
LEMMA ClocksToggle ==
  ASSUME Enables, Next, ~rst
  PROVE  /\ sclk' \in BOOLEAN /\ (sclk' <=> ~(sclk <=> en[16]))
         /\ mclk' \in BOOLEAN /\ (mclk' <=> ~(mclk <=> en[4]))
<1> DEFINE sclk_edge == TRUE /\ en[16]
           mclk_edge == TRUE /\ en[4]
<1>1. sclk' = (~rst /\ (sclk # sclk_edge)) /\ mclk' = (~rst /\ (mclk # mclk_edge))
  BY DEF Next, I2s!Clock, I2s!Sclk, I2s!Mclk
<1>2. /\ sclk \in BOOLEAN /\ sclk_edge \in BOOLEAN /\ (sclk_edge <=> en[16])
      /\ mclk \in BOOLEAN /\ mclk_edge \in BOOLEAN /\ (mclk_edge <=> en[4])
  BY DEF Enables
<1> HIDE DEF sclk_edge, mclk_edge
<1>3. /\ (sclk # sclk_edge) <=> ~(sclk <=> sclk_edge)
      /\ (mclk # mclk_edge) <=> ~(mclk <=> mclk_edge)
  BY <1>2
<1> QED
  BY <1>1, <1>2, <1>3

(* The count of bits, without the remainder.                               *)
LEMMA CountIs ==
  ASSUME NEW n \in 0 .. Slots - 1
  PROVE  /\ (n + 1) % Slots = IF n = Slots - 1 THEN 0 ELSE n + 1
         /\ (n + 1) % Slots \in 0 .. Slots - 1
BY SlotsAssumption

LEMMA NextAligned ==
  ASSUME Aligned, Next
  PROVE  Aligned'
<1>1. /\ I2s!Sclk
      /\ I2s!ResetSerial \/ I2s!HoldSerial \/ I2s!Load \/ I2s!Shift
  BY DEF Next, I2s!Clock
<1>2. sclk_counter' = IF rst THEN Slots - 1
                      ELSE IF I2s!Fall THEN (sclk_counter + 1) % Slots
                      ELSE sclk_counter
  BY <1>1 DEF I2s!Sclk, I2s!Last
<1>3. sclk_counter \in 0 .. Slots - 1 /\ sclk_counter' \in 0 .. Slots - 1
  BY <1>2, CountIs, SlotsAssumption DEF Aligned
<1>4. CASE I2s!ResetSerial
  <2>1. buffer'.word = Silence
    BY <1>4 DEF I2s!ResetSerial
  <2> QED
    BY <1>3, <2>1 DEF Aligned
<1>5. CASE I2s!HoldSerial
  BY <1>2, <1>3, <1>5 DEF I2s!HoldSerial, Aligned
<1>6. CASE I2s!Load
  <2>1. sclk_counter' = 1 /\ buffer'.shifted = 0 /\ lrclk' = FALSE
    BY <1>2, <1>6, CountIs, SlotsAssumption DEF I2s!Load
  <2>2. ~(Slots \div 2 - 1 <= 0)
    BY SlotsAssumption
  <2> QED
    BY <1>3, <2>1, <2>2 DEF Aligned
<1>7. CASE I2s!Shift
  <2>1. /\ ~rst /\ I2s!Fall /\ sclk_counter # 0
        /\ lrclk' <=> Slots \div 2 - 1 <= sclk_counter /\ sclk_counter < Slots - 1
        /\ buffer' = [buffer EXCEPT !.shifted = @ + 1]
    BY <1>7 DEF I2s!Shift, I2s!Half, I2s!Last
  <2>2. buffer'.word # Silence =>
          buffer.word # Silence /\ buffer'.shifted = buffer.shifted + 1
    BY <2>1
  <2> QED
    BY <1>2, <1>3, <2>1, <2>2, CountIs, SlotsAssumption DEF Aligned
<1> QED
  BY <1>1, <1>4, <1>5, <1>6, <1>7

(* What a clock does to the words, outside of reset: a fall of sclk with a *)
(* request takes a word, and sends the one before it if there is one.      *)
LEMMA NextWords ==
  ASSUME IInv, Next, ~rst
  PROVE  /\ Numbers' /\ EveryWordSentOnce' /\ Asking'
<1>1. /\ Asking /\ Numbers /\ Enables /\ Aligned
      /\ IF fifo_reg = Silence THEN head = Next1(sent)
         ELSE /\ fifo_reg = Next1(sent)
              /\ head = IF fifo_ready THEN fifo_reg ELSE Next1(fifo_reg)
  BY DEF IInv, EveryWordSentOnce
<1>2. /\ sent' = IF Sending THEN fifo_reg ELSE sent
      /\ sclk' <=> ~(sclk <=> en[16])
      /\ sclk_counter' = IF I2s!Fall THEN (sclk_counter + 1) % Slots ELSE sclk_counter
      /\ I2s!HoldSerial \/ I2s!Load \/ I2s!Shift
      /\ I2s!Idle \/ I2s!Fetch
  <2>2. sclk' <=> ~(sclk <=> en[16])
    BY <1>1, ClocksToggle
  <2>3. sclk_counter' = IF I2s!Fall THEN (sclk_counter + 1) % Slots ELSE sclk_counter
    BY DEF Next, I2s!Clock, I2s!Sclk
  <2>4. /\ I2s!HoldSerial \/ I2s!Load \/ I2s!Shift
        /\ I2s!Idle \/ I2s!Fetch
    BY DEF Next, I2s!Clock, I2s!ResetSerial, I2s!ResetFetch, I2s!HoldFetch
  <2>5. sent' = IF Sending THEN fifo_reg ELSE sent
    BY DEF Next, Record
  <2> QED
    BY <2>2, <2>3, <2>4, <2>5
<1>3. head' = IF fifo_ready THEN Next1(head) ELSE head
  BY DEF Next, Source, Next1
<1>4. head \in Words /\ Next1(head) \in Words /\ head # Silence
  BY <1>1, NumberingIs, WordsAssumption DEF Numbers, Words
<1>5. Numbers'
  <2>1. valid' \in BOOLEAN
    BY DEF Next, Source
  <2>2. head' \in Words
    BY <1>3, <1>4
  <2> QED
    BY <2>1, <2>2 DEF Numbers
<1>6. Sending <=> I2s!Fall /\ sclk_counter = 0 /\ fifo_reg # Silence
  BY <1>2 DEF Sending, I2s!Load, I2s!HoldSerial, I2s!Shift
<1>7. /\ (sclk_counter + 1) % Slots = IF sclk_counter = Slots - 1 THEN 0 ELSE sclk_counter + 1
      /\ sclk_counter \in 0 .. Slots - 1
  BY <1>1, CountIs DEF Aligned
<1>8. CASE I2s!Fetch
  <2>1. /\ I2s!Fall /\ request_fifo /\ sclk /\ ~fifo_ready /\ ~sclk'
        /\ fifo_ready' = valid /\ fifo_reg' = IF valid THEN head ELSE Silence
    BY <1>1, <1>2, <1>8, FallIs DEF I2s!Fetch, Asking
  <2>2. EveryWordSentOnce'
    <3>1. head' = head /\ head = Next1(sent')
      BY <1>1, <1>2, <1>3, <1>6, <2>1 DEF Asking
    <3> QED
      BY <1>4, <2>1, <3>1 DEF EveryWordSentOnce, Next1
  <2>3. Asking'
    <3>1. CASE sclk_counter = 0
      <4>1. I2s!Load
        BY <1>2, <2>1, <3>1 DEF I2s!HoldSerial, I2s!Shift
      <4>2. ~request_fifo' /\ sclk_counter' = 1
        BY <1>2, <1>7, <2>1, <3>1, <4>1, SlotsAssumption DEF I2s!Load
      <4> QED
        BY <1>4, <2>1, <4>2 DEF Asking
    <3>2. CASE sclk_counter # 0
      <4>1. I2s!Shift
        BY <1>2, <2>1, <3>2 DEF I2s!HoldSerial, I2s!Load
      <4>2. sclk_counter' = 0 /\ request_fifo'
        BY <1>1, <1>2, <1>7, <2>1, <3>2, <4>1 DEF I2s!Shift, Asking
      <4> QED
        BY <1>4, <2>1, <4>2 DEF Asking
    <3> QED
      BY <3>1, <3>2
  <2> QED
    BY <1>5, <2>2, <2>3
<1>9. CASE I2s!Idle
  <2>1. ~(I2s!Fall /\ request_fifo) /\ fifo_ready' = FALSE /\ fifo_reg' = fifo_reg
    BY <1>9 DEF I2s!Idle
  <2>2. ~Sending /\ sent' = sent
    BY <1>1, <1>2, <1>6, <2>1 DEF Asking
  <2>3. EveryWordSentOnce'
    BY <1>1, <1>3, <2>1, <2>2 DEF EveryWordSentOnce, Asking, Next1
  <2>4. Asking'
    <3>1. CASE I2s!HoldSerial
      BY <1>1, <1>2, <2>1, <3>1 DEF I2s!HoldSerial, Asking
    <3>2. CASE I2s!Load
      BY <1>1, <2>1, <3>2 DEF I2s!Load, Asking
    <3>3. CASE I2s!Shift
      <4>1. /\ I2s!Fall /\ ~request_fifo /\ sclk_counter # 0
            /\ request_fifo' <=> sclk_counter = Slots - 1
        BY <2>1, <3>3 DEF I2s!Shift, I2s!Last
      <4> QED
        BY <1>2, <1>7, <2>1, <4>1, SlotsAssumption DEF Asking
    <3> QED
      BY <1>2, <3>1, <3>2, <3>3
  <2> QED
    BY <1>5, <2>3, <2>4
<1> QED
  BY <1>2, <1>8, <1>9

(* A clock in reset: the serial side starts over, and whatever word was    *)
(* on its way counts as sent.                                              *)
LEMMA ResetWords ==
  ASSUME IInv, Next, rst
  PROVE  Numbers' /\ EveryWordSentOnce' /\ Asking'
<1>1. /\ fifo_ready' = FALSE /\ fifo_reg' = Silence
      /\ sclk_counter' = Slots - 1 /\ request_fifo' = TRUE
  BY DEF Next, I2s!Clock, I2s!ResetFetch, I2s!HoldFetch, I2s!Idle, I2s!Fetch, I2s!Sclk,
         I2s!ResetSerial, I2s!HoldSerial, I2s!Load, I2s!Shift, I2s!Last
<1>2. head \in Words
  BY DEF IInv, Numbers
<1>3. head' \in Words /\ valid' \in BOOLEAN
  <2>1. head' = Next1(head) \/ head' = head
    BY DEF Next, Source, Next1
  <2>2. valid' \in BOOLEAN
    BY DEF Next, Source
  <2> QED
    BY <1>2, <2>1, <2>2, NumberingIs
<1>4. sent' = (head' - 1) % Labels
  BY DEF Next, Record
<1>5. Next1(sent') = head'
  BY <1>3, <1>4, NumberingIs
<1> QED
  BY <1>1, <1>3, <1>5, SlotsAssumption DEF Numbers, EveryWordSentOnce, Asking, Next1

LEMMA Invariance == Spec => []IInv
<1>1. Init => IInv
  <2> SUFFICES ASSUME Init PROVE IInv
    OBVIOUS
  <2>1. Aligned
    BY SlotsAssumption DEF Init, I2s!PowerUp, Aligned, I2s!Last
  <2>2. Enables
    <3>1. /\ c \in 0 .. Div - 1 /\ en[4] = ((c + Div - 1) % 4 = 0)
          /\ en[16] = ((c + Div - 1) % 16 = 0)
      BY RatiosAssumption DEF Init, Gen!Anywhere
    <3>2. (c + Div - 1) % 16 = 0 => (c + Div - 1) % 4 = 0
      BY <3>1, RatiosAssumption
    <3>3. c \in Int /\ mclk \in BOOLEAN /\ sclk \in BOOLEAN
      <4>1. c \in Int
        BY <3>1, RatiosAssumption
      <4>2. mclk \in BOOLEAN /\ sclk \in BOOLEAN
        BY Zenon DEF Init, I2s!PowerUp
      <4> QED
        BY <4>1, <4>2
    <3>4. en[4] \in BOOLEAN /\ en[16] \in BOOLEAN
      BY <3>1
    <3> QED
      BY <3>1, <3>2, <3>3, <3>4 DEF Enables
  <2>3. Numbers
    BY WordsAssumption DEF Init, Numbers, Words
  <2> QED
    BY <2>1, <2>2, <2>3 DEF Init, IInv
<1>2. IInv /\ [Next]_vars => IInv'
  <2>1. ASSUME IInv, Next PROVE IInv'
    BY <2>1, NextAligned, NextEnables, NextWords, ResetWords DEF IInv
  <2>2. ASSUME IInv, UNCHANGED vars PROVE IInv'
    BY <2>2 DEF vars, IInv, Aligned, Enables, Numbers, Asking, EveryWordSentOnce, Next1
  <2> QED
    BY <2>1, <2>2
<1> QED
  BY <1>1, <1>2, PTL DEF Spec

-----------------------------------------------------------------------------
(* For every frame length: lrclk changes one bit before a channel starts.  *)
THEOREM FramesAreAligned == Spec => []LrclkOneBitEarly
<1>1. IInv => LrclkOneBitEarly
  BY DEF IInv, Aligned, LrclkOneBitEarly, I2s!LrclkOneBitEarly, I2s!Half, I2s!Last
<1> QED
  BY Invariance, <1>1, PTL

(* For every frame length: each word of the source is sent once, in order, *)
(* with any gaps between them, after a reset in any clock.                 *)
THEOREM WordsInOrder == Spec => []EveryWordSentOnce
<1>1. IInv => EveryWordSentOnce
  BY DEF IInv, EveryWordSentOnce
<1> QED
  BY Invariance, <1>1, PTL

(* For every period of the generator: an edge of sclk is one of mclk.      *)
THEOREM ClocksAreLocked == Spec => SclkOnMclkEdge
<1>1. IInv /\ [Next]_vars => [sclk' # sclk /\ ~rst => mclk' # mclk]_vars
  <2> SUFFICES ASSUME IInv, Next, sclk' # sclk, ~rst PROVE mclk' # mclk
    OBVIOUS
  <2>1. Enables
    BY DEF IInv
  <2>2. /\ sclk' \in BOOLEAN /\ (sclk' <=> ~(sclk <=> en[16]))
        /\ mclk' <=> ~(mclk <=> en[4])
    BY <2>1, ClocksToggle
  <2>3. en[16] /\ en[4]
    BY <2>1, <2>2 DEF Enables
  <2> QED
    BY <2>2, <2>3
<1> QED
  BY Invariance, <1>1, PTL DEF Spec, SclkOnMclkEdge
=============================================================================
