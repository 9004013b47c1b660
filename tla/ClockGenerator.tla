--------------------------- MODULE ClockGenerator ---------------------------
(***************************************************************************)
(* The clock enables of audio/clock_generator.v: for each ratio n, one     *)
(* clock in n, from one free-running counter.                              *)
(***************************************************************************)
EXTENDS Naturals

CONSTANTS
  Ratios,   \* {2, 4, 8, 16}
  Div       \* the period of the counter, 16: a multiple of every ratio

VARIABLES rst, c, clk_en

regs == <<c, clk_en>>

(* Faulty variant of Clock: the slowest enable comes one clock late.       *)
ClockSkewed == /\ c' = IF rst THEN 0 ELSE (c + 1) % Div
               /\ clk_en' = [n \in Ratios |-> ~rst /\ c % n = IF n = Div THEN 1 ELSE 0]

Clock == /\ c' = IF rst THEN 0 ELSE (c + 1) % Div
         /\ clk_en' = [n \in Ratios |-> ~rst /\ c % n = 0]

(* Its reset is not the one of the circuit it feeds: when that one is      *)
(* released the counter is anywhere.                                       *)
Anywhere == /\ c \in 0 .. Div - 1
            /\ clk_en = [n \in Ratios |-> (c + Div - 1) % n = 0]
=============================================================================
