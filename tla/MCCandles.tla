------------------------------ MODULE MCCandles ------------------------------
(***************************************************************************)
(* Candles for TLC: prices 1 to 4, of which 2 is stored as 1 and 3 as 4,   *)
(* so that rounding goes both ways.                                        *)
(***************************************************************************)
EXTENDS Candles

HalfPrices == 1 .. 4
RoundedPrices == [p \in HalfPrices |-> IF p <= 2 THEN 1 ELSE 4]
=============================================================================
