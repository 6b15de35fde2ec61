------------------------------- MODULE MCFeed -------------------------------
(***************************************************************************)
(* Feed for TLC: three tickers, the first two in one candle of the longer   *)
(* duration, of which the second begins a candle of the shorter one.       *)
(***************************************************************************)
EXTENDS Feed

ThreeTickers ==
    << [time |-> 0, price |-> 1], [time |-> 1, price |-> 2], [time |-> 2, price |-> 1] >>
TwoPrices == {1, 2}
SamePrices == [p \in TwoPrices |-> p]
=============================================================================
