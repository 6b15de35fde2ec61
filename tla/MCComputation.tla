--------------------------- MODULE MCComputation ---------------------------
(***************************************************************************)
(* Computation for TLC.  For orders, an account that can pay for less than *)
(* the smallest, for several, or for nothing; for each back test, enough   *)
(* readings for every order of its lines, on both sides of each threshold  *)
(* and on it; for the choice of indicators, profits below, at and above    *)
(* the constant performance of EMA and MACD, in every combination.         *)
(***************************************************************************)
EXTENDS Computation

Accounts == {0, 10, 31, 45}
Quotes == {2, 3}

Closes == {1, 3}

AllReadings ==
    [ema |-> [close : Closes, fast : {1, 2, 3}, slow : {2}],
     bb |-> [close : {1, 2, 3, 4}, down : {2}, up : {3}],
     ichimoku |-> [close : {2}, high : {3}, low : {2}, chikou : {1, 2, 3, 4},
                   senkouA : {1, 4}, senkouB : {1, 4}, tenkan : {1, 3}, kijun : {2}],
     macd |-> [close : {2}, macd : {-2, -1, 1, 2}, signal : {-1, 1}],
     rsi |-> [close : Closes, rsi : {0, 20, 30, 50, 70, 80, 100}]]

AllStrategies == {"ema", "bb", "ichimoku", "macd", "rsi"}
SmallPeriods == [s \in AllStrategies |-> IF s \in {"ema", "bb"} THEN 2 ELSE 1]

Profits == {-1, 0, 1, 2, Nil}
AllMarkets == [bb : Profits \X Profits, ichimoku : Profits,
               rsi : {<<0, 2, 3>>, <<1, Nil, 1>>, <<-1, -2, Nil>>}]
Configured == {0, 1, 2, 5}
=============================================================================
