------------------------------ MODULE BackTest ------------------------------
(***************************************************************************)
(* domain/model/dfcandle.go: the back tests.  Each walks over the candles  *)
(* with the values of one indicator beside it, and trades on paper: it     *)
(* appends to a list of signals through the gates of events.go.  Profit of *)
(* events.go, which rates such lists.                                      *)
(*                                                                         *)
(* A reading is what a strategy looks at in one candle: its close, and the *)
(* values of its indicator there.  The time of candle i is i.              *)
(***************************************************************************)
EXTENDS SignalEvents, FiniteSets

CONSTANTS
    Strategies,   \* the back tests that are run
    Readings,     \* by strategy: what the candles and the indicator may show
    Period,       \* by strategy: candles it needs to be more than
    BuyThread, SellThread,   \* thresholds of the RSI
    MaxCandles    \* bound: length of the data frame

ASSUME PeriodAssumption == Period \in [Strategies -> Nat]
ASSUME ThreadAssumption == BuyThread \in Int /\ SellThread \in Int /\ BuyThread <= SellThread
ASSUME CandlesAssumption == MaxCandles \in Nat \ {0}

(* A lower band lies a multiple of a deviation below the middle, the upper one
   as much above it; the low of a candle is not above its high. *)
Shape(s) ==
    CASE s = "ema"      -> [close : Int, fast : Int, slow : Int]
      [] s = "bb"       -> {r \in [close : Int, down : Int, up : Int] : r.down <= r.up}
      [] s = "ichimoku" -> {r \in [close : Int, high : Int, low : Int, chikou : Int, senkouA : Int,
                                   senkouB : Int, tenkan : Int, kijun : Int] : r.low <= r.high}
      [] s = "macd"     -> [close : Int, macd : Int, signal : Int]
      [] s = "rsi"      -> [close : Int, rsi : Int]

ASSUME ReadingAssumption ==
    /\ Strategies \subseteq {"ema", "bb", "ichimoku", "macd", "rsi"}
    /\ \A s \in Strategies : Readings[s] \subseteq Shape(s)

VARIABLES
    strategy, reOpen, length,   \* the arguments of the test
    i,                          \* loop counter
    prev,                       \* the reading of candle i - 1
    signals                     \* signalEvents.Signals

backTest == <<strategy, reOpen, length, i, prev, signals>>

-----------------------------------------------------------------------------
(* The conditions of the five loops.                                       *)

(* Variant: the candle before not asked.                                   *)
EmaGolden(p, r) == r.fast >= r.slow
EmaBuys(p, r)  == p.fast < p.slow /\ r.fast >= r.slow
EmaSells(p, r) == p.fast > p.slow /\ r.fast <= r.slow

BbBuys(p, r)  == p.down > p.close /\ r.down <= r.close
BbSells(p, r) == p.up < p.close /\ r.up >= r.close

IchimokuBuys(p, r) ==
    /\ p.chikou < p.high /\ r.chikou >= r.high
    /\ r.senkouA < r.low /\ r.senkouB < r.low /\ r.tenkan > r.kijun
IchimokuSells(p, r) ==
    /\ p.chikou > p.low /\ r.chikou <= r.low
    /\ r.senkouA > r.high /\ r.senkouB > r.high /\ r.tenkan < r.kijun

MacdBuys(p, r) ==
    /\ r.macd < 0 /\ r.signal < 0
    /\ p.macd < p.signal /\ r.macd >= r.signal
MacdSells(p, r) ==
    /\ r.macd > 0 /\ r.signal > 0
    /\ p.macd > p.signal /\ r.macd <= r.signal

(* "continue" while the RSI has no value yet.                              *)
RsiSkips(p) == p.rsi \in {0, 100}
RsiBuys(p, r)  == p.rsi < BuyThread /\ r.rsi >= BuyThread
RsiSells(p, r) == p.rsi > SellThread /\ r.rsi <= SellThread

(* The sides a candle calls for.                                           *)
Points(buys, sells) == {side \in Side : IF side = "BUY" THEN buys ELSE sells}

(* The first candles, where EMA and Bollinger bands have no value yet.     *)
WarmingUp == i < Period[strategy]

BackTestEma(p, r) == IF WarmingUp THEN {} ELSE Points(EmaBuys(p, r), EmaSells(p, r))
BackTestBb(p, r)  == IF WarmingUp THEN {} ELSE Points(BbBuys(p, r), BbSells(p, r))
BackTestIchimoku(p, r) == Points(IchimokuBuys(p, r), IchimokuSells(p, r))
BackTestMacd(p, r) == Points(MacdBuys(p, r), MacdSells(p, r))
BackTestRsi(p, r) == IF RsiSkips(p) THEN {} ELSE Points(RsiBuys(p, r), RsiSells(p, r))

ReadingCalls(p, r) ==
    CASE strategy = "ema"      -> BackTestEma(p, r)
      [] strategy = "bb"       -> BackTestBb(p, r)
      [] strategy = "ichimoku" -> BackTestIchimoku(p, r)
      [] strategy = "macd"     -> BackTestMacd(p, r)
      [] strategy = "rsi"      -> BackTestRsi(p, r)

-----------------------------------------------------------------------------
(* Too few candles: the test returns nil.                                  *)
Refused == length <= Period[strategy]

(* SignalEvents.Buy and Sell with save = false and size 1.                 *)
Traded(side, list, close) ==
    IF CanTrade(side, list, i, reOpen)
    THEN Append(list, [side |-> side, time |-> i, reOpen |-> reOpen, price |-> close])
    ELSE list

Candle ==
    /\ i < length /\ ~Refused
    /\ \E r \in Readings[strategy] :
          /\ prev' = r
          /\ LET points == ReadingCalls(prev, r)
                 bought == IF "BUY" \in points THEN Traded("BUY", signals, r.close) ELSE signals
             IN signals' = IF "SELL" \in points THEN Traded("SELL", bought, r.close) ELSE bought
    /\ i' = i + 1
    /\ UNCHANGED <<strategy, reOpen, length>>

Finished == (Refused \/ i >= length) /\ UNCHANGED backTest

BackTestInit ==
    /\ strategy \in Strategies /\ reOpen \in BOOLEAN
    /\ length \in 1 .. MaxCandles
    /\ prev \in Readings[strategy]
    /\ i = 1 /\ signals = << >>

(* No test called for: the first arguments there are.                      *)
BackTestIdle ==
    /\ strategy = (CHOOSE s \in Strategies : TRUE) /\ reOpen = FALSE
    /\ length = 1 /\ prev = (CHOOSE r \in Readings[strategy] : TRUE)
    /\ i = 1 /\ signals = << >>

BackTestNext == Candle \/ Finished

-----------------------------------------------------------------------------
(* Rating a list of signals.                                               *)

(* Variant: an open position counted at its price.                         *)
ProfitWithOpen(list) ==
    LET Total[k \in 0 .. Len(list)] ==
            IF k = 0 THEN 0 ELSE Total[k - 1] - Sign(list[k].side) * list[k].price
    IN Total[Len(list)]

(* events.go Profit: a buy pays and a sell receives, wherever it stands in the
   list; by its place alone a signal opens (odd places) or closes (even ones). *)
Profit(list) ==
    LET After[k \in 0 .. Len(list)] ==
            IF k = 0 THEN [total |-> 0, beforeSell |-> 0, isHolding |-> FALSE]
            ELSE LET total == After[k - 1].total - Sign(list[k].side) * list[k].price
                 IN [total |-> total, isHolding |-> ~IsEven(k),
                     beforeSell |-> IF IsEven(k) THEN total ELSE After[k - 1].beforeSell]
        end == After[Len(list)]
    IN IF end.isHolding THEN end.beforeSell ELSE end.total

-----------------------------------------------------------------------------
(* Properties.                                                             *)

(* The gate refuses no signal of a back test, reopening or not: so the reOpen
   that the optimizer passes on changes no result (dfcandle.go, events.go). *)
GateNeverRefuses ==
    \A side \in Side : CanTrade(side, signals, i, FALSE)

(* At most one trade in a candle: the buying and the selling condition of a
   strategy never meet, or a position would be opened and closed at one price. *)
OneTradePerCandle ==
    \A k \in 1 .. Len(signals) - 1 : signals[k].time < signals[k + 1].time

(* What two trades left in hand. With two sides they are one whole trade, and
   this is its gain: the price sold at less the price bought at. *)
Gain(open, close) == -(Sign(open.side) * open.price + Sign(close.side) * close.price)

Realized(list) ==
    LET Sum[n \in 0 .. Len(list) \div 2] ==
            IF n = 0 THEN 0 ELSE Sum[n - 1] + Gain(list[2 * n - 1], list[2 * n])
    IN Sum[Len(list) \div 2]

(* events.go Profit: the profit is what the pairs of signals left in hand, the
   first with the second, the third with the fourth, long or short, and a
   position still open counts for nothing. The optimizer ranks the indicators by
   it. Where a strategy repeats a side, as those on Bollinger bands, the RSI and
   Ichimoku may, a pair is no whole trade, and its prices are added up alike. *)
ProfitIsRealized == Profit(signals) = Realized(signals)
=============================================================================
