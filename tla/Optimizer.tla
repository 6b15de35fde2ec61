----------------------------- MODULE Optimizer -----------------------------
(***************************************************************************)
(* The choice of indicators: OptimizeParams of domain/model/dfcandle.go    *)
(* and the searches it calls, and UpdateOptimizeParams of                  *)
(* application/controllers/aiTrade.go, which NewAI calls once and Trade    *)
(* starts in a goroutine while the account is flat and there are no        *)
(* parameters.                                                             *)
(*                                                                         *)
(* A market is what the back tests (module BackTest) make of the candles:  *)
(* by candidate of a search a profit, or Nil for too few candles.          *)
(***************************************************************************)
EXTENDS Integers, Sequences, FiniteSets

CONSTANTS
    Markets,       \* results of back tests
    NumRankings,   \* config.Config.NumRanking: 0 if it is not configured
    Nil,
    MaxOptimizers  \* bound: goroutines started

ASSUME RankingAssumption == NumRankings \subseteq 0 .. 5
ASSUME BoundAssumption == MaxOptimizers \in Nat
ASSUME MarketAssumption ==
    /\ Nil \notin Int
    /\ \A market \in Markets : /\ market.bb \in Seq(Int \union {Nil})
                               /\ market.rsi \in Seq(Int \union {Nil})
                               /\ market.ichimoku \in Int \union {Nil}

VARIABLES
    numRanking,
    paper,        \* ai.BackTest
    params,       \* ai.OptimizedTradeParams
    chosen,       \* params as OptimizeParams made them, and from what
    optimizers,   \* goroutines that run UpdateOptimizeParams
    trader,       \* the goroutine that calls Trade
    locked,       \* ai.TradeSemaphore is held
    flat          \* the number of rows in SIGNAL_EVENTS is even

optimizer == <<numRanking, paper, params, chosen, optimizers, trader, locked, flat>>

-----------------------------------------------------------------------------
(* The searches.  Candidate 0 stands for the default parameters.           *)

Search(profits) ==
    LET Best[k \in 0 .. Len(profits)] ==
            IF k = 0 THEN [performance |-> 0, best |-> 0]
            ELSE IF profits[k] # Nil /\ Best[k - 1].performance < profits[k]
            THEN [performance |-> profits[k], best |-> k]
            ELSE Best[k - 1]
    IN Best[Len(profits)]

OptimizeBb(market) == Search(market.bb)
OptimizeRsi(market) == Search(market.rsi)
OptimizeIchimoku(profit) == IF profit = Nil THEN 0 ELSE profit

(* The searches of OptimizeEma and OptimizeMacd are commented out.         *)
OptimizeEma == 1
OptimizeMacd == 1

Indicators == {"ema", "bb", "macd", "ichimoku", "rsi"}

Performance(market) ==
    [ema |-> OptimizeEma, macd |-> OptimizeMacd, bb |-> OptimizeBb(market).performance,
     ichimoku |-> OptimizeIchimoku(market.ichimoku), rsi |-> OptimizeRsi(market).performance]

Places == 1 .. Cardinality(Indicators)
Orders == {o \in [Places -> Indicators] : \A i, j \in Places : i # j => o[i] # o[j]}

(* Variant: worst first.                                                   *)
RankingsAscending(performance) ==
    {o \in Orders : \A i, j \in Places : i < j => performance[o[i]] <= performance[o[j]]}

(* sort.Slice is not stable: any order of equals.                          *)
Rankings(performance) ==
    {o \in Orders : \A i, j \in Places : i < j => performance[o[i]] >= performance[o[j]]}

NoParams == [enable |-> {}, bbN |-> 0, rsiPeriod |-> 0]

(* The first NumRanking of the ranking that made a profit; nil if none did. *)
OptimizeParams(market) ==
    LET performance == Performance(market)
        Enabled(o) == {o[i] : i \in {i \in Places : i <= numRanking /\ performance[o[i]] > 0}}
        Params(enabled) ==
            IF enabled = {} THEN NoParams
            ELSE [enable |-> enabled, bbN |-> OptimizeBb(market).best,
                  rsiPeriod |-> OptimizeRsi(market).best]
    IN {Params(Enabled(o)) : o \in Rankings(performance)}

NoChoice == [params |-> NoParams, performance |-> [x \in Indicators |-> 0],
             market |-> [bb |-> << >>, ichimoku |-> Nil, rsi |-> << >>]]

Missing == params = NoParams

-----------------------------------------------------------------------------
Update ==
    \E market \in Markets :
        /\ params' \in OptimizeParams(market)
        /\ chosen' = IF params' = NoParams THEN NoChoice
                     ELSE [params |-> params', performance |-> Performance(market),
                           market |-> market]

(* NewAI, before any other goroutine runs.                                 *)
NewAI ==
    /\ trader = "start" /\ trader' = "idle"
    /\ Update
    /\ UNCHANGED <<numRanking, paper, optimizers, locked, flat>>

(* Trade up to the semaphore.                                              *)
CallTrade ==
    /\ trader = "idle" /\ trader' = "acquire"
    /\ IF flat /\ Missing
       THEN optimizers < MaxOptimizers /\ optimizers' = optimizers + 1
       ELSE UNCHANGED optimizers
    /\ UNCHANGED <<numRanking, paper, params, chosen, locked, flat>>

(* "params" points to what the AI holds: three indicators are enabled there. *)
Acquire ==
    /\ trader = "acquire" /\ ~locked
    /\ locked' = TRUE /\ trader' = "trade"
    /\ UNCHANGED <<numRanking, paper, params, chosen, optimizers, flat>>

ReturnWithoutParams ==
    /\ trader = "trade" /\ Missing
    /\ trader' = "idle" /\ locked' = FALSE
    /\ UNCHANGED <<numRanking, paper, params, chosen, optimizers, flat>>

TradeWithParams ==
    /\ trader = "trade" /\ ~Missing
    /\ params' = [params EXCEPT !.enable = @ \union {"ema", "macd", "bb"}]
    /\ trader' = "idle" /\ locked' = FALSE /\ flat' \in BOOLEAN
    /\ UNCHANGED <<numRanking, paper, chosen, optimizers>>

(* A goroutine calls itself again while it leaves no parameters, not so in
   BackTest mode. *)
UpdateOptimizeParams ==
    /\ optimizers > 0
    /\ Update
    /\ optimizers' = IF params' = NoParams /\ ~paper THEN optimizers
                     ELSE optimizers - 1
    /\ UNCHANGED <<numRanking, paper, trader, locked, flat>>

Fresh ==
    /\ params = NoParams /\ optimizers = 0 /\ trader = "start" /\ locked = FALSE
    /\ chosen = NoChoice

OptimizerInit ==
    Fresh /\ numRanking \in NumRankings /\ paper \in BOOLEAN /\ flat \in BOOLEAN

(* Never started.                                                          *)
OptimizerIdle ==
    Fresh /\ numRanking = (CHOOSE n \in NumRankings : TRUE) /\ paper = FALSE /\ flat = TRUE

OptimizerNext ==
    \/ NewAI \/ CallTrade \/ Acquire \/ ReturnWithoutParams \/ TradeWithParams
    \/ UpdateOptimizeParams

-----------------------------------------------------------------------------
(* Properties.                                                             *)

(* An indicator is enabled only if its performance is above 0 and none that was
   left out has more, and places in the ranking stay empty for want of such only.
   The performance of EMA and MACD is a constant, whatever they would have made. *)
BestEnabled ==
    LET Rest == Indicators \ chosen.params.enable
        Of == chosen.performance
    IN /\ \A x \in chosen.params.enable : Of[x] > 0 /\ \A y \in Rest : Of[x] >= Of[y]
       /\ Cardinality(chosen.params.enable) <= numRanking
       /\ Cardinality(chosen.params.enable) < numRanking => \A y \in Rest : Of[y] <= 0

(* The candidate a search returns is the first of those with the most profit,
   and the default if none made any. *)
IsFirstBest(best, profits) ==
    LET Made(k) == IF k = 0 \/ profits[k] = Nil THEN 0 ELSE profits[k] IN
    /\ best \in 0 .. Len(profits)
    /\ \A k \in 0 .. Len(profits) : Made(k) <= Made(best) /\ (k < best => Made(k) < Made(best))
BestParameters ==
    chosen.params # NoParams => /\ IsFirstBest(chosen.params.bbN, chosen.market.bb)
                                /\ IsFirstBest(chosen.params.rsiPeriod, chosen.market.rsi)

(* What OptimizeParams (dfcandle.go) chooses is the best there is of the market
   it was given: the indicators, and the parameters of each. *)
ChoiceIsBest == trader # "start" => BestEnabled /\ BestParameters
=============================================================================
