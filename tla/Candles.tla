------------------------------ MODULE Candles ------------------------------
(***************************************************************************)
(* domain/service: CreateCandleWithDuration and the candle tables, one per *)
(* duration, that it fills from the stream of tickers; and the goroutine   *)
(* of application/controllers/bitflyerController.go that calls it for      *)
(* every duration in turn, in the order a Go map yields them.              *)
(*                                                                         *)
(* A price in a table is a MySQL "float": what comes back is the price     *)
(* that Stored rounds it to.  Volumes are counted in tickers.              *)
(***************************************************************************)
EXTENDS Integers, Sequences, FiniteSets

CONSTANTS
    Durations,   \* config.Config.Durations, in units of time
    Prices,      \* mid prices
    Stored,      \* the price read back from a column of type float
    MaxTime,     \* bound: the last timestamp
    MaxTicks,    \* bound: tickers received
    MaxFaults    \* bound: failed statements, and stops inside a ticker

ASSUME DurationAssumption == Durations \subseteq Nat \ {0}
ASSUME PriceAssumption == Prices \subseteq Int
ASSUME StoredAssumption ==
    /\ Stored \in [Prices -> Prices]
    /\ \A p \in Prices : Stored[Stored[p]] = Stored[p]
    /\ \A p, q \in Prices : p <= q => Stored[p] <= Stored[q]
ASSUME BoundAssumption == MaxTime \in Nat /\ MaxTicks \in Nat /\ MaxFaults \in Nat

VARIABLES
    seen,    \* the tickers taken from the channel; the last is the current one
    todo,    \* the durations the current ticker has still to be entered under
    table,   \* the candle tables: by duration, by start of the candle
    faults   \* failures so far

vars == <<seen, todo, table, faults>>

-----------------------------------------------------------------------------
ticker == seen[Len(seen)]

(* Variant: the time stamp taken as it is.                                 *)
DateTime(time, duration) == time

TruncateDateTime(time, duration) == time - (time % duration)

NewCandle(price) ==
    [open |-> Stored[price], close |-> Stored[price],
     high |-> Stored[price], low |-> Stored[price], volume |-> 1]

(* Variant: only new highs looked at.                                      *)
UpdatedHigh(candle, price) ==
    IF candle.high < price
    THEN [candle EXCEPT !.high = Stored[price], !.close = Stored[price],
                        !.volume = @ + 1]
    ELSE candle

(* The row after the ticker: it is saved for a new high or low only; the other
   condition of the source, Second() > 59, is never true. Close and the volume
   added in memory are saved with it, or not at all. *)
Updated(candle, price) ==
    LET saved == [candle EXCEPT !.close = Stored[price], !.volume = @ + 1] IN
    IF candle.high < price THEN [saved EXCEPT !.high = Stored[price]]
    ELSE IF candle.low > price THEN [saved EXCEPT !.low = Stored[price]]
    ELSE candle

(* Variant: an UPDATE without its WHERE.                                   *)
SavedEverywhere(rows, start, price) ==
    [s \in DOMAIN rows |-> Updated(rows[s], price)]

Saved(rows, start, price) ==
    [rows EXCEPT ![start] = Updated(@, price)]

Inserted(rows, start, price) ==
    [s \in DOMAIN rows \union {start} |->
        IF s = start THEN NewCandle(price) ELSE rows[s]]

(* SelectOne, then INSERT or UPDATE.                                       *)
Entered(rows, duration) ==
    LET start == TruncateDateTime(ticker.time, duration) IN
    IF start \in DOMAIN rows THEN Saved(rows, start, ticker.price)
                             ELSE Inserted(rows, start, ticker.price)

-----------------------------------------------------------------------------
(* One connection delivers the tickers in the order of their times; the channel
   is not buffered and takes the next when all durations are done. *)
Receive ==
    /\ todo = {} /\ Len(seen) < MaxTicks
    /\ \E time \in 0 .. MaxTime, price \in Prices :
          /\ seen # << >> => ticker.time <= time
          /\ seen' = Append(seen, [time |-> time, price |-> price])
    /\ todo' = Durations
    /\ UNCHANGED <<table, faults>>

CreateCandleWithDuration(duration) ==
    /\ duration \in todo
    /\ todo' = todo \ {duration}
    /\ table' = [table EXCEPT ![duration] = Entered(@, duration)]
    /\ UNCHANGED <<seen, faults>>

(* A failed SELECT is read as "no such row": the INSERT that follows fails on
   the primary key if there is one. A failed INSERT or UPDATE is only logged. *)
StatementFails(duration) ==
    /\ duration \in todo /\ faults < MaxFaults
    /\ todo' = todo \ {duration}
    /\ faults' = faults + 1
    /\ UNCHANGED <<seen, table>>

(* The process stops inside the loop over the durations, and starts anew. A
   stop between two tickers leaves nothing undone. *)
Restart ==
    /\ todo # {} /\ faults < MaxFaults
    /\ todo' = {}
    /\ faults' = faults + 1
    /\ UNCHANGED <<seen, table>>

(* The tickers of the modelled run are used up.                            *)
Horizon == todo = {} /\ Len(seen) >= MaxTicks /\ UNCHANGED vars

Init ==
    /\ seen = << >> /\ todo = {} /\ faults = 0
    /\ table = [d \in Durations |-> << >>]

Next ==
    \/ Receive
    \/ \E duration \in Durations :
          CreateCandleWithDuration(duration) \/ StatementFails(duration)
    \/ Restart
    \/ Horizon

Spec == Init /\ [][Next]_vars

-----------------------------------------------------------------------------
(* Properties.                                                             *)

Ticker == [time : Nat, price : Prices]
Candle == [open : Prices, close : Prices, high : Prices, low : Prices, volume : Nat]

(* A table is a function from starts of candles of its duration to rows.   *)
IsTable(rows, duration) ==
    /\ rows = [s \in DOMAIN rows |-> rows[s]]
    /\ \A s \in DOMAIN rows : /\ s \in Nat /\ s % duration = 0
                              /\ rows[s] \in Candle

TypeOK ==
    /\ seen \in Seq(Ticker) /\ todo \subseteq Durations /\ faults \in Nat
    /\ todo # {} => seen # << >>
    /\ table = [d \in Durations |-> table[d]]
    /\ \A d \in Durations : IsTable(table[d], d)

(* How many tickers a table has been offered, and which of them belong to the
   candle that starts at s. *)
Offered(d) == IF d \in todo THEN Len(seen) - 1 ELSE Len(seen)
TickersOf(d, s) ==
    {k \in 1 .. Offered(d) : TruncateDateTime(seen[k].time, d) = s}
PriceAt(k) == Stored[seen[k].price]

(* A row shows only prices of its own period, between its low and its high. *)
FromItsPeriod(row, d, s) ==
    /\ {row.open, row.close, row.high, row.low} \subseteq {PriceAt(k) : k \in TickersOf(d, s)}
    /\ row.low <= row.open /\ row.open <= row.high
    /\ row.low <= row.close /\ row.close <= row.high

(* A row starts at the first price of its period and spans all of them.    *)
SpansItsPeriod(row, d, s) ==
    /\ \A k \in TickersOf(d, s) : row.low <= PriceAt(k) /\ PriceAt(k) <= row.high
    /\ \E k \in TickersOf(d, s) : /\ row.open = PriceAt(k)
                                  /\ \A j \in TickersOf(d, s) : k <= j

EveryPeriodEntered(d) ==
    \A k \in 1 .. Offered(d) : TruncateDateTime(seen[k].time, d) \in DOMAIN table[d]

Exact(d) ==
    /\ EveryPeriodEntered(d)
    /\ \A s \in DOMAIN table[d] : SpansItsPeriod(table[d][s], d, s)

(* No candle shows a price that its period did not have, or a low above its
   high, whatever statements failed and wherever the process stopped. *)
NothingInvented ==
    \A d \in Durations : \A s \in DOMAIN table[d] : FromItsPeriod(table[d][s], d, s)

(* Without failures a table has a candle for every period with a ticker, exact
   in open, high and low, even though each comparison is made with a rounded
   price. Tables of two durations so agree wherever their candles overlap,
   except about the current ticker. *)
ExactWithoutLoss ==
    faults = 0 => \A d \in Durations : Exact(d)

(* A candle with a later one beside it never changes again: the crosses that
   Trade computes from finished candles do not move. *)
FinishedCandlesKept ==
    [][\A d \in Durations : \A s, later \in DOMAIN table[d] :
          s < later => table'[d][s] = table[d][s]]_vars

(* Tickers are taken in the order of their times.                          *)
TimesInOrder ==
    \A j, k \in 1 .. Len(seen) : j <= k => seen[j].time <= seen[k].time
=============================================================================
