# A verification project for bitcoin-system-trade-backend

The program trades Bitcoin on bitFlyer (FX_BTC_JPY). It collects prices into
candle tables, decides once a minute whether to open or to close a position,
sends market orders, keeps a table of its trades, and serves a chart of all this.
This directory holds TLA+ models of the parts in which something can go wrong
that a test would hardly reach, the TLC runs that check them, and proofs that
TLAPS checks.

Run a check with `tlc -config <run>.cfg <module>.tla`, a proof with
`tlapm <module>.tla`. `PROJECT.json` says which run uses which module, which
lines of the source each definition models, and which defect in the code
(a *mutant*) each property would catch.

## 1. The system

| Part | Source | State it keeps | Operations |
| --- | --- | --- | --- |
| Trade | `application/controllers/aiTrade.go` | package variables (reopen flags, open flags, profit flags, stop flag, levels), `ai.SignalEvents`, `ai.StartTrade`, parameters, a semaphore | `NewAI`, `Trade`, `Buy`, `Sell`, `WaitUntilOrderComplete`, `UpdateOptimizeParams` |
| Signal events | `domain/model/events.go` | table SIGNAL_EVENTS, and a list in memory | `CanBuy`, `CanSell`, `Buy`, `Sell`, `Save`, loading, counting, `OpenStatus`, `Profit`, `CollectAfter`, `GetSignalEventsAfterTime` |
| Candles | `domain/service/*.go` | one table per duration | `CreateCandleWithDuration`, `Insert`, `Save`, `SelectOne`, `GetAllCandle`, `Atr` |
| Scheduler | `application/controllers/bitflyerController.go` | `tradeTicker`, the channel of tickers, the channel of ticks | the goroutine that enters tickers, the goroutine that calls `Trade` and uploads the log |
| Ticker stream | `bitflyer/ticker.go` | web sockets, one of them read | connect, subscribe, read, reconnect |
| REST client | `bitflyer/*.go` | none | `GetTicker`, `GetPositions`, `GetCollateral`, `SendOrder`, `ListOrder` |
| Optimizer | `domain/model/dfcandle.go` | none | back tests per indicator, `OptimizeParams` |
| Indicators | `domain/tradingalgo/algo.go`, `dfcandle.go` | none | `IchimokuCloud`, `Add...` |
| Web API | `application/controllers/webServer.go`, `application/server`, `application/response` | none | chart, events, latest candle |
| Chart page | `views/chart.html` | duration, ticked boxes, whether it asks, the chart drawn | a timer, options, requests, drawing |
| Rest | `config`, `utils`, `domain/mysql.go`, `db/migrations` | configuration, log file, schema | upload of the log, notification |

How they interact. `main` starts `StreamIngestionData` in a goroutine and serves
the Web API. `StreamIngestionData` calls `NewAI`, starts the ticker stream, and
two goroutines: one takes tickers from an unbuffered channel, and for each
duration leaves the ticker in `tradeTicker` and enters it in a candle table; the
other wakes every second, counts the trades, reads the candles, and in second 0
calls `Trade` with `tradeTicker`, synchronously. `Trade` reads the count of
SIGNAL_EVENTS, the candles of its duration, and its package variables; it sends
orders and polls them over REST; a completed order becomes a row of
SIGNAL_EVENTS and an element of the list in memory. The exchange fills or drops
an order on its own. The page asks the server for candles and trades every three
seconds and at every change of an option, and each request reads the tables in a
goroutine of its own.

What is hard here.

* Whether a position is open is kept in four places: at the exchange, as the
  parity of a table, in a list in memory, and in two flags. Nothing compares them.
* An order is decided by the exchange while `Trade` waits, or after it has given up.
* A call of `Trade` takes two iterations of four branches, each of which may
  trade and wait 30 seconds, on a price and a gate taken before.
* Any of the remote calls and statements can fail, and most errors are dropped:
  a failed count is 0, a failed read of positions is no position, the body of an
  HTTP error is a struct of zeros.
* A restart keeps the tables and one signal, and forgets every flag. The list in
  memory, which the chart of `BackTest` mode shows, is no longer the table then.
* A ticker enters several tables one after the other; prices come back rounded.
* `tradeTicker` is written by one goroutine and read by another without a lock.
* A connection that broke is left open when the next one is made, and the
  exchange may go on sending to it.
* Whether a minute is served depends on three readings of the clock in one
  condition, after two queries, on a tick that may have waited.
* Candles and trades of a chart come from two queries, or from a query and a list
  that is appended to without a lock, and answers overtake each other.
* Profit and parity know an opening from a close by its place in a list alone.

What makes the parts correct:

* Trade: the four accounts of the position agree; it holds one lot at most, opens
  from flat and closes to flat; every call returns. The size of an order is that
  of the position or one the money pays for.
* Signal events: no trade is recorded that was not made, none made is refused a
  row, and a second one in a candle is a reopening; profit is what the pairs of a
  list have left in hand.
* Candles: a candle shows its own period and does not change afterwards.
* Scheduler: a minute is served once by iterations in time; the hour of the maintenance only closes;
  the minute in which positions are opened keeps being served.
* Ticker stream: tickers are taken in order, each once, none skipped without a
  failure; it comes back after a broken connection.
* Optimizer: it ranks by performance and chooses the best.
* Indicators: a line has a value per candle, the one its formula gives, and later
  candles do not change it.
* Web API and page: an answer shows candles and trades of one moment, or trades of
  a later one, without a gap; markers stand where their trades were made; and the
  page comes to show what was last chosen.

The list "hazards" in `PROJECT.json` names each place in the code where this
could fail, with the properties that watch it.

## 2. Modules

| Module | Models | Used by |
| --- | --- | --- |
| `SignalEvents` | rows, the gates `CanBuy` and `CanSell`, loading, `OpenStatus` | `Trade`, `RoundTrip`, `BackTest`, `OrderSize` |
| `Trade` | the trader, the exchange, the clock, the table, failures, restarts | `PaperTrade`, proofs |
| `PaperTrade` | `Trade` as `BackTest` mode does it, without orders | — |
| `RoundTrip` | the abstract account: hold at most one lot, record each trade before the next | refined by `Trade` |
| `OrderSize` | the first half of `Buy` and `Sell`: from balance, price and positions to the size | `Computation` |
| `Candles` | `CreateCandleWithDuration` over all durations, failures, stops | `MCCandles`, refined by `Feed`, proofs |
| `Feed` | exchange, web sockets, channel, tables, `tradeTicker` and its reader | `MCFeed`, proofs |
| `Scheduler` | the loop behind the calls of `Trade`, the clock, the upload | `MCScheduler` |
| `BackTest` | the five back tests, `Profit` | `Computation` |
| `Optimizer` | the searches, the ranking, `UpdateOptimizeParams` and its goroutines | `Computation` |
| `Ichimoku` | `IchimokuCloud` | `Computation` |
| `Computation` | `OrderSize`, `BackTest`, `Optimizer` or `Ichimoku`, one at a time | `MCComputation` |
| `Chart` | the page, `ApiCandleHandler`, and the tables and the list in memory moving under them | `MCChart` |
| `MCCandles`, `MCFeed`, `MCScheduler`, `MCComputation`, `MCChart` | values of constants for TLC | — |
| `Induction` | induction, recursion and least elements over the numbers, proved once | `Computation_proofs`, `Chart_proofs` |
| `Trade_proofs`, `Trade_rows_proofs` | theorems about `Trade` and `PaperTrade` | — |
| `Candles_proofs`, `Feed_proofs`, `Scheduler_proofs`, `Computation_proofs`, `Chart_proofs` | theorems about the module each is named after | — |

Definitions whose comment begins with "Variant" are not part of a model: each
is what a slip in the code would make of the definition below it, used to see
that a property notices.

### Trade

`Trade` is written as a small program counter machine. One state of `pc` is one
place at which other parties can act, or the head of one branch:

    idle -> begun -> iterate -> openShort -> openLong -> closeShort -> closeLong -> iterate / idle
                                    \__________ each branch __________/
                                        quote -> send -> wait

* `Begin` and `Skip` are the head of `Trade` (lines 292-318), `Load` takes price
  and candles (319-384), `Iterate` the crosses and the gate of one candle
  (384-490), and `OpenShort` to `CloseLong` the four branches. `Branch` calls
  `Enter`, the checks of `Buy` and `Sell` before any remote call.
* `Quote` stands for balance, ticker and positions; `SendAccepted`,
  `SendRejected`, `SendReplyLost` for the outcomes of `SendOrder`; `PollPending`,
  `PollCompleted`, `PollFails`, `Expire` for those of one poll. `PollCompleted`
  goes on through everything the code does without another remote call: the
  check and the save of `SignalEvents.Buy`, the flags of `Buy`, and the rest of
  the branch in `Trade`.
* `Buy` and `Sell` are mirror images and are modelled once, by side; so are the
  flags. `reOpen["BUY"]` is `longReOpen`, `isOpen["SELL"]` is `sellOpen`, and so on.
* `book` and `pos` belong to the exchange: `Fill` and `Cancel` may happen at any
  time to any order it accepted, or never.
* `Restart` may happen anywhere, followed by `NewAI`.

Abstractions. One unit of time is one poll (5 s); the constants `Minute`,
`Period` and `Hour` are multiples of it, with the ratios made small. Prices are
integers and `Gap` is the distance that the factors 0.99, 0.975 and the stop
percentage stand for. Indicators are reduced to the cross they yield, which is
any cross that two neighbouring candles can have, and the width of the band to
whether it is wide enough. A lot is the size of a new order; sizes read from
the exchange are summed as the code sums them, without the sign (how they are
rounded is `OrderSize`). Market orders are filled as a whole.

Left out of `Trade`: `BackTest` mode, which `PaperTrade` adds; a start with no
optimizer parameters, which is in `Optimizer`; when it is called, which is in
`Scheduler` (any minute may be skipped here); `tradeDuration = 0`; fewer candles
than the loop needs, gaps between candles and a clock that disagrees with the
exchange's. The price 0 before the first ticker can be compared with no level,
since no position is marked as open after a start. The semaphore is held exactly
while `pc` is not "idle" and never contended, since `Trade` has one caller. The
volatility filter reads a table nothing writes, so it never skips in practice;
`Skip` allows it. A last poll and the 30 s timer due at the same moment are
taken in that order.

### PaperTrade

With `config.Config.BackTest` set, a call of `Buy` or `Sell` is one step,
`PaperOrder`: the same check, the row with the price of the caller's ticker, and
what the branch does after it. The rest is that of `Trade`, and the exchange has
nothing to do. The trade gets the time
of `time.Now()`, later than the start of its candle and than any trade before
it; a unit of time passes to say so. `PaperClosing` differs from the closing of
`Trade` in arming no reopening.

### OrderSize

One action per remote call, each of which may succeed, fail, or succeed with the
body of an error read as zeros. Sizes are counted in units finer than the 0.0001
they are rounded to, so that `AdjustSize` (down) and the rounding of a sum of
positions (to the nearest) are different operations, and a float sum may be off
by a unit. `NewSize` gives `Inf` or `NaN` where the floating-point division does. The
exchange splits an execution into parts, any of which may be below 0.0001, and
refuses what is below its minimum.

### Candles and Feed

In `Candles`, `Receive` takes a ticker from the channel and puts all durations in
`todo`; `CreateCandleWithDuration(d)` does all that the code does for one
duration, the SELECT and the INSERT or UPDATE included, since no one else writes
the tables. The order of durations is free, as in a Go map. `Stored` is what a
FLOAT column makes of a price: any monotone and idempotent rounding, of which
single precision is one. `seen` is the list of tickers taken, kept to say what
the candles should be. Volumes are counted in tickers.

`Feed` is everything on the way there. A ticker is its place in `Published`. The
reader goes `dial -> subscribe -> read -> send`, each error taking the way the
code gives it: a failed dial calls the function again, a failed subscription ends
the process, a failed read dials anew and leaves the old connection to the
exchange. The loop that enters tickers assigns `tradeTicker` for every duration,
a word at a time, and then does `Tables!CreateCandleWithDuration`; the goroutine
that calls `Trade` copies it a word at a time. Two words, `bid` and `ask`, are
enough to tear a struct. `Feed` implements `Candles` with its `faults` mapped to
`losses`, the failures that cost a table a ticker.

### Scheduler

The clock is cyclic, a day of instants, and every `time.Now()` of the source is a
step that reads it. `due` is the channel of `time.Tick`, which holds one tick and
drops the rest; `phase` is the instant of a second at which it fires, given by
the moment the process started. Each query and each clause of the condition is a
step, between which time may pass up to `Latency` in all. A call of `Trade`, or an
upload, lasts up to `callTime`, which Init takes from `CallTimes`. `regular` and
`ready` are kept for the properties.

### Computation

`BackTest` walks over candles whose readings are drawn as it goes: any value of
each indicator, on either side of the threshold and on it. `Optimizer` takes the
profits of the candidates as given, runs the searches, ranks with a sort that is
not stable, and follows `NewAI`, `Trade` up to its semaphore, and the goroutines
started for missing parameters. `paper` is `BackTest` mode, in which such a
goroutine ends without parameters instead of calling itself again. `Ichimoku`
computes the five lines of the newest `PastPeriod` closes, of which the oldest
drops out with every candle once there are as many (`SelectAll`); a line is kept
as four times its value, to stay with integers.
These three and `OrderSize` share no state, so `Computation` follows one of them
per behaviour.

### Chart

A candle is its start. The page has a duration, ticked boxes and `api`, down
while the pointer is over the chart; `Interval` and every change of an option put
a request in a slot. The server takes a request in two steps, `GetAllCandle` and
`AddEvents`, between which tickers and trades come in; a panic or a failed query
ends the request without an answer. `Done` draws what came, unless one of the
early returns of `drawChart` applies.

The trades of an answer are selected from the table `trades`
(`GetSignalEventsAfterTime`) or, in `BackTest` mode, cut from `memory`, which is
`Ai.SignalEvents` (`CollectAfter`). `Traded` writes both, the table only if the
save succeeds; `Restart` leaves the newest row in memory and ends the requests
under way. No lock guards the list: `ReadWhileTraded` is a request that finds it
longer already, the new element not yet there, so that its last trade has any
content (`Torn`). `Marks` is the loop of `drawChart` over the candles with the
trades beside it, as a set of pairs of candle and trade.

`known` and `asof` of a request, the trades and the time at the reading of the
candles, are kept for a property. `Visits` are the four ways the page is used in
the run, with a bound on each thing that can grow.

### RoundTrip

The account of the trader seen from outside: what it holds, the journal of its
trades, and the one trade that is made and not yet in the journal. `Trade`
refines it with `held <- pos`, `journal <-` the sides of the rows, `pending <-`
the side of the filled order that is being waited for.

## 3. Runs

| Run | Module | Instance | Shows |
| --- | --- | --- | --- |
| `trade_single` | `Trade` | Continue off, one failure and one restart anywhere, orders that are never decided, a call a unit, time 4, two prices, one band, fairness of `Trade` alone | `TypeOK`, `FlagsMatchLedger`, `LevelsInOrder`, `NeverRefused`, `NoPhantomRecord`, `TradeReturns` |
| `trade_paper` | `PaperTrade` | Continue off in `BackTest` mode, one failure and one restart anywhere, time 13 | `PaperRoundTrips` |
| `trade_continue` | `Trade` | Continue on, one restart anywhere, no failures, time 9 | `LedgerExplainsPosition`, `FlagsNetPosition`, `SecondInCandleReOpens`, `OrphanStaysOrphaned`, refinement of `RoundTrip` |
| `candles` | `MCCandles` | durations 2 and 4, four tickers up to time 5, four prices of which two are rounded, one failure | `TypeOK`, `NothingInvented`, `ExactWithoutLoss`, `FinishedCandlesKept` |
| `feed` | `MCFeed` | three tickers, two durations, one failure, fairness | `ReceivedInOrder`, `NothingSkipped`, `CopyNotStale`, `StreamGoesOn`, refinement of `Candles` |
| `scheduler` | `MCScheduler` | a day of four hours, two minutes, three seconds, three instants; short and long calls; two failures; fairness | `TwiceOnlyIfLate`, `ClosedHourOnlyCloses`, `MinuteServed`, `OpeningsKeepComing` |
| `computation` | `MCComputation` | accounts that pay for nothing, less than the smallest order, or several, and three failures; five back tests of up to six candles; four rankings; the seven newest closes of a series | `OrderIsCovered`, `PositionIsTradable`, `ClosedFlat`; `GateNeverRefuses`, `OneTradePerCandle`, `ProfitIsRealized`; `ChoiceIsBest`; `LinesAsDefined`, `PastKept` |
| `chart` | `MCChart` | four visits: trades from the table; trades from memory; more candles than the page shows; requests that overtake each other; a failure in all but the last; fairness | `AnswerIsCoherent`, `MarkersInPlace`, `ChartSettles` |
| `finding_stop`, `finding_profit`, `finding_settle`, `finding_restart` | `Trade` | small | one violated property each, section 5 |

### Bounds

`trade_continue` and `trade_paper`: `Minute = 2`, `Period = Hour = 4`: a candle has
two calls of `Trade`, one of them in minute 0, so openings, closes off the
boundary, and calls that find the next candle all occur. An opening and its close
take two candles, and a reopening no more than the call of the close; time 9 has
room for them and for the call after, and time 13, in `trade_paper`, for a second
opening and its close. `trade_single` has the failures and undecided orders to go
through as well and makes the units smaller instead, `Minute = 1` and
`Period = Hour = 2`; an opening, a close and the call after fit into time 4.
`ExpirePolls = 2` lets an order be completed at the first or the second poll,
cancelled before either, and waited out. `MaxTime` bounds the beginning of calls,
not their end: a call begun in time runs through all its waits. Prices, `Gap` and
band (1 and 3, 1, 2; in `trade_single` 1 and 5, 1, 3) give profit, stop and
neither, from either side. Past the last call, `Horizon` stutters, so that TLC
still reports a real deadlock. One failure is enough for `NeverRefused` and
`NoPhantomRecord` to be tried by each kind of it; the theorems on `NeverRefused`,
`SecondInCandleReOpens`, `NoPhantomRecord` and, for candles, `NothingInvented` hold
for any number.

A failure is counted in `faults` when it loses information: a reply of SendOrder,
a failed read of the count or of the positions, a failed poll, a failed save, an
order decided after the last poll, a stop while an order is out. Rejections,
cancellations, failed quotes and stops elsewhere are not failures in this sense:
the properties "without failures" hold with them. An order still undecided at the
last poll counts as a failure while the bound allows, but the bound does not stop
it (`Overtime`): in `trade_single` the exchange may leave any order undecided, and
the wait for each is ended by its timer. With `MaxFaults = 0`, in `trade_continue`,
the exchange decides every order before the last poll.

`computation`: `MaxPos` lets several orders of one side pile up before one of the
other closes them; `Step = 4` has remainders that round up, down and to the half.
`candles`: four tickers are enough for a first price, a new high, a new low and a
price in between, or for two candles of each duration. `feed`: three tickers put
one into the tables, one on its way and one on a wire, old or new; what is lost by
reading ahead shows with the third. One failure breaks a connection, leaves an old
one open with tickers on it, or stops the process; what holds for longer
streams and more failures is proved. `scheduler`: three instants to a second
allow a tick at its beginning, its middle and its end, with a body that ends in
the same second or the next (`Latency = 1`); calls of 4 instants end in their
minute, those of 12 outlast one. Hours 1 and 2 are the maintenance of the two
deployments, so that hour 3 is open in both and hour 0 begins the day.
In `computation`, six candles give three whole trades or two and an open one; profits
lie below, at, and above the constants of EMA and MACD. Windows of 2, 3 and 5
stand for 9, 26 and 52, and a list of seven closes goes past all of them, then
slides. `chart`: two candles on the page and up to four in the table; two trades
are one before and one between the two readings, or one that memory has forgotten
and one it has; two slots let one answer overtake another.

### Fairness

* `Trade`: weak fairness of the steps of a call of `Trade`, the goroutine that runs
  it: it is sequential, its waits have timers, and HTTP calls are taken to return.
  The exchange owes it nothing: `TradeReturns` is checked with orders that are
  never decided.
* `Feed`: weak fairness of each of the three goroutines, which run as long as the
  process does. The exchange need not publish, and nobody need restart the
  process; `StreamGoesOn` is about a process that stays up, and about what has
  come over the wire. A connection lost without a word leaves the reader in
  `read`, where it waits for ever; the property does not say otherwise.
* `Scheduler`: weak fairness of the clock and of the loop. That openings keep
  coming is not due to fairness alone: `OpeningsKeepComing` assumes a process that
  stays up, a loop body that ends in the second of its tick, and calls shorter
  than a minute. With calls that outlast a minute the minute 0 of an hour can be
  missed for ever, which the run leaves open by its premise `QuickCalls`.
* `Chart`: weak fairness of every handler, and strong fairness of the timer. The
  latter is due to the bound on requests: the timer of the page is never
  disabled, that of the model is while all slots are taken.

## 4. Proofs

Of the 37 properties of the passing runs 33 are also theorems, for every value of
the constants that the named assumptions allow; what is left are the four that
speak of liveness (end of this section).

### Trade

`Trade_proofs`: `TypeInvariant`, and the account's side of the table. The invariant
`LedgerExplainsPosition` is not inductive, because the step that records a trade
changes the parity of the table while the flags decide which trade it was. `IInv`
adds what ties them together, in parts named in `Trade`:

* `Managed` — the flags add up to the table's position — or `Idled` — a restart
  came with a position open, and every flag is down;
* `ReOpensOther` — a reopening is never armed for the side that is open;
* `OrderFits` — an order under way closes what is open or opens what is not, and
  was sized by a position of the other side, or none;
* `BookFits` — only the order waited for can be undecided;
* `SignalsInPast` — no signal is later than the clock, which is also what makes
  the second check of an order pass (`NeverRefused`, for any failures).

The proof that a step keeps `IInv` has one lemma per action. From it follow
`LedgerTheorem`, `FlagsTheorem`, and the refinement: `FaultlessRefinement` for
`MaxFaults = 0`, from `RefinementTheorem`, which assumes of a behaviour only that no
failure has occurred in it. The assumptions are those of `Trade`: prices are
integers, and `Gap` and the durations positive.

`Trade_rows_proofs` is about what a reader of SIGNAL_EVENTS may conclude. The first
two results hold whatever fails, in any number:

* `SecondInCandleTheorem`, from `RowsInv`: a trade recorded in the candle of the one
  before it is a reopening. A failed save makes the table lag behind the list in
  memory, so the gate, which looks at memory, must be shown to be the stricter of
  the two (`RowsRemembered`); and it is passed before an order goes out, while the
  row is written up to 30 s later, in a candle that may be the next (`GatePassed`,
  `CandlesBegun`). It has to leave out a trade with the very time its candle
  starts, which the gate does not count as one of that candle (section 5).
* `NoPhantomTheorem`, from `CountInv`, which counts the filled order that is waited
  for and has no row yet beside the rows there are.
* `OrphanTheorem`: in the branch `Idled` of `IInv` no flag is up and the parity is
  odd, so neither an opening nor a close passes its condition, step after step.
* `LevelsTheorem` and `FlagsMatchTheorem`, from `SingleInv`: at most one side is
  marked as open and, while it is, the levels are its own. Both assume
  `Continue = FALSE`, and need to: with Continue both sides can be marked at once
  (`finding_settle`), and there is one pair of levels. What then still holds is
  `FlagsNetPosition`, which is proved without that assumption.
* `PaperTheorem`, from `PaperInv`: rows alternate between the sides, and what the
  flags call open is what the last row opened. It assumes nothing about Continue:
  no order waits in this mode, so that a reopening is never armed.

### Candles and Feed

`Candles_proofs`: `TypeInvariant`; `NothingInventedTheorem`, by the one row a step
writes; `FinishedCandlesTheorem`, from the order of the tickers and the fact that
every row starts where some ticker's period does; `ExactTheorem`. The argument
about rounding is in `Rounded`: a price read back is not moved by being stored
again, so comparing it with an unrounded price errs only where both are stored
alike.

`Feed_proofs`: that tickers are taken in order is not inductive either, since what
waits on old connections could be read late. `StreamInv` says why it is not:

* `ConnInv` — the reader uses the connection dialed last, and there is a failure
  for each one before it;
* `WireInv` — what waits on each connection is in order, nothing waits on one not
  yet dialed, nor on one not yet subscribed;
* `TakenInv` — what has been taken is in order and before the ticker at hand,
  which is before all that waits on the connection read.

`ReceivedOrdered` follows. `TablesInv` adds that the tickers `Candles` has seen are
those taken, as they were published; with it every kind of step is shown to be one
of `Candles` or to leave its variables alone, which is `FeedImplementsCandles`. It
holds for every sequence of tickers whose times do not fall
(`PublishedAssumption`) and any number of failures (`FaultsAssumption`); what is
proved of `Candles` thereby holds of the tables of `Feed`.

`NothingSkippedTheorem` needs where on its way each ticker is: `GapInv` says that
those on the wire end with the newest, that the one at hand comes just before
them, and those taken just before that. `CopyTheorem` is about two goroutines
without a lock. `CopyInv` puts `inTables`, the words of `tradeTicker` and the ticker
being entered in one order, in which a torn read can only fall between; with
`EnteringInv`, which says at which word and which table the writer is.
`DurationAssumption` makes durations positive, as those of the code are.

### Scheduler

`SchedulerInv` gives for every place of the loop what is left of the second: an
iteration in time has used up its tick (`InSecond`), a served minute has no other
(`CalledOnce`, `UploadedOnce`), what was counted still holds (`Counted`), the clause
of the condition that was taken agrees with the hour (`HourRead`), and in second 0
the loop is at the instant of its tick plus what it has spent since (`Served`). The
clock is a number modulo a day, and seconds and hours are quotients and remainders
of it: `Division` and `MultipleBelow` are the arithmetic this takes. From it
`TwiceTheorem`, `ClosedHourTheorem` and `MinuteTheorem`, for every length of the
units of time.

### Computation

One invariant for each of the parts proved about; the others stand still while one
is followed.

* `OrderInv`: the position is a whole number of steps, and a size about to be sent
  is the position or a new one, for a reason. It gives `OrderCoveredTheorem`,
  `PositionTradableTheorem` and `ClosedFlatTheorem` for every step, every smallest
  order that is a multiple of it, and every way an execution is split.
* `BackTestInv`: the times of a list rise and lie before the loop counter.
  `OneTradeTheorem` (here of the back tests) and `GateTheorem` follow for all
  thresholds and readings. `ThreadAssumption` has the threshold to buy at or below
  that to sell, and `ReadingAssumption` a lower band at or below the upper one and a
  low at or below the high, without which both conditions of a strategy could hold
  in one candle.
* `LinesTheorem` and `PastTheorem` are about two loops, one inside the other.
  `SpanWidens` is the invariant of `minMax`: what it has found are elements of what
  it has read, and bound it. `IsLine` is that of `IchimokuCloud`: after k passes each
  line has its leading zeros, whose number differs from line to line, and then the
  value of each candle. `PassAdds` proves a pass to keep it, though the pass reads
  back from two lines what it has just appended to them. All five lines are in
  `LinesAsDefined`, the chikou as `algo.go:56` computes it. For `PastTheorem` the
  list may have lost its first close: a value depends on closes that the new list
  has one place further to the front (`Shifted`, `ValueKept`), or its place is now
  among the leading zeros (`Delay`).
* `ProfitTheorem`: `Profit` runs over a list with three values carried along
  (`Passed`), and `Realized` sums over pairs. The total after each signal is a sum of
  signed prices (`ProfitSums`), and so is the sum after each pair (`RealizedSums`), for
  any sides: that the two agree up to the last whole pair is an induction over the
  pairs (`ProfitRealizes`). Of the list nothing is assumed, since the strategies on
  Bollinger bands, RSI and Ichimoku do repeat a side; a pair of one side is no
  whole trade, which is for section 5.
* `OptimizerInv`: what was chosen last is the best of the market it was chosen from,
  for any market (`MarketAssumption`: profits are numbers or there were too few
  candles). `ChoiceTheorem` rests on `SearchFindsBest`, by induction over the
  candidates, and on a sort described only as a permutation in which performances
  do not rise. It is about the performances the code ranks: those of EMA and MACD
  are the constant 1, whatever their back tests would give.

What these computations do is defined by recursion, and the library's induction
theorems take an operator as a parameter, which the provers cannot instantiate.
`SetInduction` and `Recursion`, in `Induction`, take a set in the place of the operator,
and are proved from the well-foundedness of inclusion among finite sets, which the
library states without one. So `Total`, `Profit`, `Search`, `minMax` and `IchimokuCloud`
are or hold recursive functions, and what they compute is proved for lists of
every length. What `SelectSeq` or a fold yields stays out of reach: the provers know
two such terms to be equal only if they are written alike. The model does without
them where a theorem depends on it.

### Chart

`AnswerTheorem`: what is on the screen has the newest candles of its request and,
from its first candle on, every trade that was known when the candles were read,
though table and list move between the two readings, saves fail, the process is
restarted, and answers overtake each other. `ChartInv` carries along with each
request what it has read. For the candles: the tables only grow, and that the
newest `Limit` of a table are still the newest of what the request saw is an
argument about how many candles lie above each one (`AboveLess`, `NewestOf`). For
the trades: the times of a list rise, so those from the first candle on are its
end, whichever way the comparison is written (`LateTrades`); the list a request goes
back to begins with the one it knew and goes on with trades made since (`GoesOn`),
a restart, which cuts the list in memory, having ended the request; hence what is
cut from it begins with the trades known (`KnownFirst`), and so it does if the last
element is torn (`TornLast`).

`MarkersTheorem` says of the loop of drawChart that markers stand at the candles of
their trades, in the order of the trades, none twice. The trade at hand lives
outside the loop, so the number of trades marked is a function that rises by at
most one a candle (`MarkedGrows`); candles rise by `AscendingOnto`; so pairs of a
candle and a trade go the same way in both. It does not say that every trade has a
marker, which is not so (section 5).

### Checked by TLC only

`TradeReturns`, `StreamGoesOn`, `OpeningsKeepComing` and `ChartSettles`: the prover does
neither liveness under fairness nor ENABLED.

The inductive invariants (`IInv`, `RowsInv`, `SchedulerInv`, `ChartInv` and so on) are in
no run of their own, since what they say is a theorem. TLC finds them kept on the
instances of section 3 as well: a module that extends the MC module and the one
with the proofs, and a .cfg that names them, are all it takes.

## 5. What the runs found

* **A stop loss is followed by a reopening** (`finding_stop`). `Buy` and `Sell`
  clear the reopen flag if `isStopLimit` is set; `Trade` sets it when they have
  returned. After a stop the other side is opened at once, and its row is marked
  as a reopening.
* **A settling order leaves a position marked as open** (`finding_settle`). With
  Continue on, a close that the exchange cancels arms the reopening of the other
  side. The next call sends it as an opening; it finds the position, is sized to
  settle it, and settles it. Now both open flags are set and nothing is held, with
  levels for a position that does not exist. `FlagsNetPosition` still holds: the
  flags cancel out, and two more orders undo them, one of which opens a position
  where a close was meant.
* **A restart forgets the open position** (`finding_restart`). The flags start
  down and are never computed from the table, though `OpenStatus` does just that
  and has no caller. `OrphanStaysOrphaned` shows the rest: the parity says
  "holding", so nothing is opened, and no flag says what to close.
* **A profit is followed by a reopening all the same** (`finding_profit`). The close
  that takes a profit arms the reopening of the other side, as the flag of the
  profit is set after it. The armed flag opens the gate and the branch without any
  cross; `Buy` and `Sell` then drop it, as their comments say
  (`aiTrade.go:100`, `:194`), but go on: with the next candle the check on times lets
  the entry pass. All that the drop changes is the mark of the row.

Not violated, or read while modelling, without a run of their own:

* Volume is lost: it is added in memory and saved with a new high or low only,
  the other condition, `Second() > 59`, being never true
  (`create_candle_with_duration.go:36`); the comment at `:34` says that it is added
  every time.
* The close of a candle is the last price that was a new high or low, not the last
  price of the period.
* `Trade` can be called with the bid of one ticker and the ask of another
  (`bitflyerController.go:26`). `CopyNotStale` shows that each of the two is at
  least as new as what the tables showed.
* `CanBuy` and `CanSell` let a trade pass at the same time as the last one without a
  reopening (`Equal`), where the comments at `events.go:163` and `:185` allow it only
  with one. Live, the last trade has the time of its fill to the second, which is
  the start of a candle in second 0 alone: a trade recorded then does not keep the
  next one out of its candle. `SecondInCandleReOpens` leaves out this case;
  `PaperRoundTrips` likewise.
* `Profit` (`events.go:276`) pairs signals by their place. `BackTest` lets RSI,
  Ichimoku and Bollinger bands buy twice in a row, since their conditions ask for no
  sale in between and the gate for a back test never refuses. Two purchases are
  then a pair, and the optimizer ranks by a number that no account would show; a
  list cut inside a trade, as for the "Change" of the chart (`chart.html:566`),
  shifts all pairs. `ProfitIsRealized` says what the number is for such lists too,
  not that it is a gain.
* `OptimizeEma` and `OptimizeMacd` return the performance 1, their searches being
  commented out, where the comment at `dfcandle.go:272` promises 0 without a profit,
  and those at `:531` and `:543` a new search if no indicator can be used. With
  `num_ranking` above 0 there are always parameters, and no new search.
* With `num_ranking` missing from the configuration no parameters are ever found,
  and every call of `Trade` of a flat trader starts one more goroutine that searches
  without end, or once in `BackTest` mode (`aiTrade.go:327`, `:79`). `Optimizer` has
  both; no property is about it.
* The chart of `BackTest` mode shows the trades in memory: after a restart those
  before it are gone but for one, though the table has them (`webServer.go:211`,
  `aiTrade.go:52`), and a trade whose save failed is shown all the same. The list is
  read without a lock while it is appended to. `AnswerIsCoherent` is about the list
  as it is, and allows the torn element.
* A call of `Trade` that outlasts a minute can miss the minute of the openings, and
  a tick that waited serves a second twice (`bitflyerController.go:35`, `:49`).
* The block that answers a chart with Ichimoku is inside a comment
  (`webServer.go:100`), so the box never shows a line; the offset of `chikou` in the
  loop (`algo.go:56`) is the other way from that in its comment (`:37`).
* The page starts with "5m" (`chart.html:39`), for which the server has no table
  unless the configuration names it, and shows nothing until another duration is
  chosen. A trade has the time of its fill, which the start of a candle rarely is:
  the first such trade stays at hand for ever, and hides itself and all later ones
  (`chart.html:649`). `MarkersInPlace` is about the markers there are.
* `GetLatestCandle` and `GetEvents` (`webServer.go:245`, `:261`) do not return when
  they have found nothing, and write a second answer after the first.
* `AddHv` (`dfcandle.go:225`) takes as many candles as its period where the others
  want more.
* `tradeDuration` is 0 if the suffix in the configuration does not match
  (`aiTrade.go:301`), and the remainder by it panics; `GetSignalEventsByCount` is
  nil after a failed query at the start (`aiTrade.go:51`), and the first order
  dereferences it; the statements prepared for candles are never closed
  (`candle.go:85`).
* A restart that turns `BackTest` mode on while a position is held, or off after an
  odd number of rows, leaves the table with a parity the exchange does not share
  (`aiTrade.go:177`): both modes write the same table.

## 6. Plan

Done: the core (`SignalEvents`, `Trade`, `RoundTrip`, `Candles`) with its theorems;
the stream and the tables together (`Feed`) with the refinement; the loop
(`Scheduler`); sizes (`OrderSize`); the other mode of trading (`PaperTrade`); back
tests, optimizer and cloud (`Computation`); page and server (`Chart`).

The proofs of section 4, for each of these modules.

Open: nothing that a run checks and the provers could reach. A trade without a row
(a late fill, a lost reply, a failed save) is a failure of `Trade` after which
nothing ties the account to the table any more; how far they can drift apart is not
stated. What would say more are new theorems: that `PaperTrade` refines a form of `RoundTrip` without an order on
its way, and safety halves of the four liveness properties (that a call of `Trade` is
never later than its timers allow).

Not modelled, and why: how the charts look; the values that go-talib and `Hv`
compute from prices, which are numbers without state (what is done with them is
modelled for any values they may have); `Truncate`, `CancelOrder`, `GetBalance`,
`GetTradingCommission` and the execution check, which have no callers; signing and
encoding of requests; configuration, logging and notification beyond their ways
to end the process; `GetLatestCandle` and `GetEvents`, which keep no state.
