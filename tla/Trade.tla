------------------------------- MODULE Trade -------------------------------
(***************************************************************************)
(* application/controllers/aiTrade.go: the function Trade and the order    *)
(* routines Buy, Sell and WaitUntilOrderComplete it calls, with the three  *)
(* parties they talk to: the exchange (which fills or cancels an order on  *)
(* its own), the table SIGNAL_EVENTS, and the clock.                       *)
(*                                                                         *)
(* Buy and Sell, and the package variables they use, are mirror images:    *)
(* both are modelled once, by side.  A position has the side of the order  *)
(* that opens it ("BUY" is a long position), and                           *)
(*   reOpen["BUY"] = longReOpen,     reOpen["SELL"] = shortReOpen,         *)
(*   isOpen["BUY"] = buyOpen,        isOpen["SELL"] = sellOpen,            *)
(*   isProfit["BUY"] = isLongProfit, isProfit["SELL"] = isShortProfit.     *)
(*                                                                         *)
(* Time is counted in poll intervals of WaitUntilOrderComplete (5 s).      *)
(***************************************************************************)
EXTENDS SignalEvents, FiniteSets

CONSTANTS
    Continue,     \* config.Config.Continue
    Prices,       \* mid prices and fill prices
    Bands,        \* values of the Bollinger band of a candle
    Gap,          \* distance that 0.99, 0.975 and StopLimitPercent stand for
    Minute,       \* time units from one call of Trade to the next
    Period,       \* time units of a candle (tradeDuration)
    Hour,         \* time units of an hour
    ExpirePolls,  \* polls before WaitUntilOrderComplete gives up
    MaxTime,      \* bound: no Trade begins, and no idle time passes, later
    MaxFaults,    \* bound: lost replies, failed reads and failed saves
    MaxCrashes    \* bound: restarts of the process

ASSUME ContinueAssumption == Continue \in BOOLEAN
ASSUME PriceAssumption == Prices \subseteq Int /\ Bands \subseteq Int
ASSUME GapAssumption == Gap \in Nat \ {0}
ASSUME TimeAssumption ==
    /\ Minute \in Nat \ {0} /\ Period \in Nat \ {0} /\ Hour \in Nat \ {0}
    /\ ExpirePolls \in Nat \ {0}
ASSUME BoundAssumption ==
    MaxTime \in Nat /\ MaxFaults \in Nat /\ MaxCrashes \in Nat

VARIABLES
    now,          \* time.Now()
    pos,          \* exchange: signed position, in lots
    book,         \* exchange: every order accepted, in order of acceptance
    rows,         \* the table SIGNAL_EVENTS
    signals,      \* ai.SignalEvents.Signals
    startTrade,   \* ai.StartTrade
    reOpen, isOpen, isProfit,               \* package variables, by side
    isStopLimit, isNoPosition, profit, stopLimit,   \* package variables
    pc,           \* where Trade is; "idle" between two calls
    t,            \* locals of Trade
    call,         \* locals of Buy, Sell and WaitUntilOrderComplete
    faults, crashes   \* failures so far

environment == <<now, pos, book>>
memory == <<signals, startTrade>>
flags == <<reOpen, isOpen, isProfit, isStopLimit, profit, stopLimit>>
failures == <<faults, crashes>>
vars == <<environment, rows, memory, flags, isNoPosition, pc, t, call, failures>>

-----------------------------------------------------------------------------
(* Locals.                                                                 *)

NoSide == "none"
NoTrade == [i |-> 1, last |-> 0, price |-> 0, cross |-> NoSide, point |-> NoSide]
NoCall == [side |-> "BUY", closing |-> FALSE, held |-> 0, size |-> 0,
           oid |-> 0, polls |-> 0]

OrderState == {"ACTIVE", "COMPLETED", "CANCELED"}
Order == [side : Side, size : Nat, state : OrderState]

Off == [s \in Side |-> FALSE]

(* Truncation of a time to the start of its candle.                        *)
CandleStart(time) == time - (time % Period)

(* df.Candles[i].Time: the loop visits the last two candles.               *)
CandleTime == IF t.i = 1 THEN t.last - Period ELSE t.last

Fault == faults < MaxFaults /\ faults' = faults + 1

-----------------------------------------------------------------------------
(* The decisions of one iteration, from the price and the crosses.         *)

AnyReOpen == \E s \in Side : reOpen[s]

(* Variant: crosses counted whatever is open.                             *)
PointUnguarded(cross) == cross

(* buyPoint (side "BUY") and sellPoint: a golden cross counts unless a long
   is open, a dead cross unless a short is open. The four conditions of the
   source name both flags, and an open of one side and a close of the other
   add to the same point. *)
Point(cross) ==
    IF cross \in Side /\ ~isOpen[cross] THEN cross ELSE NoSide

(* Variant: the count of rows forgotten.                                   *)
GateWithoutCount(wide) ==
    /\ now % Hour < Minute \/ AnyReOpen
    /\ wide \/ AnyReOpen

(* The condition to evaluate the two opening branches. wide abstracts the
   comparison of the band width with OpenableBbWith and OpenableBbRate. *)
GateOpen(wide) ==
    /\ now % Hour < Minute \/ AnyReOpen
    /\ (isNoPosition /\ wide) \/ AnyReOpen

WantsOpen(p) == t.point = p \/ reOpen[p]

TookProfit(p) == IF p = "BUY" THEN t.price >= profit ELSE t.price <= profit
StoppedOut(p) == IF p = "BUY" THEN t.price <= stopLimit ELSE t.price >= stopLimit

WantsClose(p) ==
    /\ isOpen[p]
    /\ t.point = Other(p) \/ TookProfit(p) \/ StoppedOut(p)

(* Variant: the band taken even when the price is past it.                 *)
ProfitLevelFromBand(p, paid, band) == IF p = "BUY" THEN band + Gap ELSE band - Gap

(* Levels set when position p opens at price paid: the band beyond which the
   profit is taken, unless the price is already past it, and the stop. *)
ProfitLevel(p, paid, band) ==
    IF p = "BUY" THEN (IF paid > band THEN paid ELSE band) + Gap
                 ELSE (IF paid < band THEN paid ELSE band) - Gap
StopLevel(p, paid) == IF p = "BUY" THEN paid - Gap ELSE paid + Gap

-----------------------------------------------------------------------------
(* Control of Trade.                                                       *)

(* Variant: "continue" without advancing the loop.                         *)
NextIterationStuck ==
    /\ call' = NoCall
    /\ pc' = "iterate" /\ t' = [t EXCEPT !.point = NoSide]

(* The end of an iteration, by falling through or by "continue".           *)
NextIteration ==
    /\ call' = NoCall
    /\ IF t.i = 1
       THEN pc' = "iterate" /\ t' = [t EXCEPT !.i = 2, !.point = NoSide]
       ELSE pc' = "idle" /\ t' = NoTrade

(* The branch after the one of position p: the two opening branches, short
   first, then the two closing branches, short first. *)
AfterOpening(p) == IF p = "SELL" THEN "openLong" ELSE "closeShort"

NextBranch(p, closing) ==
    IF closing /\ p = "BUY"
    THEN NextIteration
    ELSE /\ call' = NoCall
         /\ pc' = IF closing THEN "closeLong" ELSE AfterOpening(p)
         /\ UNCHANGED t

(* GetAllSignalEventsCount: a failed count is read as 0, so as "flat".     *)
Begin ==
    /\ pc = "idle" /\ now < MaxTime /\ now % Minute = 0
    /\ \/ isNoPosition' = IsEven(Len(rows)) /\ UNCHANGED faults
       \/ isNoPosition' = TRUE /\ Fault
    /\ pc' = "begun"
    /\ UNCHANGED <<environment, rows, memory, flags, t, call, crashes>>

(* The early returns of a flat trader: off the candle boundary with nothing
   to reopen, or at low volatility. *)
Skip ==
    /\ pc = "begun" /\ isNoPosition
    /\ \E lowVolatility \in BOOLEAN :
          lowVolatility \/ (~AnyReOpen /\ now % Period >= Minute)
    /\ pc' = "idle"
    /\ UNCHANGED <<environment, rows, memory, flags, isNoPosition, t, call, failures>>

(* The price of the ticker passed by the caller and the candles: the last one
   is the current candle, or the one before when no tick has arrived yet. *)
Load ==
    /\ pc = "begun"
    /\ \E price \in Prices, age \in {0, Period} :
          t' = [NoTrade EXCEPT !.price = price, !.last = CandleStart(now) - age]
    /\ pc' = "iterate"
    /\ UNCHANGED <<environment, rows, memory, flags, isNoPosition, call, failures>>

(* The head of the loop: the crosses of candle i, then the opening gate.
   Two neighbouring candles cannot cross in the same direction. *)
Iterate ==
    /\ pc = "iterate"
    /\ \E cross \in (Side \union {NoSide}) \ (Side \intersect {t.cross}) :
          t' = [t EXCEPT !.cross = cross, !.point = Point(cross)]
    /\ \E wide \in BOOLEAN :
          pc' = IF GateOpen(wide) THEN "openShort" ELSE "closeShort"
    /\ UNCHANGED <<environment, rows, memory, flags, isNoPosition, call, failures>>

(* Variant: the sizes summed with their sign.                              *)
HeldSizeSigned == pos

(* The exchange's answer to GetPositions, summed up.                       *)
HeldSize == IF pos < 0 THEN -pos ELSE pos

(* The reopen flag of the order's side when Buy or Sell returns: set after an
   order that found a position, unless the other side just took its profit,
   and cleared after a stop. *)
Settled ==
    /\ Continue /\ ~isStopLimit
    /\ reOpen[call.side] \/ (call.held > 0 /\ ~isProfit[Other(call.side)])

(* The reopen flag that Buy and Sell go on with: dropped after a profit.   *)
Keeps(side) == reOpen[side] /\ ~isProfit[Other(side)]

(* Buy and Sell up to their first remote call.                             *)
Enter(side, closing) ==
    IF startTrade > CandleTime
    THEN NextIteration /\ UNCHANGED reOpen
    ELSE /\ reOpen' = [reOpen EXCEPT ![side] = Keeps(side)]
         /\ IF CanTrade(side, signals, CandleTime, Keeps(side))
            THEN /\ pc' = "quote"
                 /\ call' = [NoCall EXCEPT !.side = side, !.closing = closing]
                 /\ UNCHANGED t
            ELSE NextIteration

(* One branch of the loop body: the position it is about and whether it closes
   it; the order goes to the position's side to open, to the other to close. *)
Branch(stage, p, closing, wanted) ==
    /\ pc = stage
    /\ IF ~wanted
       THEN NextBranch(p, closing) /\ UNCHANGED <<reOpen>>
       ELSE Enter(IF closing THEN Other(p) ELSE p, closing)
    /\ UNCHANGED <<environment, rows, memory, isOpen, isProfit, isStopLimit,
                   profit, stopLimit, isNoPosition, failures>>

OpenShort  == Branch("openShort", "SELL", FALSE, WantsOpen("SELL"))
OpenLong   == Branch("openLong", "BUY", FALSE, WantsOpen("BUY"))
CloseShort == Branch("closeShort", "SELL", TRUE, WantsClose("SELL"))
CloseLong  == Branch("closeLong", "BUY", TRUE, WantsClose("BUY"))

-----------------------------------------------------------------------------
(* Buy and Sell after their first checks.                                  *)

(* A failed or an empty return of Buy or Sell: Trade continues the loop.   *)
NotOrdered ==
    /\ NextIteration
    /\ UNCHANGED <<environment, rows, memory, flags, isNoPosition, failures>>

(* GetTicker fails.                                                        *)
QuoteFails == pc = "quote" /\ NotOrdered

(* The size is one lot, or what GetPositions says is held, whatever its side.
   The error of GetPositions is dropped and its answer then taken as none. *)
Quote ==
    /\ pc = "quote"
    /\ \E held \in {0, HeldSize} :
          /\ IF held = HeldSize THEN UNCHANGED faults ELSE Fault
          /\ call' = [call EXCEPT !.held = held,
                                  !.size = IF held > 0 THEN held ELSE 1]
    /\ pc' = "send"
    /\ UNCHANGED <<environment, rows, memory, flags, isNoPosition, t, crashes>>

(* SendOrder: an error, or an answer without an id (insufficient funds).   *)
SendRejected == pc = "send" /\ NotOrdered

Accepted == Append(book, [side |-> call.side, size |-> call.size,
                          state |-> "ACTIVE"])

SendAccepted ==
    /\ pc = "send"
    /\ book' = Accepted
    /\ call' = [call EXCEPT !.oid = Len(book) + 1]
    /\ pc' = "wait"
    /\ UNCHANGED <<now, pos, rows, memory, flags, isNoPosition, t, failures>>

(* The order reaches the exchange, but SendOrder returns an error.         *)
SendReplyLost ==
    /\ pc = "send" /\ Fault
    /\ book' = Accepted
    /\ NextIteration
    /\ UNCHANGED <<now, pos, rows, memory, flags, isNoPosition, crashes>>

-----------------------------------------------------------------------------
(* WaitUntilOrderComplete.                                                 *)

(* Variant: an order answered for taken as done.                           *)
OrderIsAny(state) == TRUE

OrderIs(state) == book[call.oid].state = state

(* ListOrder fails or finds nothing, or the 30 s are over: Buy or Sell still
   update the reopen flags, and Trade continues the loop. *)
GiveUp ==
    /\ reOpen' = [reOpen EXCEPT ![call.side] = Settled]
    /\ NextIteration
    /\ UNCHANGED <<pos, book, rows, memory, isOpen, isProfit, isStopLimit,
                   profit, stopLimit, isNoPosition, crashes>>

Expire ==
    /\ pc = "wait" /\ call.polls >= ExpirePolls
    /\ GiveUp /\ UNCHANGED <<now, faults>>

PollFails ==
    /\ pc = "wait" /\ call.polls < ExpirePolls
    /\ Fault
    /\ now' = now + 1
    /\ GiveUp

(* An order still undecided at the last poll: where failures are modelled at
   all this is one of them, and may happen to every order. The bound on the
   failures does not make the exchange decide. *)
Overtime ==
    /\ MaxFaults > 0
    /\ faults' = IF faults < MaxFaults THEN faults + 1 ELSE faults

PollPending ==
    /\ pc = "wait" /\ call.polls < ExpirePolls
    /\ ~OrderIs("COMPLETED")
    /\ IF OrderIs("CANCELED") \/ call.polls + 1 < ExpirePolls
       THEN UNCHANGED faults ELSE Overtime
    /\ now' = now + 1
    /\ call' = [call EXCEPT !.polls = @ + 1]
    /\ UNCHANGED <<pos, book, rows, memory, flags, isNoPosition, pc, t, crashes>>

(* SignalEvents.Buy and Sell: checked once more, now at the current time,
   saved, and kept in memory whatever the save returned. *)
NewSignal == [side |-> call.side, time |-> now + 1, reOpen |-> reOpen[call.side]]
Recordable == CanTrade(call.side, signals, now + 1, reOpen[call.side])

RecordSignal ==
    /\ signals' = Append(signals, NewSignal)
    /\ \/ rows' = Append(rows, NewSignal) /\ UNCHANGED faults
       \/ rows' = rows /\ Fault

(* Trade, after a completed order that opens position p.                   *)
FinishOpening(p) ==
    /\ \E paid \in Prices, band \in Bands :
          /\ profit' = ProfitLevel(p, paid, band)
          /\ stopLimit' = StopLevel(p, paid)
    /\ isStopLimit' = FALSE
    /\ isProfit' = [isProfit EXCEPT ![Other(p)] = FALSE]
    /\ isOpen' = [isOpen EXCEPT ![p] = TRUE]
    /\ reOpen' = [reOpen EXCEPT ![p] = FALSE]
    /\ NextBranch(p, FALSE)

(* Trade, after a completed order that closes position p.                  *)
FinishClosing(p) ==
    /\ isProfit' = [isProfit EXCEPT ![p] = @ \/ TookProfit(p)]
    /\ isStopLimit' = (isStopLimit \/ StoppedOut(p))
    /\ isOpen' = [isOpen EXCEPT ![p] = FALSE]
    /\ profit' = 0 /\ stopLimit' = 0
    /\ reOpen' = [reOpen EXCEPT ![call.side] = Settled]
    /\ NextBranch(p, TRUE)

(* A refused signal leaves the trade unrecorded.                           *)
PollCompleted ==
    /\ pc = "wait" /\ call.polls < ExpirePolls
    /\ OrderIs("COMPLETED")
    /\ now' = now + 1
    /\ IF ~Recordable THEN GiveUp /\ UNCHANGED faults
       ELSE /\ RecordSignal
            /\ IF call.closing THEN FinishClosing(Other(call.side))
                               ELSE FinishOpening(call.side)
            /\ UNCHANGED <<pos, book, startTrade, isNoPosition, crashes>>

-----------------------------------------------------------------------------
(* The other parties.                                                      *)

(* A market order is filled as a whole ...                                 *)
Fill(o) ==
    /\ book[o].state = "ACTIVE"
    /\ book' = [book EXCEPT ![o].state = "COMPLETED"]
    /\ pos' = pos + Sign(book[o].side) * book[o].size
    /\ UNCHANGED <<now, rows, memory, flags, isNoPosition, pc, t, call, failures>>

(* ... or taken out of the book: expired, cancelled or rejected.           *)
Cancel(o) ==
    /\ book[o].state = "ACTIVE"
    /\ book' = [book EXCEPT ![o].state = "CANCELED"]
    /\ UNCHANGED <<now, pos, rows, memory, flags, isNoPosition, pc, t, call, failures>>

Exchange == \E o \in 1 .. Len(book) : Fill(o) \/ Cancel(o)

(* Time passes between two calls of Trade and during a remote call.        *)
Tick ==
    /\ pc \in {"idle", "begun", "quote", "send", "wait"}
    /\ now < MaxTime
    /\ now' = now + 1
    /\ UNCHANGED <<pos, book, rows, memory, flags, isNoPosition, pc, t, call, failures>>

(* The process stops and NewAI runs again: the package variables are back at
   their zero values, and the last row of the table is all that is read. A stop
   while an order is out counts as a fault too, for its outcome is lost. *)
Restart ==
    /\ crashes < MaxCrashes
    /\ crashes' = crashes + 1
    /\ IF pc = "wait" THEN Fault ELSE UNCHANGED faults
    /\ signals' = LoadLast(rows) /\ startTrade' = now
    /\ reOpen' = Off /\ isOpen' = Off /\ isProfit' = Off
    /\ isStopLimit' = FALSE /\ isNoPosition' = FALSE
    /\ profit' = 0 /\ stopLimit' = 0
    /\ pc' = "idle" /\ t' = NoTrade /\ call' = NoCall
    /\ UNCHANGED <<environment, rows>>

(* Nothing begins after MaxTime: the end of the modelled run.              *)
Horizon == pc = "idle" /\ now >= MaxTime /\ UNCHANGED vars

-----------------------------------------------------------------------------
Init ==
    /\ now = 0 /\ pos = 0 /\ book = << >> /\ rows = << >>
    /\ signals = << >> /\ startTrade = 0
    /\ reOpen = Off /\ isOpen = Off /\ isProfit = Off
    /\ isStopLimit = FALSE /\ isNoPosition = FALSE
    /\ profit = 0 /\ stopLimit = 0
    /\ pc = "idle" /\ t = NoTrade /\ call = NoCall
    /\ faults = 0 /\ crashes = 0

Loop == Iterate \/ OpenShort \/ OpenLong \/ CloseShort \/ CloseLong
Ordering == QuoteFails \/ Quote \/ SendRejected \/ SendAccepted \/ SendReplyLost
Waiting == Expire \/ PollFails \/ PollPending \/ PollCompleted

InTrade == Skip \/ Load \/ Loop \/ Ordering \/ Waiting

Next == Begin \/ InTrade \/ Exchange \/ Tick \/ Restart \/ Horizon

Spec == Init /\ [][Next]_vars

(* Once called, Trade runs on: its remote calls return and its timers fire. The
   exchange owes it nothing. *)
FairSpec == Spec /\ WF_vars(InTrade)

-----------------------------------------------------------------------------
(* Properties.                                                             *)

Stages == {"idle", "begun", "iterate", "openShort", "openLong", "closeShort",
           "closeLong", "quote", "send", "wait"}

TradeLocals ==
    [i : {1, 2}, last : Int, price : Int,
     cross : Side \union {NoSide}, point : Side \union {NoSide}]
CallLocals ==
    [side : Side, closing : BOOLEAN, held : Nat, size : Nat, oid : Nat, polls : Nat]

TypeOK ==
    /\ now \in Nat /\ pos \in Int
    /\ book \in Seq(Order) /\ rows \in Seq(Signal) /\ signals \in Seq(Signal)
    /\ startTrade \in Nat
    /\ reOpen \in [Side -> BOOLEAN] /\ isOpen \in [Side -> BOOLEAN]
    /\ isProfit \in [Side -> BOOLEAN]
    /\ isStopLimit \in BOOLEAN /\ isNoPosition \in BOOLEAN
    /\ profit \in Int /\ stopLimit \in Int
    /\ pc \in Stages
    /\ t \in TradeLocals /\ call \in CallLocals
    /\ pc = "wait" => call.oid \in 1 .. Len(book)
    /\ faults \in Nat /\ crashes \in Nat

(* The order waited for has been filled, but not recorded yet.             *)
InFlight == IF pc = "wait" /\ book[call.oid].state = "COMPLETED"
            THEN Sign(call.side) * call.size ELSE 0

(* The table and the account agree: as long as no reply, read or save failed,
   the exchange holds exactly the lot that the parity and the last side of
   SIGNAL_EVENTS stand for, plus the order being waited for once it is filled.
   Trade decides from the count of rows alone whether it is flat, and a restart
   has nothing but the table. *)
LedgerExplainsPosition ==
    faults = 0 => pos = LedgerPosition(rows) + InFlight

(* buyOpen and sellOpen, netted.                                           *)
NetOpen == (IF isOpen["BUY"] THEN 1 ELSE 0) - (IF isOpen["SELL"] THEN 1 ELSE 0)

(* The flags that decide what is closed add up to the position: without faults
   and restarts, buyOpen minus sellOpen is what the exchange holds, before the
   order being waited for. With Continue both may be set while nothing is. *)
FlagsNetPosition ==
    faults = 0 /\ crashes = 0 => NetOpen = pos - InFlight

(* Between two calls of a trader that does not reopen, the flags are what
   OpenStatus reads from the table, until a failure or a restart. *)
FlagsMatchLedger ==
    faults = 0 /\ crashes = 0 /\ pc = "idle" => isOpen = OpenStatus(rows)

(* While one position is open, its stop and its profit level lie on the two
   sides of each other that the closing branch expects: a stop out of order, or
   levels reset under an open position, would close it at once. A failure can
   leave both sides marked as open, which share one pair of levels. *)
LevelsInOrder ==
    faults = 0 => /\ isOpen["BUY"] => stopLimit < profit
                  /\ isOpen["SELL"] => profit < stopLimit

Recorded(side) == {k \in 1 .. Len(rows) : rows[k].side = side}
Filled(side) == {o \in 1 .. Len(book) :
                    book[o].side = side /\ book[o].state = "COMPLETED"}

(* No trade is recorded that was not made, or recorded twice, whatever is lost
   or restarted: the rows of a side are at most its filled orders. *)
NoPhantomRecord ==
    \A side \in Side : Cardinality(Recorded(side)) <= Cardinality(Filled(side))

(* A trade recorded in the candle in which the one before it was recorded is
   marked as a reopening, whatever fails and however late the orders are filled:
   no close in the candle of its opening, no opening in that of a close. One case
   is not covered. A row with the very time its candle starts does not count as
   one of that candle: CanBuy and CanSell let the next trade pass at the same
   time without a reopening, which the comments there (events.go:163, 185) say
   they do not. *)
SecondInCandleReOpens ==
    \A k \in 1 .. Len(rows) - 1 :
        rows[k].time > CandleStart(rows[k + 1].time) => rows[k + 1].reOpen

(* The second check, made when the order is done already, never refuses what
   the first let pass: no executed trade goes unrecorded for that reason. *)
NeverRefused == pc = "wait" => Recordable

RowAdded == Len(rows') > Len(rows)

(* aiTrade.go:100 and :194, on reOpen: after the profit of one side the other is
   not entered by a reopening. An opening that no cross asked for is one, whether
   its row is marked so or not. *)
NoReOpeningAfterProfit ==
    [][RowAdded /\ ~call.closing /\ t.point # call.side
          => ~isProfit[Other(call.side)]]_vars

(* aiTrade.go, on isStopLimit: no reopening after a stop loss.             *)
NoReOpenAfterStopLimit ==
    [][RowAdded /\ ~call.closing /\ isStopLimit => ~LastSignal(rows').reOpen]_vars

(* aiTrade.go, on positionRes: an order that finds a position settles it. It
   does not leave its own side marked as opened. *)
SettlingOrderOpensNothing ==
    [][RowAdded /\ call.held > 0 => ~isOpen'[call.side]]_vars

(* events.go OpenStatus: the table says which position is open. Between calls
   of Trade the flags that close positions say the same. *)
OpenStatusKept == faults = 0 /\ pc = "idle" => isOpen = OpenStatus(rows)

(* A position that a restart has made the trader forget.                   *)
Orphaned == crashes > 0 /\ isOpen = Off /\ ~IsEven(Len(rows))

(* The trader never acts on a forgotten position again: it neither sends an
   order nor reopens, as long as the count of rows can be read. *)
OrphanStaysOrphaned ==
    [][Orphaned /\ faults' = 0 => Orphaned' /\ book' = book]_vars

(* A call of Trade returns, even if the exchange never decides an order: it sends
   one after the other and waits for each until the timer of 30 s. *)
TradeReturns == pc # "idle" ~> pc = "idle"

(* What the trader promises about its account: see RoundTrip.              *)
Journal == [k \in 1 .. Len(rows) |-> rows[k].side]
Unrecorded == IF InFlight = 0 THEN NoSide ELSE call.side

RoundTrips == INSTANCE RoundTrip WITH
    held <- pos, journal <- Journal, pending <- Unrecorded

ImplementsRoundTrip == RoundTrips!Spec

-----------------------------------------------------------------------------
(* The inductive invariant behind LedgerExplainsPosition: what is true of a
   run without faults at every step, by the part of the code it is about. *)

InOrder == pc \in {"quote", "send", "wait"}

(* No signal is later than the clock, in memory or in the table.           *)
SignalsInPast ==
    /\ signals # << >> => LastSignal(signals).time <= now
    /\ rows # << >> => LastSignal(rows).time <= now

Managed == NetOpen = LedgerPosition(rows)

(* After a restart with an open position: nothing can make Trade act.      *)
Idled ==
    /\ ~IsEven(Len(rows)) /\ crashes # 0
    /\ isOpen = Off /\ reOpen = Off
    /\ pc \in {"idle", "begun", "iterate", "closeShort", "closeLong"}
    /\ pc # "idle" => ~isNoPosition

(* A reopening, and a point to open, are never for the side already open.  *)
ReOpensOther ==
    /\ \A s \in Side : reOpen[s] => ~isOpen[s]
    /\ pc = "openShort" => (t.point = "SELL" => ~isOpen["SELL"])
    /\ pc \in {"openShort", "openLong"}
          \/ (InOrder /\ ~call.closing /\ call.side = "SELL")
       => (t.point = "BUY" => ~isOpen["BUY"])

(* The order under way fits the flags and the position it was sized for.   *)
OrderFits ==
    /\ InOrder => IF call.closing THEN isOpen[Other(call.side)]
                                  ELSE ~isOpen[call.side]
    /\ pc \in {"quote", "send"} => call.polls = 0
    /\ pc \in {"send", "wait"} =>
          /\ call.size = 1
          /\ call.held > 0 => NetOpen = -Sign(call.side)

(* Only the order waited for can be undecided, and it is waited for until it
   is decided. *)
BookFits ==
    /\ \A o \in 1 .. Len(book) :
          book[o].state = "ACTIVE" => pc = "wait" /\ o = call.oid
    /\ pc = "wait" =>
          /\ book[call.oid].side = call.side /\ book[call.oid].size = call.size
          /\ call.polls >= ExpirePolls => book[call.oid].state = "CANCELED"

FaultFree ==
    /\ pos = LedgerPosition(rows) + InFlight
    /\ Managed \/ Idled
    /\ ReOpensOther /\ OrderFits /\ BookFits

IInv == TypeOK /\ SignalsInPast /\ (faults = 0 => FaultFree)
=============================================================================
