------------------------------- MODULE Chart -------------------------------
(***************************************************************************)
(* The page views/chart.html and the handler of /api/candle that feeds it  *)
(* (application/controllers/webServer.go with GetAllCandle of              *)
(* domain/service and the Add... methods of domain/model/dfcandle.go),     *)
(* while tickers and trades go on being written to the tables they read.   *)
(*                                                                         *)
(* In BackTest mode the trades are those the trader has in memory: after a *)
(* restart the newest row, and what has been traded since.                 *)
(*                                                                         *)
(* A candle is its start.  The page asks every three seconds and at every  *)
(* change of an option; the server runs each request in a goroutine of its *)
(* own, with two queries between which the tables move; answers come back  *)
(* in any order.  A panic in a handler ends the request without an answer. *)
(***************************************************************************)
EXTENDS Integers, Sequences, FiniteSets, FiniteSetsExt

CONSTANTS
    Durations,    \* config.Config.Durations
    Buttons,      \* the durations of its buttons
    Visits,       \* the duration the page starts with, the check boxes that are
                  \* used, the mode, and bounds: requests under way, clock,
                  \* trades, failures
    Period,       \* by indicator: the shortest it is drawn with
    Limit,        \* candles the page asks for
    Nil

ASSUME DurationsAssumption == Durations \subseteq Nat \ {0} /\ Nil \notin Durations
ASSUME LimitAssumption == Limit \in Nat \ {0}

Indicators == {"sma", "ema", "bbands", "ichimoku", "rsi", "macd", "hv"}
Boxes == Indicators \union {"events"}
ASSUME VisitsAssumption ==
    Visits \subseteq [first : Nat, options : SUBSET Boxes, backTest : BOOLEAN,
                      slots : Nat \ {0}, time : Nat, trades : Nat, faults : Nat]
ASSUME PeriodAssumption == Period \in [Indicators -> Nat]

VARIABLES
    now,
    candles,   \* by duration: the starts in its table
    trades,    \* the times in SIGNAL_EVENTS
    memory,    \* the times in Ai.SignalEvents
    page,      \* config of the page: duration, options, api.enable
    requests,  \* by slot: a request under way, or Nil
    drawn,     \* the chart on the screen, or Nil
    visit,     \* which of Visits it is
    faults

vars == <<now, candles, trades, memory, page, requests, drawn, visit, faults>>
tables == <<now, candles, trades, memory, visit>>
Slots == UNION {1 .. v.slots : v \in Visits}

Truncate(time, duration) == time - (time % duration)

-----------------------------------------------------------------------------
(* What the handler computes.                                              *)

(* SelectAll: the newest rows, in ascending order once they are listed.    *)
SelectAll(table) == {c \in table : Cardinality({b \in table : b > c}) < Limit}

(* Those not before the first candle.  The rows come in the order of time,  *)
(* in which memory has them as well.                                       *)
Since(list, first) ==
    LET late == {k \in DOMAIN list : list[k] >= first}
    IN IF late = {} THEN << >> ELSE SubSeq(list, Min(late), Len(list))

(* Variant: after the first candle, instead of not before it.              *)
CollectBehind(first) == SelectSeq(memory, LAMBDA t : t > first)

GetSignalEventsAfterTime(first) == Since(trades, first)
CollectAfter(first) == Since(memory, first)

Source == IF visit.backTest THEN memory ELSE trades
Events(first) ==
    IF visit.backTest THEN CollectAfter(first) ELSE GetSignalEventsAfterTime(first)

(* AddSma and its like: an indicator with too few candles is left out.     *)
AddsSma(n) == n > Period["sma"]
AddsEma(n) == n > Period["ema"]
AddsBBands(n) == Period["bbands"] <= n
AddsRsi(n) == n > Period["rsi"]
AddsMacd(n) == n > 1
AddsHv(n) == n >= Period["hv"]

(* The comment above this block ends at the next comment, four lines down: *)
(* the block is part of it, and AddIchimoku has no caller left.            *)
AddsIchimoku(n) == FALSE

Adds(indicator, n) ==
    \/ indicator = "sma" /\ AddsSma(n)
    \/ indicator = "ema" /\ AddsEma(n)
    \/ indicator = "bbands" /\ AddsBBands(n)
    \/ indicator = "ichimoku" /\ AddsIchimoku(n)
    \/ indicator = "rsi" /\ AddsRsi(n)
    \/ indicator = "macd" /\ AddsMacd(n)
    \/ indicator = "hv" /\ AddsHv(n)

-----------------------------------------------------------------------------
(* The database: what trading writes.                                      *)

(* A second passes; a ticker may come in.                                  *)
Clock ==
    /\ now < visit.time
    /\ now' = now + 1
    /\ \E received \in BOOLEAN :
          candles' = [d \in Durations |->
              IF received THEN candles[d] \union {Truncate(now', d)} ELSE candles[d]]
    /\ UNCHANGED <<trades, memory, page, requests, drawn, visit, faults>>

Fault ==
    /\ faults < visit.faults
    /\ faults' = faults + 1

(* A trade has the time of its fill, not that of a candle.  That Save has  *)
(* failed nobody looks at: memory has the trade all the same.              *)
Record ==
    /\ Len(trades) < visit.trades
    /\ \/ trades' = Append(trades, now) /\ UNCHANGED faults
       \/ UNCHANGED trades /\ Fault
    /\ memory' = Append(memory, now)

Traded ==
    /\ Record
    /\ UNCHANGED <<now, candles, page, requests, drawn, visit>>

(* The process is started again: the newest row is read, the requests that *)
(* were under way are not answered.                                        *)
Restart ==
    /\ Fault
    /\ memory' = IF trades = << >> THEN << >> ELSE << trades[Len(trades)] >>
    /\ requests' = [s \in Slots |-> Nil]
    /\ UNCHANGED <<now, candles, trades, page, drawn, visit>>

-----------------------------------------------------------------------------
(* The page asks.                                                          *)

(* With the request stays, for a property, the table as it is now; and     *)
(* from the first query on, if trades are wanted, those known by then and  *)
(* the time.                                                               *)
Request(asking) ==
    [pc |-> "asked", duration |-> asking.duration, wants |-> asking.wants,
     table |-> IF asking.duration \in Durations THEN candles[asking.duration] ELSE {},
     candles |-> {}, known |-> << >>, asof |-> 0, events |-> << >>, lines |-> {}]

(* send: nothing happens while the pointer is over the chart.              *)
Send(asking) ==
    IF asking.api
    THEN \E s \in 1 .. visit.slots : /\ requests[s] = Nil
                                   /\ requests' = [requests EXCEPT ![s] = Request(asking)]
    ELSE UNCHANGED requests

(* Variant: asks on its own only until there is a chart.                   *)
IntervalOnce ==
    /\ page.api /\ drawn = Nil
    /\ Send(page)
    /\ UNCHANGED <<tables, page, drawn, faults>>

Interval ==
    /\ page.api
    /\ Send(page)
    /\ UNCHANGED <<tables, page, drawn, faults>>

ChangeDuration(d) ==
    /\ d # page.duration
    /\ page' = [page EXCEPT !.duration = d]
    /\ Send(page')
    /\ UNCHANGED <<tables, drawn, faults>>

ChangeOption(o) ==
    /\ page' = [page EXCEPT !.wants = IF o \in @ THEN @ \ {o} ELSE @ \union {o}]
    /\ Send(page')
    /\ UNCHANGED <<tables, drawn, faults>>

MouseEnters ==
    /\ page.api
    /\ page' = [page EXCEPT !.api = FALSE]
    /\ UNCHANGED <<tables, requests, drawn, faults>>

MouseLeaves ==
    /\ ~page.api
    /\ page' = [page EXCEPT !.api = TRUE]
    /\ UNCHANGED <<tables, requests, drawn, faults>>

-----------------------------------------------------------------------------
(* The server answers: ApiCandleHandler.                                   *)

NoAnswer(s) == requests' = [requests EXCEPT ![s] = Nil]

(* GetAllCandle.  A duration the configuration does not name is 0, which   *)
(* no table is for: the failed query makes rows nil, and closing it panics.*)
GetAllCandle(s) ==
    LET r == requests[s] IN
    /\ r # Nil /\ r.pc = "asked"
    /\ IF r.duration \notin Durations THEN NoAnswer(s)
       ELSE LET rows == SelectAll(candles[r.duration]) IN
            requests' = [requests EXCEPT ![s] =
                [r EXCEPT !.pc = "read", !.candles = rows,
                          !.known = IF "events" \in r.wants THEN Source ELSE << >>,
                          !.asof = IF "events" \in r.wants THEN now ELSE 0,
                          !.lines = {o \in r.wants : Adds(o, Cardinality(rows))}]]
    /\ UNCHANGED <<tables, page, drawn, faults>>

(* The events from the first candle on; no candle, and df.Candles[0] panics. *)
AddEvents(s) ==
    LET r == requests[s] IN
    /\ r # Nil /\ r.pc = "read"
    /\ IF "events" \notin r.wants THEN requests' = [requests EXCEPT ![s].pc = "answered"]
       ELSE IF r.candles = {} THEN NoAnswer(s)
       ELSE requests' = [requests EXCEPT ![s] =
                [r EXCEPT !.pc = "answered", !.events = Events(Min(r.candles))]]
    /\ UNCHANGED <<tables, page, drawn, faults>>

(* Memory is read without a lock.  append makes the list longer before the *)
(* new element is there: read in between, it has any content at all.       *)
Torn == -1

ReadWhileTraded(s) ==
    LET r == requests[s] IN
    /\ visit.backTest
    /\ r # Nil /\ r.pc = "read" /\ "events" \in r.wants /\ r.candles # {}
    /\ CollectAfter(Min(r.candles)) # << >>
    /\ Record
    /\ requests' = [requests EXCEPT ![s] =
          [r EXCEPT !.pc = "answered",
                    !.events = Append(CollectAfter(Min(r.candles)), Torn)]]
    /\ UNCHANGED <<now, candles, page, drawn, visit>>

(* A failed query: nil rows closed, or nil events asked for their number.  *)
QueryFails(s) ==
    LET r == requests[s] IN
    /\ r # Nil
    /\ \/ r.pc = "asked"
       \/ r.pc = "read" /\ "events" \in r.wants /\ ~visit.backTest
    /\ Fault
    /\ NoAnswer(s)
    /\ UNCHANGED <<tables, page, drawn>>

-----------------------------------------------------------------------------
(* The page draws.                                                         *)

(* The candles as drawChart gets them: one after the other.                *)
Ascending(starts) ==
    CHOOSE c \in [1 .. Cardinality(starts) -> starts] :
        \A j, k \in DOMAIN c : j < k => c[j] < c[k]

(* Walks over the candles with the first event not marked yet at hand:     *)
(* for each candle, how many events are marked by then, if an event fits a *)
(* candle when Fits says so.                                               *)
Walk(c, events, Fits(_, _)) ==
    LET Marked[k \in 0 .. Len(c)] ==
            IF k = 0 THEN 0
            ELSE LET n == Marked[k - 1] IN
                 IF n < Len(events) /\ Fits(events[n + 1], c[k]) THEN n + 1 ELSE n
    IN {[candle |-> c[k], event |-> Marked[k]] :
            k \in {j \in 1 .. Len(c) : Marked[j] # Marked[j - 1]}}

(* Variant: takes an event at the first candle that is not before it.      *)
MarksLate(starts, events) == Walk(Ascending(starts), events, LAMBDA t, start : t <= start)

Marks(starts, events) == Walk(Ascending(starts), events, LAMBDA t, start : t = start)

(* drawChart returns early if the page, as its boxes are ticked by now,    *)
(* wants one of these and the answer does not have it.                     *)
Drawable(r) ==
    /\ r.candles # {}
    /\ {"macd", "hv"} \intersect page.wants \subseteq r.lines

Done(s) ==
    LET r == requests[s] IN
    /\ r # Nil /\ r.pc = "answered"
    /\ NoAnswer(s)
    /\ drawn' = IF Drawable(r)
                THEN [duration |-> r.duration, wants |-> r.wants, table |-> r.table,
                      candles |-> r.candles, known |-> r.known, asof |-> r.asof,
                      events |-> r.events, lines |-> r.lines,
                      marks |-> Marks(r.candles, r.events)]
                ELSE drawn
    /\ UNCHANGED <<tables, page, faults>>

-----------------------------------------------------------------------------
Init ==
    /\ visit \in Visits
    /\ now = 0
    /\ candles = [d \in Durations |-> {}]
    /\ trades = << >>
    /\ memory = << >>
    /\ page = [duration |-> visit.first, wants |-> {}, api |-> TRUE]
    /\ requests = [s \in Slots |-> Nil]
    /\ drawn = Nil
    /\ faults = 0

Handler(s) == GetAllCandle(s) \/ AddEvents(s) \/ Done(s)

User ==
    \/ \E d \in Buttons : ChangeDuration(d)
    \/ \E o \in visit.options : ChangeOption(o)
    \/ MouseEnters
    \/ MouseLeaves

Next ==
    \/ Clock
    \/ Traded
    \/ Restart
    \/ Interval
    \/ User
    \/ \E s \in Slots : Handler(s) \/ ReadWhileTraded(s) \/ QueryFails(s)

Spec == Init /\ [][Next]_vars

(* setInterval fires again and again, and each request is served.  The     *)
(* fairness of Interval is strong for the sake of the bound on requests:   *)
(* with all slots taken it is disabled, which the page never is.           *)
Fairness ==
    /\ SF_vars(Interval)
    /\ \A s \in Slots : WF_vars(Handler(s))

FairSpec == Spec /\ Fairness

-----------------------------------------------------------------------------
(* A candle that was in the table when the page asked is left out of the   *)
(* chart only for being older than all of it, and then the chart is full.  *)
NewestCandles ==
    \A c \in drawn.table \ drawn.candles :
        Cardinality({b \in drawn.candles : b > c}) = Limit

(* The trades of a chart are those known with its candles, from the first  *)
(* candle on, and behind them what has been traded since: the two reads    *)
(* are apart.  Only the last one may be torn, and in memory alone.         *)
TradesFromFirstCandle ==
    \E k \in 1 .. Len(drawn.known) + 1 :
        /\ \A j \in DOMAIN drawn.known : drawn.known[j] >= Min(drawn.candles) <=> k <= j
        /\ Len(drawn.events) >= Len(drawn.known) + 1 - k
        /\ \A i \in DOMAIN drawn.events :
              IF i + k - 1 <= Len(drawn.known)
              THEN drawn.events[i] = drawn.known[i + k - 1]
              ELSE \/ drawn.events[i] >= drawn.asof
                   \/ drawn.events[i] = Torn /\ visit.backTest /\ i = Len(drawn.events)

(* The candles and the trades of an answer come from two reads between     *)
(* which trading goes on, and LIMIT cuts the one end of a table that grows *)
(* at the other.  What is drawn misses no candle it could show, none of    *)
(* the trades that were there with its candles, in the table or, in        *)
(* BackTest mode, in memory, and has no trade older than the chart.        *)
AnswerIsCoherent ==
    drawn # Nil => /\ NewestCandles
                   /\ "events" \in drawn.wants => TradesFromFirstCandle

(* The page walks over candles and trades at once, with what is left of    *)
(* the trades kept outside the loop.  A marker stands at the candle in     *)
(* which its trade was made, the markers are in the order of the trades,   *)
(* and no trade has two.                                                   *)
MarkersInPlace ==
    drawn # Nil =>
        /\ \A m \in drawn.marks :
              /\ m.candle \in drawn.candles /\ m.event \in DOMAIN drawn.events
              /\ m.candle <= drawn.events[m.event]
              /\ drawn.events[m.event] < m.candle + drawn.duration
        /\ \A m, n \in drawn.marks : m.candle < n.candle <=> m.event < n.event

(* Answers overtake each other, so that the chart of an old choice may     *)
(* replace that of a newer one.  Once the user leaves the page alone, with *)
(* a duration the server keeps and candles enough for MACD and HV if they  *)
(* are wanted, the chart is that of the choice, and stays so.              *)
Servable ==
    /\ page.api /\ page.duration \in Durations
    /\ LET n == Cardinality(SelectAll(candles[page.duration]))
       IN n > 0 /\ \A o \in {"macd", "hv"} \intersect page.wants : Adds(o, n)

Shown == drawn # Nil /\ drawn.duration = page.duration /\ drawn.wants = page.wants

ChartSettles == <>[]Servable /\ <>[][page' = page]_vars => <>[]Shown
=============================================================================
