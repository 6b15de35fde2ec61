-------------------------------- MODULE Feed --------------------------------
(***************************************************************************)
(* The way of a ticker through the process:                                *)
(*   - bitflyer/ticker.go, GetRealTimeTicker: a goroutine that dials,      *)
(*     subscribes, reads, and sends on an unbuffered channel;              *)
(*   - application/controllers/bitflyerController.go: a goroutine that     *)
(*     takes from the channel, and for each duration assigns the variable  *)
(*     tradeTicker and enters the ticker in a table of candles (module     *)
(*     Candles);                                                           *)
(*   - a goroutine that hands a copy of tradeTicker to Trade.              *)
(*                                                                         *)
(* A ticker is its place in what the exchange publishes; 0 is the ticker   *)
(* that nothing was assigned to.  Assigning or copying the struct takes a  *)
(* step for each of two words, in either order: no lock holds the two      *)
(* goroutines apart.                                                       *)
(***************************************************************************)
EXTENDS Integers, Sequences, FiniteSets

CONSTANTS
    Published,   \* what the exchange publishes: a sequence of times and prices
    Durations, Prices, Stored,   \* as in Candles
    MaxFaults    \* bound: failures of connections, statements and the process

ASSUME PublishedAssumption ==
    /\ Published \in Seq([time : Nat, price : Prices])
    /\ \A j, k \in DOMAIN Published : j <= k => Published[j].time <= Published[k].time

ASSUME DurationAssumption == Durations \subseteq Nat \ {0}
ASSUME FaultsAssumption == MaxFaults \in Nat

Tickers == 1 .. Len(Published)
Conns == 1 .. MaxFaults + 1
Word == {"bid", "ask"}   \* BestBid and BestAsk stand for the words of the struct

VARIABLES
    clock,        \* tickers published so far
    subscribed,   \* connections the exchange sends tickers to
    wire,         \* by connection: tickers sent and not read
    conn,         \* the connection the reader uses: the last one dialed
    reader, held, \* where GetRealTimeTicker is, and the ticker it is to send
    received,     \* tickers taken from the channel, over all restarts
    seen, todo, table,   \* as in Candles
    entering,     \* the duration the loop is at, or 0
    unwritten,    \* words of tradeTicker still to be assigned for it
    tradeTicker,
    trader, copy, uncopied,   \* the goroutine that calls Trade
    inTables,     \* the last ticker this process has entered in a table
    floor,        \* inTables when the copy began
    losses,       \* failures that cost a table a ticker
    faults        \* all failures

exchange == <<clock, subscribed, wire>>
stream == <<conn, reader, held>>
tables == <<seen, todo, table, losses>>
ingest == <<received, tables, entering, unwritten, tradeTicker, inTables>>
trading == <<trader, copy, uncopied, floor>>
vars == <<exchange, stream, ingest, trading, faults>>

Tables == INSTANCE Candles WITH
    faults <- losses,
    MaxTime <- IF Published = << >> THEN 0 ELSE Published[Len(Published)].time,
    MaxTicks <- Len(Published)

Fault == faults < MaxFaults /\ faults' = faults + 1
NoTicker == [w \in Word |-> 0]
Last(list) == IF list = << >> THEN 0 ELSE list[Len(list)]

Exited == reader = "exited"

-----------------------------------------------------------------------------
(* The exchange.                                                           *)

Publish ==
    /\ clock < Len(Published)
    /\ clock' = clock + 1
    /\ wire' = [c \in Conns |-> IF c \in subscribed THEN Append(wire[c], clock + 1)
                                                    ELSE wire[c]]
    /\ UNCHANGED <<subscribed, stream, ingest, trading, faults>>

(* A connection is lost without a word: nothing comes any more. ReadJSON has
   no deadline. *)
SilentLoss ==
    /\ Fault
    /\ \E c \in subscribed : subscribed' = subscribed \ {c}
    /\ UNCHANGED <<clock, wire, stream, ingest, trading>>

-----------------------------------------------------------------------------
(* GetRealTimeTicker.                                                      *)

Dial ==
    /\ reader = "dial" /\ reader' = "subscribe"
    /\ conn' = conn + 1
    /\ UNCHANGED <<exchange, held, ingest, trading, faults>>

(* Variant: the failure returned, and not tried again.                     *)
DialGivesUp ==
    /\ reader = "dial" /\ Fault
    /\ reader' = "returned"
    /\ UNCHANGED <<exchange, conn, held, ingest, trading>>

(* A failed dial calls the function again, which starts with a dial.       *)
DialFails ==
    /\ reader = "dial" /\ Fault
    /\ UNCHANGED <<exchange, stream, ingest, trading>>

Subscribe ==
    /\ reader = "subscribe" /\ reader' = "read"
    /\ subscribed' = subscribed \union {conn}
    /\ UNCHANGED <<clock, wire, conn, held, ingest, trading, faults>>

(* Everything in memory is gone, the durations left of a ticker among it; the
   tables stay. *)
ProcessEnds ==
    /\ reader' = "exited" /\ held' = 0 /\ conn' = 0
    /\ subscribed' = {} /\ wire' = [c \in Conns |-> << >>]
    /\ Tables!Restart \/ (todo = {} /\ UNCHANGED tables)
    /\ entering' = 0 /\ unwritten' = {} /\ tradeTicker' = NoTicker /\ inTables' = 0
    /\ trader' = "idle" /\ copy' = NoTicker /\ uncopied' = {} /\ floor' = 0
    /\ UNCHANGED <<clock, received>>

(* log.Fatal.                                                              *)
SubscribeFails == reader = "subscribe" /\ Fault /\ ProcessEnds

(* Variant: a connection left open is read as well.                        *)
OnWireOfAny(c) == c \in 1 .. conn /\ wire[c] # << >>
OnWire(c) == c = conn /\ wire[c] # << >>

(* Variant: the newest message of the connection read.                     *)
ReadNewest ==
    /\ reader = "read" /\ reader' = "send" /\ OnWire(conn)
    /\ held' = Last(wire[conn]) /\ wire' = [wire EXCEPT ![conn] = << >>]
    /\ UNCHANGED <<clock, subscribed, conn, ingest, trading, faults>>

Read ==
    /\ reader = "read" /\ reader' = "send"
    /\ \E c \in Conns :
          /\ OnWire(c)
          /\ held' = Head(wire[c])
          /\ wire' = [wire EXCEPT ![c] = Tail(@)]
    /\ UNCHANGED <<clock, subscribed, conn, ingest, trading, faults>>

(* A message that is no ticker: "continue OUTER".                          *)
ReadOther ==
    /\ reader = "read" /\ Fault
    /\ OnWire(conn)
    /\ wire' = [wire EXCEPT ![conn] = Tail(@)]
    /\ UNCHANGED <<clock, subscribed, stream, ingest, trading>>

(* Any error: "goto START". The connection is closed only when the function
   returns, which it does not; the exchange may go on sending to it. *)
ReadFails ==
    /\ reader = "read" /\ Fault
    /\ reader' = "dial"
    /\ subscribed' \in {subscribed, subscribed \ {conn}}
    /\ UNCHANGED <<clock, wire, conn, held, ingest, trading>>

-----------------------------------------------------------------------------
(* The goroutine that takes tickers.                                       *)

(* Variant: a ticker taken while the last one is being entered.            *)
TakesAlways == entering = 0
TakesNext == todo = {}

(* The channel has no buffer: sending and receiving are one step.          *)
Deliver ==
    /\ reader = "send" /\ TakesNext
    /\ reader' = "read" /\ held' = 0
    /\ received' = Append(received, held)
    /\ seen' = Append(seen, Published[held])
    /\ todo' = Durations
    /\ UNCHANGED <<exchange, conn, table, losses, entering, unwritten, tradeTicker,
                   inTables, trading, faults>>

(* Variant: tradeTicker not assigned.                                      *)
NextDurationOnly ==
    /\ entering = 0 /\ entering' \in todo /\ unwritten' = {}
    /\ UNCHANGED <<exchange, stream, received, tables, tradeTicker, inTables, trading, faults>>

NextDuration ==
    /\ entering = 0 /\ entering' \in todo /\ unwritten' = Word
    /\ UNCHANGED <<exchange, stream, received, tables, tradeTicker, inTables, trading, faults>>

(* tradeTicker = ticker.                                                   *)
Assign ==
    /\ \E w \in unwritten :
          /\ tradeTicker' = [tradeTicker EXCEPT ![w] = Last(received)]
          /\ unwritten' = unwritten \ {w}
    /\ UNCHANGED <<exchange, stream, received, tables, entering, inTables, trading, faults>>

Enter ==
    /\ entering \in todo /\ unwritten = {}
    /\ entering' = 0 /\ inTables' = Last(received)
    /\ \/ Tables!CreateCandleWithDuration(entering) /\ UNCHANGED faults
       \/ Tables!StatementFails(entering) /\ Fault
    /\ UNCHANGED <<exchange, stream, received, unwritten, tradeTicker, trading>>

-----------------------------------------------------------------------------
(* The goroutine that calls Trade.                                         *)

(* GetAllCandle, before the call.                                          *)
ReadCandles ==
    /\ trader = "idle" /\ ~Exited
    /\ trader' = "copy" /\ uncopied' = Word /\ copy' = NoTicker
    /\ floor' = inTables
    /\ UNCHANGED <<exchange, stream, ingest, faults>>

(* The SELECT fails: rows is nil, and its deferred Close panics.           *)
ReadCandlesPanics == trader = "idle" /\ ~Exited /\ Fault /\ ProcessEnds

(* The argument of ai.Trade(tradeTicker).                                  *)
Copy ==
    /\ trader = "copy"
    /\ \E w \in uncopied :
          /\ copy' = [copy EXCEPT ![w] = tradeTicker[w]]
          /\ uncopied' = uncopied \ {w}
    /\ UNCHANGED <<exchange, stream, ingest, trader, floor, faults>>

Traded ==
    /\ trader = "copy" /\ uncopied = {}
    /\ trader' = "idle" /\ copy' = NoTicker /\ floor' = 0
    /\ UNCHANGED <<exchange, stream, ingest, uncopied, faults>>

Restart ==
    /\ Exited /\ reader' = "dial"
    /\ UNCHANGED <<exchange, conn, held, ingest, trading, faults>>

-----------------------------------------------------------------------------
Init ==
    /\ clock = 0 /\ subscribed = {} /\ wire = [c \in Conns |-> << >>]
    /\ conn = 0 /\ reader = "dial" /\ held = 0
    /\ received = << >> /\ seen = << >> /\ todo = {}
    /\ table = [d \in Durations |-> << >>]
    /\ entering = 0 /\ unwritten = {} /\ tradeTicker = NoTicker
    /\ trader = "idle" /\ copy = NoTicker /\ uncopied = {}
    /\ inTables = 0 /\ floor = 0 /\ losses = 0 /\ faults = 0

ReaderStep == Dial \/ Subscribe \/ Read \/ Deliver
IngestStep == NextDuration \/ Assign \/ Enter
TraderStep == ReadCandles \/ Copy \/ Traded
Failure ==
    \/ SilentLoss \/ DialFails \/ SubscribeFails \/ ReadOther \/ ReadFails
    \/ ReadCandlesPanics

Next == Publish \/ ReaderStep \/ IngestStep \/ TraderStep \/ Failure \/ Restart

Spec == Init /\ [][Next]_vars

(* The goroutines go on; the exchange, and who restarts the process, need not. *)
FairSpec == Spec /\ WF_vars(ReaderStep) /\ WF_vars(IngestStep) /\ WF_vars(TraderStep)

-----------------------------------------------------------------------------
(* Properties.                                                             *)

(* Over reconnects and restarts no ticker is taken twice or after a later one,
   though connections left open go on receiving (ticker.go, goto START). *)
ReceivedInOrder == \A k \in 1 .. Len(received) - 1 : received[k] < received[k + 1]

(* Without failures no ticker is lost between the exchange and the tables,
   however slow the goroutine that enters them. *)
NothingSkipped ==
    faults = 0 => \A k \in 1 .. Len(received) - 1 : received[k + 1] = received[k] + 1

(* The price Trade is called with is not older than what any table showed when
   the call began: both parts of it, torn or not. *)
CopyNotStale == \A w \in Word : (trader = "copy" /\ w \notin uncopied) => copy[w] >= floor

(* The stream feeds the tables as Candles demands: one ticker after the other,
   in the order of their times, each under all durations. *)
ImplementsCandles == Tables!Spec

Pending(k) == held = k \/ (conn # 0 /\ \E j \in 1 .. Len(wire[conn]) : wire[conn][j] = k)

(* A ticker that has come over the wire is taken, or its connection is given up. *)
EveryTickerHandled == \A k \in Tickers : Pending(k) ~> ~Pending(k)

(* As long as the process stays up, the reader comes back to a connection it can
   read (ticker.go, the recursion and goto START), and no ticker waits for ever
   on the wire, or to be taken by the loop that enters tickers. *)
StreamGoesOn == (<>[](~Exited) => []<>(reader = "read")) /\ EveryTickerHandled
=============================================================================
