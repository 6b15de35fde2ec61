--------------------------- MODULE Candles_proofs ---------------------------
(***************************************************************************)
(* Proofs about Candles, for every set of durations and prices and every   *)
(* way the database rounds a price.                                        *)
(***************************************************************************)
EXTENDS Candles, TLAPS

-----------------------------------------------------------------------------
(* Operators of the model.                                                 *)

(* The start of a candle is a multiple of its duration.                    *)
LEMMA StartOfCandle ==
    ASSUME NEW time \in Nat, NEW d \in Nat \ {0}
    PROVE  /\ TruncateDateTime(time, d) \in Nat
           /\ TruncateDateTime(time, d) % d = 0
           /\ TruncateDateTime(time, d) <= time
<1> DEFINE q == time \div d
<1>1. time = d * q + (time % d) /\ q \in Nat
  OBVIOUS
<1>2. TruncateDateTime(time, d) = d * q
  BY <1>1 DEF TruncateDateTime
<1>3. ASSUME NEW x \in Nat PROVE (d * x) % d = 0
  OBVIOUS
<1>4. (d * q) % d = 0
  BY <1>1, <1>3
<1>5. TruncateDateTime(time, d) \in Nat /\ TruncateDateTime(time, d) <= time
  BY DEF TruncateDateTime
<1> QED
  BY <1>2, <1>4, <1>5

(* A later time stamp never falls into an earlier candle.                  *)
LEMMA StartsInOrder ==
    ASSUME NEW d \in Nat \ {0}, NEW u \in Nat, NEW v \in Nat, u <= v
    PROVE  TruncateDateTime(u, d) <= TruncateDateTime(v, d)
<1> DEFINE p == u \div d
           q == v \div d
<1>1. /\ u = d * p + (u % d) /\ p \in Nat /\ u % d \in 0 .. d - 1
      /\ v = d * q + (v % d) /\ q \in Nat /\ v % d \in 0 .. d - 1
  OBVIOUS
<1>2. p <= q
  <2> SUFFICES ASSUME q + 1 <= p PROVE FALSE
    BY <1>1
  <2>1. ASSUME NEW x \in Nat, NEW y \in Nat, y + 1 <= x PROVE d * y + d <= d * x
    OBVIOUS
  <2>2. d * q + d <= d * p
    BY <1>1, <2>1
  <2> QED
    BY <1>1, <2>2
<1>3. ASSUME NEW x \in Nat, NEW y \in Nat, x <= y PROVE d * x <= d * y
  <2>1. y - x \in Nat /\ y = x + (y - x)
    BY <1>3
  <2>2. ASSUME NEW k \in Nat PROVE d * (x + k) = d * x + d * k /\ d * k \in Nat /\ d * x \in Nat
    OBVIOUS
  <2> QED
    BY <2>1, <2>2
<1>4. d * p <= d * q
  BY <1>1, <1>2, <1>3
<1> QED
  BY <1>1, <1>4 DEF TruncateDateTime

(* What one ticker does to a row, and to a table.                          *)
LEMMA UpdatedRow ==
    ASSUME NEW row \in Candle, NEW price \in Prices
    PROVE  /\ Updated(row, price) \in Candle
           /\ Updated(row, price).open = row.open
           /\ Updated(row, price).high = IF row.high < price THEN Stored[price] ELSE row.high
           /\ Updated(row, price).low = IF row.low > price /\ ~(row.high < price)
                                       THEN Stored[price] ELSE row.low
           /\ Updated(row, price).close = IF row.high < price \/ row.low > price
                                         THEN Stored[price] ELSE row.close
<1> DEFINE stored == Stored[price]
           volume == row.volume + 1
           saved == [row EXCEPT !.close = stored, !.volume = volume]
<1>1. stored \in Prices
  BY StoredAssumption
<1>2. volume \in Nat
  BY DEF Candle
<1>3. Updated(row, price) = IF row.high < price THEN [saved EXCEPT !.high = stored]
                            ELSE IF row.low > price THEN [saved EXCEPT !.low = stored]
                            ELSE row
  BY DEF Updated
<1> HIDE DEF stored, volume
<1>4. /\ saved \in Candle
      /\ saved.open = row.open /\ saved.close = stored
      /\ saved.high = row.high /\ saved.low = row.low
  BY <1>1, <1>2 DEF Candle
<1> HIDE DEF saved
<1>5. \A x \in Prices, c \in Candle :
         /\ [c EXCEPT !.high = x] \in Candle
         /\ [c EXCEPT !.high = x].high = x
         /\ [c EXCEPT !.high = x].open = c.open
         /\ [c EXCEPT !.high = x].low = c.low
         /\ [c EXCEPT !.high = x].close = c.close
         /\ [c EXCEPT !.low = x] \in Candle
         /\ [c EXCEPT !.low = x].low = x
         /\ [c EXCEPT !.low = x].open = c.open
         /\ [c EXCEPT !.low = x].high = c.high
         /\ [c EXCEPT !.low = x].close = c.close
  BY DEF Candle
<1> QED
  BY <1>1, <1>3, <1>4, <1>5 DEF stored

LEMMA NewRow ==
    ASSUME NEW price \in Prices
    PROVE  NewCandle(price) \in Candle
BY StoredAssumption DEF NewCandle, Candle

LEMMA EnteredTable ==
    ASSUME NEW d \in Durations, NEW rows, IsTable(rows, d), ticker \in Ticker
    PROVE  LET start == TruncateDateTime(ticker.time, d)
               after == Entered(rows, d)
           IN  /\ IsTable(after, d)
               /\ DOMAIN after = DOMAIN rows \union {start}
               /\ \A s \in DOMAIN rows : s # start => after[s] = rows[s]
               /\ after[start] = IF start \in DOMAIN rows
                                 THEN Updated(rows[start], ticker.price)
                                 ELSE NewCandle(ticker.price)
<1> DEFINE start == TruncateDateTime(ticker.time, d)
           after == Entered(rows, d)
<1>1. ticker.time \in Nat /\ ticker.price \in Prices /\ d \in Nat \ {0}
  BY DurationAssumption DEF Ticker
<1>2. start \in Nat /\ start % d = 0
  BY <1>1, StartOfCandle
<1>3. NewCandle(ticker.price) \in Candle
  BY <1>1, NewRow
<1>4. CASE start \in DOMAIN rows
  <2>1. after = [rows EXCEPT ![start] = Updated(rows[start], ticker.price)]
    BY <1>4 DEF Entered, Saved
  <2>2. rows[start] \in Candle
    BY <1>4 DEF IsTable
  <2>3. Updated(rows[start], ticker.price) \in Candle
    BY <1>1, <2>2, UpdatedRow
  <2> QED
    BY <1>2, <1>4, <2>1, <2>3 DEF IsTable
<1>5. CASE start \notin DOMAIN rows
  <2>1. after = [s \in DOMAIN rows \union {start} |->
                    IF s = start THEN NewCandle(ticker.price) ELSE rows[s]]
    BY <1>5 DEF Entered, Inserted
  <2> QED
    BY <1>2, <1>3, <1>5, <2>1 DEF IsTable
<1> QED
  BY <1>4, <1>5

-----------------------------------------------------------------------------
(* Every row is a candle of its table: the tables hold rows at the starts of
   candles only, with prices the database can return. *)
THEOREM TypeInvariant == Spec => []TypeOK
<1>1. Init => TypeOK
  <2> SUFFICES ASSUME Init PROVE TypeOK
    OBVIOUS
  <2>1. \A d \in Durations : IsTable(table[d], d)
    BY DEF Init, IsTable
  <2> QED
    BY <2>1 DEF Init, TypeOK
<1>2. TypeOK /\ [Next]_vars => TypeOK'
  <2> SUFFICES ASSUME TypeOK, [Next]_vars PROVE TypeOK'
    OBVIOUS
  <2>1. CASE Receive
    <3>1. PICK time \in 0 .. MaxTime, price \in Prices :
             seen' = Append(seen, [time |-> time, price |-> price])
      BY <2>1 DEF Receive
    <3>2. [time |-> time, price |-> price] \in Ticker
      BY BoundAssumption DEF Ticker
    <3>3. seen' \in Seq(Ticker) /\ seen' # << >>
      BY <3>1, <3>2 DEF TypeOK
    <3> QED
      BY <2>1, <3>3 DEF Receive, TypeOK, IsTable
  <2>2. ASSUME NEW d \in Durations, CreateCandleWithDuration(d) PROVE TypeOK'
    <3>1. ticker \in Ticker
      BY <2>2 DEF CreateCandleWithDuration, TypeOK, ticker
    <3>2. IsTable(Entered(table[d], d), d)
      BY <3>1, EnteredTable DEF TypeOK
    <3>3. table' = [table EXCEPT ![d] = Entered(table[d], d)]
      BY <2>2 DEF CreateCandleWithDuration
    <3>4. \A e \in Durations : table'[e] = IF e = d THEN Entered(table[d], d) ELSE table[e]
      BY <3>3 DEF TypeOK
    <3>5. \A e \in Durations : IsTable(table'[e], e)
      BY <3>2, <3>4 DEF TypeOK
    <3>6. table' = [e \in Durations |-> table'[e]]
      BY <3>3 DEF TypeOK
    <3>7. seen' = seen /\ faults' = faults /\ todo' = todo \ {d} /\ todo # {}
      BY <2>2 DEF CreateCandleWithDuration
    <3> QED
      BY <3>5, <3>6, <3>7 DEF TypeOK
  <2>3. ASSUME NEW d \in Durations, StatementFails(d) PROVE TypeOK'
    BY <2>3 DEF StatementFails, TypeOK, IsTable
  <2>4. CASE Restart
    BY <2>4 DEF Restart, TypeOK, IsTable
  <2>5. CASE UNCHANGED vars
    BY <2>5 DEF vars, TypeOK, IsTable
  <2> QED
    BY <2>1, <2>2, <2>3, <2>4, <2>5 DEF Next, Horizon
<1> QED
  BY <1>1, <1>2, PTL DEF Spec

-----------------------------------------------------------------------------
(* What a step does to the tickers of a candle.                            *)

LEMMA TickersKept ==
    ASSUME TypeOK, NEW d \in Durations, NEW s,
           Offered(d)' = Offered(d),
           \A k \in 1 .. Offered(d) : seen'[k] = seen[k]
    PROVE  /\ TickersOf(d, s)' = TickersOf(d, s)
           /\ \A k \in TickersOf(d, s) : PriceAt(k)' = PriceAt(k)
BY DEF TickersOf, PriceAt

(* Rows and their tickers left alone keep what was true of them.           *)
LEMMA RowKept ==
    ASSUME TypeOK, NEW d \in Durations, NEW s, NEW row,
           Offered(d)' = Offered(d),
           \A k \in 1 .. Offered(d) : seen'[k] = seen[k]
    PROVE  /\ FromItsPeriod(row, d, s) => FromItsPeriod(row, d, s)'
           /\ SpansItsPeriod(row, d, s) => SpansItsPeriod(row, d, s)'
<1>1. /\ TickersOf(d, s)' = TickersOf(d, s)
      /\ \A k \in TickersOf(d, s) : PriceAt(k)' = PriceAt(k)
  BY TickersKept
<1>2. {PriceAt(k) : k \in TickersOf(d, s)}' = {PriceAt(k) : k \in TickersOf(d, s)}
  BY <1>1
<1>3. FromItsPeriod(row, d, s) => FromItsPeriod(row, d, s)'
  BY <1>2 DEF FromItsPeriod
<1>4. SpansItsPeriod(row, d, s) => SpansItsPeriod(row, d, s)'
  BY <1>1 DEF SpansItsPeriod
<1> QED
  BY <1>3, <1>4

(* More tickers offered, though not entered, leave a row's prices its own. *)
LEMMA RowStays ==
    ASSUME TypeOK, NEW d \in Durations, NEW s, NEW row,
           seen' = seen, Offered(d) <= Offered(d)', Offered(d) \in Int, Offered(d)' \in Int
    PROVE  FromItsPeriod(row, d, s) => FromItsPeriod(row, d, s)'
<1>1. TickersOf(d, s) \subseteq TickersOf(d, s)'
  BY DEF TickersOf
<1>2. \A k : PriceAt(k)' = PriceAt(k)
  BY DEF PriceAt
<1>3. {PriceAt(k) : k \in TickersOf(d, s)} \subseteq {PriceAt(k) : k \in TickersOf(d, s)}'
  BY <1>1, <1>2
<1> QED
  BY <1>3 DEF FromItsPeriod

(* Taking a ticker off the channel offers it to no table yet.              *)
LEMMA ReceiveOffersNothing ==
    ASSUME TypeOK, Receive, NEW d \in Durations
    PROVE  Offered(d)' = Offered(d) /\ \A k \in 1 .. Offered(d) : seen'[k] = seen[k]
<1>1. PICK time \in 0 .. MaxTime, price \in Prices :
         seen' = Append(seen, [time |-> time, price |-> price])
  BY DEF Receive
<1>2. [time |-> time, price |-> price] \in Ticker
  BY BoundAssumption DEF Ticker
<1> QED
  BY <1>1, <1>2 DEF Receive, Offered, TypeOK

-----------------------------------------------------------------------------
(* Entering a ticker offers it to one table, and touches one row of it.    *)
LEMMA EnteringOne ==
    ASSUME TypeOK, NEW d \in Durations, CreateCandleWithDuration(d)
    PROVE  LET start == TruncateDateTime(ticker.time, d) IN
           /\ seen' = seen /\ Len(seen) \in Nat \ {0}
           /\ ticker \in Ticker /\ ticker.price \in Prices /\ ticker.time \in Nat
           /\ \A e \in Durations \ {d} : Offered(e)' = Offered(e) /\ table'[e] = table[e]
           /\ Offered(d) = Len(seen) - 1 /\ Offered(d)' = Len(seen)
           /\ DOMAIN table'[d] = DOMAIN table[d] \union {start}
           /\ \A s \in DOMAIN table[d] : s # start => table'[d][s] = table[d][s]
           /\ table'[d][start] = IF start \in DOMAIN table[d]
                                THEN Updated(table[d][start], ticker.price)
                                ELSE NewCandle(ticker.price)
<1>1. seen' = seen /\ Len(seen) \in Nat \ {0}
  BY DEF CreateCandleWithDuration, TypeOK
<1>2. ticker \in Ticker
  BY <1>1 DEF TypeOK, ticker
<1>3. ticker.price \in Prices /\ ticker.time \in Nat
  BY <1>2 DEF Ticker
<1>4. \A e \in Durations : table'[e] = IF e = d THEN Entered(table[d], d) ELSE table[e]
  BY DEF CreateCandleWithDuration, TypeOK
<1>5. /\ \A e \in Durations \ {d} : Offered(e)' = Offered(e)
      /\ Offered(d) = Len(seen) - 1 /\ Offered(d)' = Len(seen)
  BY <1>1 DEF CreateCandleWithDuration, Offered
<1> DEFINE start == TruncateDateTime(ticker.time, d)
           after == Entered(table[d], d)
<1>6. /\ DOMAIN after = DOMAIN table[d] \union {start}
      /\ \A s \in DOMAIN table[d] : s # start => after[s] = table[d][s]
      /\ after[start] = IF start \in DOMAIN table[d]
                        THEN Updated(table[d][start], ticker.price)
                        ELSE NewCandle(ticker.price)
  <2>1. IsTable(table[d], d)
    BY DEF TypeOK
  <2> QED
    BY <1>2, <2>1, EnteredTable
<1>7. table'[d] = after
  BY <1>4
<1> HIDE DEF start, after
<1>8. /\ DOMAIN table'[d] = DOMAIN table[d] \union {start}
      /\ \A s \in DOMAIN table[d] : s # start => table'[d][s] = table[d][s]
      /\ table'[d][start] = IF start \in DOMAIN table[d]
                           THEN Updated(table[d][start], ticker.price)
                           ELSE NewCandle(ticker.price)
  BY <1>6, <1>7
<1>9. \A e \in Durations \ {d} : Offered(e)' = Offered(e) /\ table'[e] = table[e]
  BY <1>4, <1>5
<1> QED
  BY <1>1, <1>2, <1>3, <1>5, <1>8, <1>9 DEF start

(* The tickers of the candle it is entered under: one more.                *)
LEMMA OneTickerMore ==
    ASSUME TypeOK, NEW d \in Durations, CreateCandleWithDuration(d)
    PROVE  LET start == TruncateDateTime(ticker.time, d) IN
           /\ TickersOf(d, start)' = TickersOf(d, start) \union {Len(seen)}
           /\ \A s : s # start => TickersOf(d, s)' = TickersOf(d, s)
           /\ \A s : TickersOf(d, s) \subseteq 1 .. Len(seen) - 1
           /\ PriceAt(Len(seen)) = Stored[ticker.price]
           /\ \A k : PriceAt(k)' = PriceAt(k)
<1>1. /\ seen' = seen /\ Len(seen) \in Nat \ {0}
      /\ Offered(d) = Len(seen) - 1 /\ Offered(d)' = Len(seen)
  BY EnteringOne
<1> QED
  BY <1>1 DEF TickersOf, PriceAt, ticker

(* Rounding keeps the order, and does not move a price read back.          *)
LEMMA Rounded ==
    ASSUME NEW old \in Candle, NEW price \in Prices, NEW d, NEW s,
           FromItsPeriod(old, d, s), TypeOK,
           TickersOf(d, s) \subseteq 1 .. Len(seen)
    PROVE  /\ Prices \subseteq Int /\ Stored[price] \in Prices
           /\ {old.open, old.close, old.high, old.low} \subseteq Prices
           /\ old.high <= price => old.high <= Stored[price]
           /\ price <= old.high => Stored[price] <= old.high
           /\ price <= old.low => Stored[price] <= old.low
           /\ old.low <= price => old.low <= Stored[price]
<1>1. {old.open, old.close, old.high, old.low} \subseteq Prices
  BY DEF Candle
<1>2. \A k \in TickersOf(d, s) : seen[k] \in Ticker
  BY DEF TypeOK
<1>3. \A k \in TickersOf(d, s) : seen[k].price \in Prices
  BY <1>2 DEF Ticker
<1>4. Stored[old.high] = old.high /\ Stored[old.low] = old.low
  BY <1>3, StoredAssumption DEF FromItsPeriod, PriceAt
<1> QED
  BY <1>1, <1>4, StoredAssumption, PriceAssumption

LEMMA UpdatedIsHonest ==
    ASSUME TypeOK, NEW d \in Durations, CreateCandleWithDuration(d), NEW old \in Candle,
           NEW s, s = TruncateDateTime(ticker.time, d), FromItsPeriod(old, d, s),
           NEW row, row = Updated(old, ticker.price)
    PROVE  FromItsPeriod(row, d, s)'
<1> DEFINE stored == Stored[ticker.price]
           prices == {PriceAt(k) : k \in TickersOf(d, s)}
<1>1. /\ ticker.price \in Prices /\ Len(seen) \in Nat
      /\ TickersOf(d, s) \subseteq 1 .. Len(seen)
      /\ prices' = prices \union {stored}
  BY EnteringOne, OneTickerMore
<1>2. /\ Prices \subseteq Int /\ stored \in Prices
      /\ {old.open, old.close, old.high, old.low} \subseteq Prices
      /\ old.high <= ticker.price => old.high <= stored
      /\ ticker.price <= old.high => stored <= old.high
      /\ ticker.price <= old.low => stored <= old.low
      /\ old.low <= ticker.price => old.low <= stored
  BY <1>1, Rounded
<1>3. /\ row.open = old.open
      /\ row.high = IF old.high < ticker.price THEN stored ELSE old.high
      /\ row.low = IF old.low > ticker.price /\ ~(old.high < ticker.price)
                   THEN stored ELSE old.low
      /\ row.close = IF old.high < ticker.price \/ old.low > ticker.price
                     THEN stored ELSE old.close
  BY <1>1, UpdatedRow
<1>4. /\ {old.open, old.close, old.high, old.low} \subseteq prices
      /\ old.low <= old.open /\ old.open <= old.high
      /\ old.low <= old.close /\ old.close <= old.high
  BY DEF FromItsPeriod
<1> HIDE DEF stored, prices
<1>5. {row.open, row.close, row.high, row.low} \subseteq prices'
  BY <1>1, <1>3, <1>4
<1>6. /\ old.open \in Int /\ old.close \in Int /\ old.high \in Int /\ old.low \in Int
      /\ stored \in Int /\ ticker.price \in Int
  BY <1>1, <1>2
<1>7. \A o, c, h, l, p, q \in Int :
         /\ l <= o /\ o <= h /\ l <= c /\ c <= h
         /\ h <= p => h <= q
         /\ p <= l => q <= l
         => LET high == IF h < p THEN q ELSE h
                low == IF l > p /\ ~(h < p) THEN q ELSE l
                close == IF h < p \/ l > p THEN q ELSE c
            IN  low <= o /\ o <= high /\ low <= close /\ close <= high
  OBVIOUS
<1>8. /\ row.low <= row.open /\ row.open <= row.high
      /\ row.low <= row.close /\ row.close <= row.high
  BY <1>2, <1>3, <1>4, <1>6, <1>7
<1> QED
  BY <1>5, <1>8 DEF FromItsPeriod, prices

(* No candle shows a price its period did not have: a SELECT that fails, a
   statement that is lost and a stop between two tables can leave a ticker
   out of a candle, never put anything else in. *)
LEMMA EnteringIsHonest ==
    ASSUME TypeOK, NothingInvented, NEW d \in Durations, CreateCandleWithDuration(d)
    PROVE  NothingInvented'
<1> DEFINE start == TruncateDateTime(ticker.time, d)
<1> SUFFICES ASSUME NEW e \in Durations, NEW s \in DOMAIN table'[e],
                    NEW row, row = table'[e][s]
             PROVE  FromItsPeriod(row, e, s)'
  BY DEF NothingInvented
<1>1. CASE e # d
  <2>1. row = table[e][s] /\ s \in DOMAIN table[e] /\ seen' = seen
    BY <1>1, EnteringOne
  <2>2. FromItsPeriod(row, e, s)
    BY <2>1 DEF NothingInvented
  <2> QED
    BY <1>1, <2>1, <2>2, EnteringOne, RowKept
<1>2. CASE e = d /\ s # start
  <2>1. row = table[d][s] /\ s \in DOMAIN table[d] /\ seen' = seen
    BY <1>2, EnteringOne
  <2>2. FromItsPeriod(row, d, s)
    BY <2>1 DEF NothingInvented
  <2>3. /\ Offered(d) <= Offered(d)' /\ Offered(d) \in Int /\ Offered(d)' \in Int
    BY EnteringOne
  <2> QED
    BY <1>2, <2>1, <2>2, <2>3, RowStays
<1>3. CASE e = d /\ s = start /\ start \in DOMAIN table[d]
  <2>1. PICK old : old = table[d][start]
    OBVIOUS
  <2>2. row = Updated(old, ticker.price) /\ old \in Candle /\ ticker.price \in Prices
    BY <1>3, <2>1, EnteringOne DEF TypeOK, IsTable
  <2>3. FromItsPeriod(old, d, s)
    BY <1>3, <2>1 DEF NothingInvented
  <2> QED
    BY <1>3, <2>2, <2>3, UpdatedIsHonest, EnteringOne
<1>4. CASE e = d /\ s = start /\ start \notin DOMAIN table[d]
  <2>1. row = NewCandle(ticker.price) /\ ticker.price \in Prices
    BY <1>4, EnteringOne
  <2>2. row.open = Stored[ticker.price] /\ row.close = Stored[ticker.price]
        /\ row.high = Stored[ticker.price] /\ row.low = Stored[ticker.price]
    BY <2>1 DEF NewCandle
  <2>3. Stored[ticker.price] \in Int
    BY <2>1, StoredAssumption, PriceAssumption
  <2>4. Stored[ticker.price] \in {PriceAt(k) : k \in TickersOf(d, s)}'
    BY <1>4, OneTickerMore
  <2> QED
    BY <1>4, <2>2, <2>3, <2>4 DEF FromItsPeriod
<1> QED
  BY <1>1, <1>2, <1>3, <1>4, EnteringOne

(* Only entering a ticker writes a row: the other steps leave the prices a row
   may show, or add to them. *)
THEOREM NothingInventedTheorem == Spec => []NothingInvented
<1>1. Init => NothingInvented
  BY DEF Init, NothingInvented
<1>2. TypeOK /\ NothingInvented /\ [Next]_vars => NothingInvented'
  <2> SUFFICES ASSUME TypeOK, NothingInvented, [Next]_vars PROVE NothingInvented'
    OBVIOUS
  <2>1. CASE Receive
    <3> SUFFICES ASSUME NEW d \in Durations, NEW s \in DOMAIN table'[d],
                        NEW row, row = table'[d][s]
                 PROVE  FromItsPeriod(row, d, s)'
      BY DEF NothingInvented
    <3>1. table' = table
      BY <2>1 DEF Receive
    <3>2. FromItsPeriod(row, d, s)
      BY <3>1 DEF NothingInvented
    <3> QED
      BY <2>1, <3>2, ReceiveOffersNothing, RowKept
  <2>2. ASSUME NEW d \in Durations, CreateCandleWithDuration(d) PROVE NothingInvented'
    BY <2>2, EnteringIsHonest
  <2>3. ASSUME seen' = seen, table' = table, todo' \subseteq todo PROVE NothingInvented'
    <3> SUFFICES ASSUME NEW d \in Durations, NEW s \in DOMAIN table'[d],
                        NEW row, row = table'[d][s]
                 PROVE  FromItsPeriod(row, d, s)'
      BY DEF NothingInvented
    <3>1. FromItsPeriod(row, d, s)
      BY <2>3 DEF NothingInvented
    <3>2. Len(seen) \in Nat
      BY DEF TypeOK
    <3>3. Offered(d) <= Offered(d)' /\ Offered(d) \in Int /\ Offered(d)' \in Int
      BY <2>3, <3>2 DEF Offered
    <3> QED
      BY <2>3, <3>1, <3>3, RowStays
  <2>4. ASSUME NEW d \in Durations, StatementFails(d) PROVE NothingInvented'
    BY <2>3, <2>4 DEF StatementFails
  <2>5. CASE Restart
    BY <2>3, <2>5 DEF Restart
  <2>6. CASE UNCHANGED vars
    BY <2>3, <2>6 DEF vars
  <2> QED
    BY <2>1, <2>2, <2>4, <2>5, <2>6 DEF Next, Horizon
<1> QED
  BY <1>1, <1>2, TypeInvariant, PTL DEF Spec

-----------------------------------------------------------------------------
LEMMA SeenTyped ==
    ASSUME TypeOK, NEW k \in 1 .. Len(seen)
    PROVE  seen[k] \in Ticker /\ seen[k].time \in Nat /\ seen[k].price \in Prices
<1>1. seen[k] \in Ticker
  BY DEF TypeOK
<1> QED
  BY <1>1 DEF Ticker

(* A finished candle is never written again. The start of a row is that of a
   ticker (NothingInvented) and tickers come in order, so the row written for
   the current one is the latest of its table. *)
LEMMA TimesStayInOrder == Spec => []TimesInOrder
<1>1. Init => TimesInOrder
  BY DEF Init, TimesInOrder
<1>2. TypeOK /\ TimesInOrder /\ [Next]_vars => TimesInOrder'
  <2> SUFFICES ASSUME TypeOK, TimesInOrder, [Next]_vars PROVE TimesInOrder'
    OBVIOUS
  <2>1. CASE Receive
    <3>1. PICK time \in 0 .. MaxTime, price \in Prices :
             /\ seen # << >> => ticker.time <= time
             /\ seen' = Append(seen, [time |-> time, price |-> price])
      BY <2>1 DEF Receive
    <3>2. /\ Len(seen) \in Nat /\ time \in Int
          /\ \A k \in 1 .. Len(seen) : seen[k].time \in Int
      BY BoundAssumption, SeenTyped DEF TypeOK
    <3>3. [time |-> time, price |-> price].time = time
      OBVIOUS
    <3>4. /\ Len(seen') = Len(seen) + 1
          /\ \A k \in 1 .. Len(seen) : seen'[k] = seen[k]
          /\ seen'[Len(seen) + 1].time = time
      BY <3>1, <3>3 DEF TypeOK
    <3>5. \A k \in 1 .. Len(seen) : seen[k].time <= time
      <4> SUFFICES ASSUME NEW k \in 1 .. Len(seen) PROVE seen[k].time <= time
        OBVIOUS
      <4>1. Len(seen) \in 1 .. Len(seen) /\ k <= Len(seen)
        BY <3>2
      <4>2. seen[k].time <= seen[Len(seen)].time
        BY <4>1 DEF TimesInOrder
      <4>3. seen[Len(seen)].time <= time
        BY <3>1, <4>1 DEF ticker
      <4> QED
        BY <3>2, <4>1, <4>2, <4>3
    <3> QED
      BY <3>2, <3>4, <3>5 DEF TimesInOrder
  <2>2. CASE seen' = seen
    BY <2>2 DEF TimesInOrder
  <2> QED
    BY <2>1, <2>2
       DEF Next, CreateCandleWithDuration, StatementFails, Restart, Horizon, vars
<1> QED
  BY <1>1, <1>2, TypeInvariant, PTL DEF Spec

THEOREM FinishedCandlesTheorem == Spec => FinishedCandlesKept
<1> DEFINE Kept == \A d \in Durations : \A s, later \in DOMAIN table[d] :
                      s < later => table'[d][s] = table[d][s]
<1>1. TypeOK /\ NothingInvented /\ TimesInOrder /\ [Next]_vars => [Kept]_vars
  <2> SUFFICES ASSUME TypeOK, NothingInvented, TimesInOrder, [Next]_vars,
                      NEW e \in Durations, NEW s \in DOMAIN table[e],
                      NEW later \in DOMAIN table[e], s < later
               PROVE  table'[e][s] = table[e][s]
    OBVIOUS
  <2>1. ASSUME NEW d \in Durations, CreateCandleWithDuration(d), e = d
        PROVE  table'[e][s] = table[e][s]
    <3> DEFINE start == TruncateDateTime(ticker.time, d)
    <3>1. d \in Nat \ {0} /\ s \in Nat /\ later \in Nat
      BY <2>1, DurationAssumption DEF TypeOK, IsTable
    <3>2. PICK k : k \in TickersOf(d, later)
      BY <2>1 DEF NothingInvented, FromItsPeriod
    <3>3. Len(seen) \in Nat /\ k \in 1 .. Len(seen) /\ later = TruncateDateTime(seen[k].time, d)
      BY <3>2 DEF TickersOf, Offered, TypeOK
    <3>4. /\ seen[k].time \in Nat /\ ticker.time \in Nat
          /\ seen[k].time <= ticker.time
      BY <3>3, SeenTyped, EnteringOne, <2>1 DEF TimesInOrder, ticker
    <3>5. later <= start
      BY <3>1, <3>3, <3>4, StartsInOrder
    <3>6. start \in Nat
      BY <3>1, <3>4, StartOfCandle
    <3>7. s # start
      BY <3>1, <3>5, <3>6
    <3> QED
      BY <2>1, <3>7, EnteringOne
  <2>2. ASSUME NEW d \in Durations, CreateCandleWithDuration(d), e # d
        PROVE  table'[e][s] = table[e][s]
    BY <2>2, EnteringOne
  <2>3. CASE table' = table
    BY <2>3
  <2> QED
    BY <2>1, <2>2, <2>3 DEF Next, Receive, StatementFails, Restart, Horizon, vars
<1> QED
  BY <1>1, TypeInvariant, NothingInventedTheorem, TimesStayInOrder, PTL
     DEF Spec, FinishedCandlesKept

-----------------------------------------------------------------------------
(* Without failures every candle is exact.                                 *)
LEMMA UpdatedSpans ==
    ASSUME TypeOK, NEW d \in Durations, CreateCandleWithDuration(d), NEW old \in Candle,
           NEW s, s = TruncateDateTime(ticker.time, d),
           FromItsPeriod(old, d, s), SpansItsPeriod(old, d, s),
           NEW row, row = Updated(old, ticker.price)
    PROVE  SpansItsPeriod(row, d, s)'
<1> DEFINE stored == Stored[ticker.price]
<1>1. /\ ticker.price \in Prices /\ Len(seen) \in Nat
      /\ TickersOf(d, s)' = TickersOf(d, s) \union {Len(seen)}
      /\ TickersOf(d, s) \subseteq 1 .. Len(seen) - 1
      /\ PriceAt(Len(seen)) = stored
      /\ \A k : PriceAt(k)' = PriceAt(k)
  BY EnteringOne, OneTickerMore
<1>2. /\ Prices \subseteq Int /\ stored \in Prices
      /\ {old.open, old.close, old.high, old.low} \subseteq Prices
      /\ old.high <= ticker.price => old.high <= stored
      /\ ticker.price <= old.high => stored <= old.high
      /\ ticker.price <= old.low => stored <= old.low
      /\ old.low <= ticker.price => old.low <= stored
  BY <1>1, Rounded
<1>3. /\ row.open = old.open
      /\ row.high = IF old.high < ticker.price THEN stored ELSE old.high
      /\ row.low = IF old.low > ticker.price /\ ~(old.high < ticker.price)
                   THEN stored ELSE old.low
  BY <1>1, UpdatedRow
<1>4. old.low <= old.open /\ old.open <= old.high
  BY DEF FromItsPeriod
<1>5. /\ old.open \in Int /\ old.high \in Int /\ old.low \in Int
      /\ stored \in Int /\ ticker.price \in Int
  BY <1>1, <1>2
<1> HIDE DEF stored
<1>6. /\ row.low \in Int /\ row.high \in Int
      /\ row.low <= stored /\ stored <= row.high
      /\ row.low <= old.low /\ old.high <= row.high
  BY <1>2, <1>3, <1>4, <1>5
<1>7. \A k \in TickersOf(d, s) : PriceAt(k) \in Int
  <2> SUFFICES ASSUME NEW k \in TickersOf(d, s) PROVE PriceAt(k) \in Int
    OBVIOUS
  <2>1. k \in 1 .. Len(seen)
    BY <1>1
  <2>2. seen[k].price \in Prices
    BY <2>1, SeenTyped
  <2> QED
    BY <2>2, StoredAssumption, PriceAssumption DEF PriceAt
<1>8. \A k \in TickersOf(d, s) : row.low <= PriceAt(k) /\ PriceAt(k) <= row.high
  BY <1>5, <1>6, <1>7 DEF SpansItsPeriod
<1>9. \A k \in TickersOf(d, s)' : row.low <= PriceAt(k)' /\ PriceAt(k)' <= row.high
  <2> SUFFICES ASSUME NEW k \in TickersOf(d, s)'
               PROVE  row.low <= PriceAt(k)' /\ PriceAt(k)' <= row.high
    OBVIOUS
  <2>1. CASE k = Len(seen)
    BY <1>1, <1>6, <2>1
  <2>2. CASE k \in TickersOf(d, s)
    BY <1>1, <1>8, <2>2
  <2> QED
    BY <1>1, <2>1, <2>2
<1>10. PICK k \in TickersOf(d, s) : old.open = PriceAt(k) /\ \A j \in TickersOf(d, s) : k <= j
  BY DEF SpansItsPeriod
<1>11. k \in TickersOf(d, s)' /\ row.open = PriceAt(k)' /\ \A j \in TickersOf(d, s)' : k <= j
  BY <1>1, <1>3, <1>10
<1> QED
  BY <1>9, <1>11 DEF SpansItsPeriod

LEMMA EnteringIsExact ==
    ASSUME TypeOK, NothingInvented, NEW d \in Durations, CreateCandleWithDuration(d),
           \A e \in Durations : Exact(e)
    PROVE  \A e \in Durations : Exact(e)'
<1> DEFINE start == TruncateDateTime(ticker.time, d)
<1>0. \A e \in Durations :
         /\ EveryPeriodEntered(e)
         /\ \A s \in DOMAIN table[e] : SpansItsPeriod(table[e][s], e, s)
  BY DEF Exact
<1>1. ASSUME NEW e \in Durations PROVE EveryPeriodEntered(e)'
  <2> SUFFICES ASSUME NEW k \in 1 .. Offered(e)'
               PROVE  TruncateDateTime(seen'[k].time, e) \in DOMAIN table'[e]
    BY DEF EveryPeriodEntered
  <2>1. CASE e # d
    BY <1>0, <2>1, EnteringOne DEF EveryPeriodEntered
  <2>2. CASE e = d /\ k # Len(seen)
    <3>1. k \in 1 .. Offered(d) /\ seen' = seen
      BY <2>2, EnteringOne
    <3> QED
      BY <1>0, <2>2, <3>1, EnteringOne DEF EveryPeriodEntered
  <2>3. CASE e = d /\ k = Len(seen)
    BY <2>3, EnteringOne DEF ticker
  <2> QED
    BY <2>1, <2>2, <2>3
<1>2. ASSUME NEW e \in Durations, NEW s \in DOMAIN table'[e], NEW row, row = table'[e][s]
      PROVE  SpansItsPeriod(row, e, s)'
  <2>1. CASE e # d
    <3>1. row = table[e][s] /\ s \in DOMAIN table[e] /\ seen' = seen
      BY <1>2, <2>1, EnteringOne
    <3>2. SpansItsPeriod(row, e, s)
      BY <1>0, <3>1
    <3> QED
      BY <2>1, <3>1, <3>2, EnteringOne, RowKept
  <2>2. CASE e = d /\ s # start
    <3>1. row = table[d][s] /\ s \in DOMAIN table[d]
      BY <1>2, <2>2, EnteringOne
    <3>2. SpansItsPeriod(row, d, s)
      BY <1>0, <3>1
    <3>3. TickersOf(d, s)' = TickersOf(d, s) /\ \A k : PriceAt(k)' = PriceAt(k)
      BY <2>2, OneTickerMore
    <3> QED
      BY <2>2, <3>2, <3>3 DEF SpansItsPeriod
  <2>3. CASE e = d /\ s = start /\ start \in DOMAIN table[d]
    <3>1. PICK old : old = table[d][start]
      OBVIOUS
    <3>2. row = Updated(old, ticker.price) /\ old \in Candle
      BY <1>2, <2>3, <3>1, EnteringOne DEF TypeOK, IsTable
    <3>3. FromItsPeriod(old, d, s) /\ SpansItsPeriod(old, d, s)
      BY <1>0, <2>3, <3>1 DEF NothingInvented
    <3> QED
      BY <2>3, <3>2, <3>3, UpdatedSpans
  <2>4. CASE e = d /\ s = start /\ start \notin DOMAIN table[d]
    <3>1. row = NewCandle(ticker.price)
      BY <1>2, <2>4, EnteringOne
    <3>2. /\ row.open = Stored[ticker.price] /\ row.high = Stored[ticker.price]
          /\ row.low = Stored[ticker.price] /\ Stored[ticker.price] \in Int
      BY <3>1, EnteringOne, StoredAssumption, PriceAssumption DEF NewCandle
    <3>3. TickersOf(d, s) = {}
      BY <1>0, <2>4 DEF TickersOf, EveryPeriodEntered
    <3>4. /\ TickersOf(d, s)' = {Len(seen)} /\ Len(seen) \in Nat
          /\ PriceAt(Len(seen)) = Stored[ticker.price] /\ \A k : PriceAt(k)' = PriceAt(k)
      BY <2>4, <3>3, OneTickerMore, EnteringOne
    <3> QED
      BY <2>4, <3>2, <3>4 DEF SpansItsPeriod
  <2> QED
    BY <2>1, <2>2, <2>3, <2>4
<1>3. ASSUME NEW e \in Durations PROVE Exact(e)'
  <2>1. ASSUME NEW s \in DOMAIN table'[e] PROVE SpansItsPeriod(table[e][s], e, s)'
    <3>1. PICK row : row = table'[e][s]
      OBVIOUS
    <3>2. SpansItsPeriod(row, e, s)'
      BY <1>2, <3>1
    <3> QED
      BY <3>1, <3>2 DEF SpansItsPeriod
  <2> QED
    BY <1>1, <2>1 DEF Exact
<1> QED
  BY <1>3

THEOREM ExactTheorem == Spec => []ExactWithoutLoss
<1>1. Init => ExactWithoutLoss
  BY DEF Init, ExactWithoutLoss, Exact, EveryPeriodEntered, Offered
<1>2. TypeOK /\ NothingInvented /\ ExactWithoutLoss /\ [Next]_vars => ExactWithoutLoss'
  <2> SUFFICES ASSUME TypeOK, NothingInvented, ExactWithoutLoss, [Next]_vars, faults' = 0
               PROVE  \A e \in Durations : Exact(e)'
    BY DEF ExactWithoutLoss
  <2>1. faults = 0
    BY DEF Next, Receive, CreateCandleWithDuration, StatementFails, Restart, Horizon,
           vars, TypeOK
  <2>2. \A e \in Durations : Exact(e)
    BY <2>1 DEF ExactWithoutLoss
  <2>3. ASSUME NEW e \in Durations, table' = table, Offered(e)' = Offered(e),
               \A k \in 1 .. Offered(e) : seen'[k] = seen[k]
        PROVE  Exact(e)'
    <3>1. EveryPeriodEntered(e)'
      BY <2>2, <2>3 DEF Exact, EveryPeriodEntered
    <3>2. ASSUME NEW s \in DOMAIN table'[e] PROVE SpansItsPeriod(table[e][s], e, s)'
      <4>1. PICK row : row = table[e][s]
        OBVIOUS
      <4>2. SpansItsPeriod(row, e, s)
        BY <2>2, <2>3, <3>2, <4>1 DEF Exact
      <4>3. SpansItsPeriod(row, e, s)'
        BY <2>3, <4>2, RowKept
      <4> QED
        BY <2>3, <4>1, <4>3 DEF SpansItsPeriod
    <3> QED
      BY <3>1, <3>2 DEF Exact
  <2>4. CASE Receive
    <3>1. table' = table
      BY <2>4 DEF Receive
    <3> QED
      BY <2>3, <2>4, <3>1, ReceiveOffersNothing
  <2>5. ASSUME NEW d \in Durations, CreateCandleWithDuration(d)
        PROVE  \A e \in Durations : Exact(e)'
    BY <2>2, <2>5, EnteringIsExact
  <2>6. ASSUME NEW d \in Durations, StatementFails(d) PROVE FALSE
    BY <2>1, <2>6 DEF StatementFails
  <2>7. CASE Restart
    BY <2>1, <2>7 DEF Restart
  <2>8. CASE UNCHANGED vars
    BY <2>3, <2>8 DEF vars, Offered
  <2> QED
    BY <2>4, <2>5, <2>6, <2>7, <2>8 DEF Next, Horizon
<1> QED
  BY <1>1, <1>2, TypeInvariant, NothingInventedTheorem, PTL DEF Spec
=============================================================================
