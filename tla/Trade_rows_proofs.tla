------------------------- MODULE Trade_rows_proofs -------------------------
(***************************************************************************)
(* What the rows of SIGNAL_EVENTS say of the trades made, whatever fails:  *)
(* no second trade in a candle that is not a reopening, none that was not  *)
(* made, and nothing done to a position forgotten in a restart; and that   *)
(* the rows of BackTest mode are round trips.                              *)
(***************************************************************************)
EXTENDS Trade_proofs, PaperTrade, FiniteSetTheorems

-----------------------------------------------------------------------------
(* The inductive invariant of the rows, by the part of the code it is about. *)

(* The last candle that Trade has loaded began before the present one.     *)
CandlesBegun == pc \notin {"idle", "begun"} => t.last <= CandleStart(now)

(* A failed save leaves the table behind the memory, never ahead of it: what
   the gate sees in memory is no earlier than the last row. *)
RowsRemembered ==
    rows # << >> => /\ signals # << >>
                    /\ LastSignal(rows).time <= LastSignal(signals).time

(* The first check of Buy and Sell holds on until the trade is recorded.   *)
GatePassed ==
    InOrder /\ signals # << >> =>
        reOpen[call.side] \/ LastSignal(signals).time <= CandleStart(now)

RowsInv ==
    CandlesBegun /\ RowsRemembered /\ GatePassed /\ SecondInCandleReOpens

-----------------------------------------------------------------------------
(* Truncation to candles.                                                  *)

(* Multiples of a number keep the order of what exceeds them by less.      *)
LEMMA MultiplesKeepOrder ==
    ASSUME NEW p \in Nat \ {0}, NEW x \in Nat, NEW y \in Nat,
           NEW r \in 0 .. p - 1, NEW s \in 0 .. p - 1, p * x + r <= p * y + s
    PROVE  p * x <= p * y
<1>1. p * x \in Nat /\ p * y \in Nat
  OBVIOUS
<1>2. CASE x <= y
  BY <1>2
<1>3. CASE y + 1 <= x
  <2>1. p * (y + 1) <= p * x
    BY <1>3
  <2>2. p * (y + 1) = p * y + p
    OBVIOUS
  <2> QED
    BY <1>1, <2>1, <2>2
<1> QED
  BY <1>2, <1>3

(* A later time is in the same candle or in a later one.                   *)
LEMMA CandleStartRises ==
    ASSUME NEW a \in Nat, NEW b \in Nat, a <= b
    PROVE  CandleStart(a) <= CandleStart(b)
<1>1. ASSUME NEW n \in Nat
      PROVE  /\ n \div Period \in Nat /\ n % Period \in 0 .. Period - 1
             /\ n = Period * (n \div Period) + (n % Period)
             /\ CandleStart(n) = Period * (n \div Period)
  <2>1. /\ n \div Period \in Nat /\ n % Period \in 0 .. Period - 1
        /\ n = Period * (n \div Period) + (n % Period)
    BY TimeAssumption
  <2>2. Period * (n \div Period) \in Nat
    BY <2>1, TimeAssumption
  <2> QED
    BY <2>1, <2>2 DEF CandleStart
<1>2. PICK x \in Nat, r \in 0 .. Period - 1 :
         a = Period * x + r /\ CandleStart(a) = Period * x
  BY <1>1
<1>3. PICK y \in Nat, s \in 0 .. Period - 1 :
         b = Period * y + s /\ CandleStart(b) = Period * y
  BY <1>1
<1>4. Period * x + r <= Period * y + s
  BY <1>2, <1>3
<1>5. Period * x <= Period * y
  BY <1>4, MultiplesKeepOrder, TimeAssumption
<1> QED
  BY <1>2, <1>3, <1>5

(* What a clock that moves on does to a comparison with its candle.        *)
LEMMA ClockMoves ==
    ASSUME now \in Nat, now' = now \/ now' = now + 1
    PROVE  /\ CandleStart(now) \in Int /\ CandleStart(now') \in Int
           /\ CandleStart(now) <= CandleStart(now')
           /\ \A n \in Int : n <= CandleStart(now) => n <= CandleStart(now')
<1>1. now' \in Nat /\ now <= now'
  OBVIOUS
<1>2. CandleStart(now) <= CandleStart(now')
  BY <1>1, CandleStartRises
<1>3. CandleStart(now) \in Int /\ CandleStart(now') \in Int
  BY <1>1, CandleStartBounds
<1> QED
  BY <1>2, <1>3

(* The candle of an iteration is the last one loaded, or the one before.   *)
LEMMA CandleTimeBounds ==
    ASSUME t \in TradeLocals
    PROVE  CandleTime \in Int /\ CandleTime <= t.last
<1>1. t.last \in Int /\ Period \in Nat
  BY TimeAssumption DEF TradeLocals
<1> QED
  BY <1>1 DEF CandleTime

LEMMA LastTyped ==
    ASSUME NEW list \in Seq(Signal), list # << >>
    PROVE  LastSignal(list) \in Signal /\ LastSignal(list).time \in Int
<1>1. LastSignal(list) \in Signal
  BY DEF LastSignal
<1> QED
  BY <1>1 DEF Signal

-----------------------------------------------------------------------------
(* Steps that record nothing.                                              *)

LEMMA RowsQuiet ==
    ASSUME TypeOK, RowsInv, UNCHANGED <<rows, signals>>,
           now' = now \/ now' = now + 1,
           \/ pc' \in {"idle", "begun"}
           \/ pc \notin {"idle", "begun"} /\ t'.last = t.last,
           InOrder' => /\ InOrder /\ call'.side = call.side
                       /\ UNCHANGED <<reOpen, isProfit>>
    PROVE  RowsInv'
<1>1. /\ CandleStart(now) \in Int /\ CandleStart(now') \in Int
      /\ \A n \in Int : n <= CandleStart(now) => n <= CandleStart(now')
  BY ClockMoves DEF TypeOK
<1>2. CandlesBegun'
  BY <1>1 DEF RowsInv, CandlesBegun, TypeOK, TradeLocals
<1>3. RowsRemembered'
  BY DEF RowsInv, RowsRemembered
<1>4. GatePassed'
  BY <1>1, LastTyped DEF RowsInv, GatePassed, TypeOK
<1>5. SecondInCandleReOpens'
  BY DEF RowsInv, SecondInCandleReOpens
<1> QED
  BY <1>2, <1>3, <1>4, <1>5 DEF RowsInv

LEMMA NextIterationLast ==
    ASSUME t \in TradeLocals, NextIteration
    PROVE  pc' = "idle" \/ (pc' = "iterate" /\ t'.last = t.last)
  BY DEF NextIteration, TradeLocals

LEMMA LoadRows ==
    ASSUME TypeOK, RowsInv, Load
    PROVE  RowsInv'
<1>1. PICK price \in Prices, age \in {0, Period} :
         t' = [NoTrade EXCEPT !.price = price, !.last = CandleStart(now) - age]
  BY DEF Load
<1>2. t'.last = CandleStart(now) - age
  BY <1>1 DEF NoTrade
<1>3. CandleStart(now) \in Int /\ Period \in Nat
  BY CandleStartBounds, TimeAssumption DEF TypeOK
<1>4. pc' = "iterate" /\ UNCHANGED <<now, rows, signals>>
  BY DEF Load, environment, memory
<1>5. CandlesBegun'
  BY <1>2, <1>3, <1>4 DEF CandlesBegun
<1> QED
  BY <1>4, <1>5
  DEF RowsInv, RowsRemembered, GatePassed, InOrder,
     SecondInCandleReOpens

(* The branches: the one place where the gate is passed.                   *)
LEMMA BranchRows ==
    ASSUME TypeOK, RowsInv, NEW stage \in Stages \ {"idle", "begun", "wait"},
           NEW p \in Side, NEW closing \in BOOLEAN, NEW wanted \in BOOLEAN,
           Branch(stage, p, closing, wanted)
    PROVE  RowsInv'
<1> DEFINE side == IF closing THEN Other(p) ELSE p
<1>1. /\ pc = stage /\ UNCHANGED <<now, rows, signals, isProfit>>
      /\ t \in TradeLocals /\ side \in Side /\ reOpen \in [Side -> BOOLEAN]
  BY SignTyped DEF Branch, environment, memory, TypeOK
<1>2. CASE ~wanted
  <2>1. NextBranch(p, closing)
    BY <1>2 DEF Branch
  <2>2. /\ pc' \in {"idle", "iterate", "openLong", "closeShort", "closeLong"}
        /\ pc' = "idle" \/ t'.last = t.last
    BY <1>1, <2>1, NextIterationLast DEF NextBranch, AfterOpening
  <2> QED
    BY <1>1, <2>2, RowsQuiet DEF InOrder
<1>3. CASE wanted /\ NextIteration
  <2>1. pc' = "idle" \/ (pc' = "iterate" /\ t'.last = t.last)
    BY <1>1, <1>3, NextIterationLast
  <2> QED
    BY <1>1, <2>1, RowsQuiet DEF InOrder
<1>4. CASE wanted /\ ~NextIteration
  <2>1. Enter(side, closing)
    BY <1>4 DEF Branch
  <2> HIDE DEF side
  <2>2. /\ reOpen' = [reOpen EXCEPT ![side] = Keeps(side)]
        /\ CanTrade(side, signals, CandleTime, Keeps(side))
        /\ pc' = "quote" /\ UNCHANGED t
        /\ call' = [NoCall EXCEPT !.side = side, !.closing = closing]
    BY <1>4, <2>1 DEF Enter
  <2>3. call'.side = side /\ reOpen'[side] = Keeps(side)
    BY <1>1, <2>2 DEF NoCall
  <2>4. Keeps(side) \in BOOLEAN /\ CandleTime \in Int /\ CandleTime <= t.last
    BY <1>1, CandleTimeBounds DEF Keeps, TypeOK
  <2>5. /\ t.last \in Int /\ t.last <= CandleStart(now) /\ CandleStart(now) \in Int
    BY <1>1, CandleStartBounds DEF RowsInv, CandlesBegun, TypeOK, TradeLocals
  <2>6. signals # << >> => Keeps(side) \/ LastSignal(signals).time <= CandleTime
    BY <1>1, <2>2, <2>4, GateIgnoresSide DEF TypeOK
  <2>7. GatePassed'
    BY <1>1, <2>2, <2>3, <2>4, <2>5, <2>6, LastTyped DEF GatePassed, TypeOK
  <2>8. CandlesBegun'
    BY <1>1, <2>2, <2>5 DEF CandlesBegun
  <2> QED
    BY <1>1, <2>7, <2>8 DEF RowsInv, RowsRemembered, SecondInCandleReOpens
<1> QED
  BY <1>2, <1>3, <1>4

-----------------------------------------------------------------------------
(* A trade is recorded; the process restarts.                              *)

(* The row added was let through by the gate.                              *)
LEMMA RecordKeepsRows ==
    ASSUME TypeOK, SignalsInPast, RowsInv, InOrder, RecordSignal, now' = now + 1
    PROVE  RowsRemembered' /\ SecondInCandleReOpens'
<1>1. /\ NewSignal \in Signal /\ NewSignal.time = now' /\ now' \in Nat /\ now \in Nat
      /\ NewSignal.reOpen = reOpen[call.side]
      /\ rows \in Seq(Signal) /\ signals \in Seq(Signal)
  BY NewSignalTyped DEF NewSignal, TypeOK
<1>2. signals' # << >> /\ LastSignal(signals') = NewSignal
  BY <1>1, LastOfAppend DEF RecordSignal
<1>3. CASE rows' = rows
  <2>1. rows # << >> => LastSignal(rows).time <= now'
    BY <1>1, NotLater DEF SignalsInPast
  <2> QED
    BY <1>1, <1>2, <1>3, <2>1 DEF RowsInv, RowsRemembered, SecondInCandleReOpens
<1>4. CASE rows' = Append(rows, NewSignal)
  <2>1. /\ Len(rows') = Len(rows) + 1 /\ Len(rows) \in Nat
        /\ \A k \in 1 .. Len(rows) : rows'[k] = rows[k]
        /\ rows'[Len(rows) + 1] = NewSignal /\ LastSignal(rows') = NewSignal
    BY <1>1, <1>4, LastOfAppend
  <2>2. RowsRemembered'
    BY <1>1, <1>2, <2>1 DEF RowsRemembered
  <2>3. rows # << >> =>
           NewSignal.reOpen \/ ~(rows[Len(rows)].time > CandleStart(NewSignal.time))
    <3> SUFFICES ASSUME rows # << >>, ~NewSignal.reOpen
                 PROVE  ~(rows[Len(rows)].time > CandleStart(NewSignal.time))
      OBVIOUS
    <3>1. signals # << >> /\ LastSignal(rows).time <= LastSignal(signals).time
      BY DEF RowsInv, RowsRemembered
    <3>2. LastSignal(signals).time <= CandleStart(now)
      BY <1>1, <3>1 DEF RowsInv, GatePassed
    <3>3. LastSignal(rows).time \in Int /\ LastSignal(signals).time \in Int
      BY <1>1, <3>1, LastTyped
    <3>4. LastSignal(rows).time <= CandleStart(now)
      BY <1>1, <3>1, <3>2, <3>3, CandleStartBounds
    <3> QED
      BY <1>1, <3>3, <3>4, ClockMoves DEF LastSignal
  <2>4. \A k \in 1 .. Len(rows') - 1 :
           rows'[k].time > CandleStart(rows'[k + 1].time) => rows'[k + 1].reOpen
    <3> SUFFICES ASSUME NEW k \in 1 .. Len(rows)
                 PROVE  rows'[k].time > CandleStart(rows'[k + 1].time)
                           => rows'[k + 1].reOpen
      BY <2>1
    <3>1. CASE k = Len(rows)
      BY <2>1, <2>3, <3>1
    <3>2. CASE k # Len(rows)
      <4>1. /\ k \in 1 .. Len(rows) - 1 /\ k + 1 \in 1 .. Len(rows)
            /\ rows'[k] = rows[k] /\ rows'[k + 1] = rows[k + 1]
        BY <2>1, <3>2
      <4> QED
        BY <4>1 DEF RowsInv, SecondInCandleReOpens
    <3> QED
      BY <3>1, <3>2
  <2> QED
    BY <2>2, <2>4 DEF SecondInCandleReOpens
<1> QED
  BY <1>3, <1>4 DEF RecordSignal

LEMMA RecordRows ==
    ASSUME TypeOK, SignalsInPast, RowsInv, InOrder, RecordSignal, now' = now + 1,
           pc' \in {"idle", "iterate", "openLong", "closeShort", "closeLong"},
           pc' = "idle" \/ t'.last = t.last
    PROVE  RowsInv'
<1>1. RowsRemembered' /\ SecondInCandleReOpens'
  BY RecordKeepsRows
<1>2. t.last \in Int /\ now \in Nat /\ pc \notin {"idle", "begun"}
  BY DEF TypeOK, TradeLocals, InOrder
<1>3. CandlesBegun'
  BY <1>2, ClockMoves DEF RowsInv, CandlesBegun
<1> QED
  BY <1>1, <1>3 DEF RowsInv, GatePassed, InOrder

LEMMA RestartRows ==
    ASSUME TypeOK, RowsInv, Restart
    PROVE  RowsInv'
<1>1. /\ pc' = "idle" /\ signals' = LoadLast(rows) /\ rows' = rows /\ rows \in Seq(Signal)
  BY DEF Restart, environment, TypeOK
<1>2. rows # << >> => /\ signals' # << >> /\ LastSignal(signals') = LastSignal(rows)
                      /\ LastSignal(rows).time \in Int
  BY <1>1, LoadLastKeepsLast, LastTyped DEF LoadLast
<1> QED
  BY <1>1, <1>2 DEF RowsInv, CandlesBegun, RowsRemembered, GatePassed, InOrder,
     SecondInCandleReOpens

(* FinishOpening and FinishClosing go on to the next branch.               *)
LEMMA FinishedRows ==
    ASSUME TypeOK, SignalsInPast, RowsInv, PollCompleted
    PROVE  RowsInv'
<1>1. /\ pc = "wait" /\ RecordSignal /\ now' = now + 1 /\ t \in TradeLocals
      /\ IF call.closing THEN FinishClosing(Other(call.side))
                         ELSE FinishOpening(call.side)
  BY RecordableInWait DEF PollCompleted, TypeOK
<1>2. NextBranch(IF call.closing THEN Other(call.side) ELSE call.side, call.closing)
  BY <1>1, Zenon DEF FinishClosing, FinishOpening, TypeOK, CallLocals
<1>3. /\ pc' \in {"idle", "iterate", "openLong", "closeShort", "closeLong"}
      /\ pc' = "idle" \/ t'.last = t.last
  BY <1>1, <1>2, NextIterationLast DEF NextBranch, AfterOpening
<1> QED
  BY <1>1, <1>3, RecordRows DEF InOrder

LEMMA RowsStep ==
    ASSUME TypeOK, SignalsInPast, RowsInv, [Next]_vars
    PROVE  RowsInv'
<1>1. t \in TradeLocals
  BY DEF TypeOK
<1>2. CASE Begin \/ Skip \/ Iterate \/ Tick
  <2>1. /\ UNCHANGED <<rows, signals>>
        /\ now' = now \/ now' = now + 1
    BY <1>2 DEF Begin, Skip, Iterate, Tick, environment, memory
  <2>2. CASE Begin \/ Skip
    BY <2>1, <2>2, RowsQuiet DEF Begin, Skip, InOrder
  <2>3. CASE Iterate
    <3>1. pc = "iterate" /\ pc' \in {"openShort", "closeShort"} /\ t'.last = t.last
      BY <1>1, <2>3 DEF Iterate, TradeLocals
    <3> QED
      BY <2>1, <3>1, RowsQuiet DEF InOrder
  <2>4. CASE Tick
    <3>1. UNCHANGED <<pc, t, call, reOpen, isProfit>>
      BY <2>4 DEF Tick, flags
    <3> QED
      BY <2>1, <3>1, RowsQuiet DEF InOrder
  <2> QED
    BY <1>2, <2>2, <2>3, <2>4
<1>3. CASE Load
  BY <1>3, LoadRows
<1>4. CASE OpenShort \/ OpenLong \/ CloseShort \/ CloseLong
  <2>1. \A p \in Side : WantsOpen(p) \in BOOLEAN /\ WantsClose(p) \in BOOLEAN
    BY DEF WantsOpen, WantsClose
  <2>2. {"openShort", "openLong", "closeShort", "closeLong"}
           \subseteq Stages \ {"idle", "begun", "wait"}
    BY DEF Stages
  <2> QED
    BY <1>4, <2>1, <2>2, BranchRows DEF OpenShort, OpenLong, CloseShort, CloseLong, Side
<1>5. CASE QuoteFails \/ SendRejected \/ SendReplyLost \/ Expire \/ PollFails
           \/ (PollCompleted /\ ~Recordable)
  <2>1. /\ UNCHANGED <<rows, signals>>
        /\ now' = now \/ now' = now + 1
        /\ NextIteration /\ pc \notin {"idle", "begun"}
    BY <1>5 DEF QuoteFails, SendRejected, SendReplyLost, NotOrdered, Expire, PollFails,
       PollCompleted, GiveUp, environment, memory
  <2>2. pc' = "idle" \/ (pc' = "iterate" /\ t'.last = t.last)
    BY <1>1, <2>1, NextIterationLast
  <2> QED
    BY <2>1, <2>2, RowsQuiet DEF InOrder
<1>6. CASE Quote \/ SendAccepted \/ PollPending \/ Exchange
  <2>1. /\ UNCHANGED <<rows, signals, t, reOpen, isProfit>>
        /\ now' = now \/ now' = now + 1
    BY <1>6 DEF Quote, SendAccepted, PollPending, Exchange, Fill, Cancel, environment,
       memory, flags
  <2>2. call'.side = call.side
    BY <1>6 DEF Quote, SendAccepted, PollPending, Exchange, Fill, Cancel, TypeOK,
       CallLocals
  <2>3. pc' = pc \/ (InOrder /\ pc' \in {"send", "wait"})
    BY <1>6 DEF Quote, SendAccepted, PollPending, Exchange, Fill, Cancel, InOrder
  <2> QED
    BY <2>1, <2>2, <2>3, RowsQuiet DEF InOrder
<1>7. CASE PollCompleted
  BY <1>7, FinishedRows
<1>8. CASE Restart
  BY <1>8, RestartRows
<1>9. CASE Horizon \/ UNCHANGED vars
  <2>1. UNCHANGED <<now, rows, signals, pc, t, call, reOpen, isProfit>>
    BY <1>9 DEF Horizon, vars, environment, memory, flags
  <2> QED
    BY <2>1, RowsQuiet DEF InOrder
<1> QED
  BY <1>2, <1>3, <1>4, <1>5, <1>6, <1>7, <1>8, <1>9
  DEF Next, InTrade, Loop, Ordering, Waiting

LEMMA RowsInit == Init => RowsInv
  BY DEF Init, RowsInv, CandlesBegun, RowsRemembered, GatePassed, InOrder,
     SecondInCandleReOpens

LEMMA RowsInvariant == Spec => []RowsInv
<1>1. IInv /\ RowsInv /\ [Next]_vars => RowsInv'
  BY RowsStep DEF IInv
<1> QED
  BY <1>1, RowsInit, InductiveInvariant, PTL DEF Spec

(* Buy and Sell check the last trade in memory against the candle of the
   iteration, before the order goes out: whatever fails or is lost on the way
   to the row, a trade recorded in the candle of the one before it, and after the
   start of that candle, is marked as a reopening. *)
THEOREM SecondInCandleTheorem == Spec => []SecondInCandleReOpens
<1>1. RowsInv => SecondInCandleReOpens
  BY DEF RowsInv
<1> QED
  BY <1>1, RowsInvariant, PTL

-----------------------------------------------------------------------------
(* Every row stands for an order that was filled.                          *)

(* The order waited for, if it is filled, has no row yet.                  *)
Unbooked(side) ==
    IF pc = "wait" /\ call.side = side /\ book[call.oid].state = "COMPLETED"
    THEN 1 ELSE 0

CountInv ==
    /\ pc = "wait" => book[call.oid].side = call.side
    /\ \A side \in Side :
          Cardinality(Recorded(side)) + Unbooked(side) <= Cardinality(Filled(side))

LEMMA CountsTyped ==
    ASSUME TypeOK, NEW side \in Side
    PROVE  /\ IsFiniteSet(Recorded(side)) /\ Cardinality(Recorded(side)) \in Nat
           /\ IsFiniteSet(Filled(side)) /\ Cardinality(Filled(side)) \in Nat
           /\ Unbooked(side) \in {0, 1}
<1>1. Len(rows) \in Nat /\ Len(book) \in Nat
  BY DEF TypeOK
<1>2. \A n \in Nat : IsFiniteSet(1 .. n)
  BY FS_Interval
<1>3. IsFiniteSet(Recorded(side)) /\ IsFiniteSet(Filled(side))
  <2>1. /\ Recorded(side) \subseteq 1 .. Len(rows)
        /\ Filled(side) \subseteq 1 .. Len(book)
    BY DEF Recorded, Filled
  <2> QED
    BY <1>1, <1>2, <2>1, FS_Subset
<1> QED
  BY <1>3, FS_CardinalityType DEF Unbooked

(* A step that adds no row and undoes no fill.                             *)
LEMMA CountQuiet ==
    ASSUME TypeOK, CountInv, UNCHANGED rows,
           pc' = "wait" => book'[call'.oid].side = call'.side,
           \A side \in Side : /\ Filled(side)' = Filled(side)
                              /\ Unbooked(side)' <= Unbooked(side)
                              /\ Unbooked(side)' \in {0, 1}
    PROVE  CountInv'
<1> SUFFICES ASSUME NEW side \in Side
             PROVE  (Cardinality(Recorded(side)) + Unbooked(side)
                        <= Cardinality(Filled(side)))'
  BY DEF CountInv
<1>1. Recorded(side)' = Recorded(side) /\ Filled(side)' = Filled(side)
  BY DEF Recorded
<1> QED
  BY <1>1, CountsTyped DEF CountInv

LEMMA LeaveCount ==
    ASSUME TypeOK, CountInv, UNCHANGED <<rows, book>>, pc' # "wait"
    PROVE  CountInv'
<1>1. \A side \in Side : Unbooked(side)' = 0 /\ Filled(side)' = Filled(side)
  BY DEF Unbooked, Filled
<1> QED
  BY <1>1, CountsTyped, CountQuiet

LEMMA SendCount ==
    ASSUME TypeOK, CountInv, SendAccepted \/ SendReplyLost
    PROVE  CountInv'
<1>1. book' = Accepted /\ UNCHANGED rows /\ Len(book) \in Nat
  BY DEF SendAccepted, SendReplyLost, TypeOK
<1>2. /\ Len(book') = Len(book) + 1
      /\ \A o \in 1 .. Len(book) : book'[o] = book[o]
      /\ book'[Len(book) + 1]
           = [side |-> call.side, size |-> call.size, state |-> "ACTIVE"]
  BY <1>1, OrderTyped DEF TypeOK
<1>3. ASSUME NEW side \in Side
      PROVE  Filled(side)' = Filled(side)
  <2>1. \A o \in 1 .. Len(book) + 1 : o \in 1 .. Len(book) \/ o = Len(book) + 1
    BY <1>1
  <2>2. 1 .. Len(book) \subseteq 1 .. Len(book) + 1
    BY <1>1
  <2> QED
    BY <1>2, <2>1, <2>2 DEF Filled
<1>4. /\ pc' = "wait" => /\ call'.oid = Len(book) + 1 /\ call'.side = call.side
                         /\ book'[call'.oid].state = "ACTIVE"
                         /\ book'[call'.oid].side = call'.side
  <2>1. CASE SendAccepted
    <3>1. call' = [call EXCEPT !.oid = Len(book) + 1]
      BY <2>1 DEF SendAccepted
    <3>2. call'.oid = Len(book) + 1 /\ call'.side = call.side
      BY <1>1, <3>1 DEF TypeOK, CallLocals
    <3> QED
      BY <1>2, <3>2
  <2>2. CASE SendReplyLost
    BY <2>2, NextIterationPc DEF SendReplyLost
  <2> QED
    BY <2>1, <2>2
<1>5. \A side \in Side : Unbooked(side)' = 0
  BY <1>4 DEF Unbooked
<1> QED
  BY <1>1, <1>3, <1>4, <1>5, CountsTyped, CountQuiet

LEMMA WaitCount ==
    ASSUME TypeOK, CountInv, UNCHANGED <<rows, book, pc>>,
           call'.oid = call.oid, call'.side = call.side
    PROVE  CountInv'
<1>1. \A side \in Side : Unbooked(side)' = Unbooked(side) /\ Filled(side)' = Filled(side)
  BY DEF Unbooked, Filled
<1> QED
  BY <1>1, CountsTyped, CountQuiet DEF CountInv

LEMMA FillCount ==
    ASSUME TypeOK, CountInv, NEW o \in 1 .. Len(book), Fill(o)
    PROVE  CountInv'
<1>1. /\ book[o].state = "ACTIVE" /\ UNCHANGED <<rows, pc, call>>
      /\ Len(book') = Len(book)
      /\ book'[o].state = "COMPLETED" /\ book'[o].side = book[o].side
      /\ \A k \in 1 .. Len(book) : k # o => book'[k] = book[k]
  BY OrderUpdate DEF Fill
<1>2. pc' = "wait" => book'[call'.oid].side = call'.side
  BY <1>1 DEF CountInv, TypeOK
<1>3. ASSUME NEW side \in Side
      PROVE  (Cardinality(Recorded(side)) + Unbooked(side) <= Cardinality(Filled(side)))'
  <2>1. Recorded(side)' = Recorded(side)
    BY <1>1 DEF Recorded
  <2>2. CASE book[o].side = side
    <3>1. Filled(side)' = Filled(side) \union {o} /\ o \notin Filled(side)
      BY <1>1, <2>2 DEF Filled
    <3>2. Cardinality(Filled(side)') = Cardinality(Filled(side)) + 1
      BY <3>1, CountsTyped, FS_AddElement
    <3>3. Unbooked(side)' <= Unbooked(side) + 1 /\ Unbooked(side)' \in {0, 1}
      BY CountsTyped DEF Unbooked
    <3> QED
      BY <2>1, <3>2, <3>3, CountsTyped DEF CountInv
  <2>3. CASE book[o].side # side
    <3>1. Filled(side)' = Filled(side)
      BY <1>1, <2>3 DEF Filled
    <3>2. Unbooked(side)' = Unbooked(side)
      BY <1>1, <2>3 DEF Unbooked, CountInv, TypeOK
    <3> QED
      BY <2>1, <3>1, <3>2 DEF CountInv
  <2> QED
    BY <2>2, <2>3
<1> QED
  BY <1>2, <1>3 DEF CountInv

LEMMA CancelCount ==
    ASSUME TypeOK, CountInv, NEW o \in 1 .. Len(book), Cancel(o)
    PROVE  CountInv'
<1>1. /\ book[o].state = "ACTIVE" /\ UNCHANGED <<rows, pc, call>>
      /\ Len(book') = Len(book)
      /\ book'[o].state = "CANCELED" /\ book'[o].side = book[o].side
      /\ \A k \in 1 .. Len(book) : k # o => book'[k] = book[k]
  BY OrderUpdate DEF Cancel
<1>2. pc' = "wait" => book'[call'.oid].side = call'.side
  BY <1>1 DEF CountInv, TypeOK
<1>3. \A side \in Side : Filled(side)' = Filled(side) /\ Unbooked(side)' = Unbooked(side)
  BY <1>1 DEF Filled, Unbooked, TypeOK
<1> QED
  BY <1>1, <1>2, <1>3, CountsTyped, CountQuiet

(* The row that a filled order adds uses the order up.                     *)
LEMMA CompletedCount ==
    ASSUME TypeOK, CountInv, PollCompleted, Recordable
    PROVE  CountInv'
<1>1. /\ pc = "wait" /\ book[call.oid].state = "COMPLETED" /\ UNCHANGED book
      /\ RecordSignal
      /\ IF call.closing THEN FinishClosing(Other(call.side))
                         ELSE FinishOpening(call.side)
  BY DEF PollCompleted, OrderIs
<1>2. NextBranch(IF call.closing THEN Other(call.side) ELSE call.side, call.closing)
  BY <1>1, Zenon DEF FinishClosing, FinishOpening, TypeOK, CallLocals
<1>3. pc' # "wait"
  BY <1>2, NextIterationPc DEF NextBranch, AfterOpening
<1>4. CASE rows' = rows
  BY <1>1, <1>3, <1>4, LeaveCount
<1>5. CASE rows' = Append(rows, NewSignal)
  <2>1. /\ Len(rows') = Len(rows) + 1 /\ Len(rows) \in Nat
        /\ \A k \in 1 .. Len(rows) : rows'[k] = rows[k]
        /\ rows'[Len(rows) + 1].side = call.side
    <3>1. rows \in Seq(Signal) /\ NewSignal \in Signal /\ NewSignal.side = call.side
      BY NewSignalTyped DEF TypeOK, NewSignal
    <3> QED
      BY <1>5, <3>1
  <2> SUFFICES ASSUME NEW side \in Side
               PROVE  (Cardinality(Recorded(side)) + Unbooked(side)
                          <= Cardinality(Filled(side)))'
    BY <1>3 DEF CountInv
  <2>2. Filled(side)' = Filled(side) /\ Unbooked(side)' = 0
    BY <1>1, <1>3 DEF Filled, Unbooked
  <2>3. CASE side = call.side
    <3>1. Recorded(side)' = Recorded(side) \union {Len(rows) + 1}
      BY <2>1, <2>3 DEF Recorded
    <3>2. Len(rows) + 1 \notin Recorded(side) /\ IsFiniteSet(Recorded(side))
      <4>1. Len(rows) + 1 \notin Recorded(side)
        BY <2>1 DEF Recorded
      <4>2. IsFiniteSet(Recorded(side))
        BY CountsTyped
      <4> QED
        BY <4>1, <4>2
    <3>3. Cardinality(Recorded(side)') = Cardinality(Recorded(side)) + 1
      BY <3>1, <3>2, FS_AddElement
    <3>4. Unbooked(side) = 1
      BY <1>1, <2>3 DEF Unbooked
    <3> QED
      BY <2>2, <3>3, <3>4, CountsTyped DEF CountInv
  <2>4. CASE side # call.side
    <3>1. Recorded(side)' = Recorded(side)
      BY <2>1, <2>4 DEF Recorded
    <3> QED
      BY <2>2, <3>1, CountsTyped DEF CountInv
  <2> QED
    BY <2>3, <2>4
<1> QED
  BY <1>1, <1>4, <1>5 DEF RecordSignal

LEMMA CountStep ==
    ASSUME TypeOK, CountInv, [Next]_vars
    PROVE  CountInv'
<1>1. CASE Begin \/ Skip \/ Load \/ Iterate \/ QuoteFails \/ Quote \/ SendRejected
           \/ Expire \/ PollFails \/ Restart \/ (PollCompleted /\ ~Recordable)
  BY <1>1, NextIterationPc, LeaveCount
  DEF Begin, Skip, Load, Iterate, QuoteFails, Quote, SendRejected, NotOrdered,
      Expire, PollFails, PollCompleted, GiveUp, Restart, environment
<1>2. CASE OpenShort \/ OpenLong \/ CloseShort \/ CloseLong
  BY <1>2, NextIterationPc, LeaveCount
  DEF OpenShort, OpenLong, CloseShort, CloseLong, Branch, Enter, NextBranch,
      AfterOpening, environment
<1>3. CASE SendAccepted \/ SendReplyLost
  BY <1>3, SendCount
<1>4. CASE PollPending \/ Tick \/ Horizon \/ UNCHANGED vars
  <2>1. UNCHANGED <<rows, book, pc>>
    BY <1>4 DEF PollPending, Tick, Horizon, vars, environment
  <2>2. call'.oid = call.oid /\ call'.side = call.side
    BY <1>4 DEF PollPending, Tick, Horizon, vars, TypeOK, CallLocals
  <2> QED
    BY <2>1, <2>2, WaitCount
<1>5. CASE PollCompleted /\ Recordable
  BY <1>5, CompletedCount
<1>6. CASE Exchange
  BY <1>6, FillCount, CancelCount DEF Exchange
<1> QED
  BY <1>1, <1>2, <1>3, <1>4, <1>5, <1>6
  DEF Next, InTrade, Loop, Ordering, Waiting

(* WaitUntilOrderComplete and the saves that follow it: whatever is lost or
   restarted, no side has more rows in the table than filled orders. *)
THEOREM NoPhantomTheorem == Spec => []NoPhantomRecord
<1>1. Init => CountInv
  <2> SUFFICES ASSUME Init PROVE CountInv
    OBVIOUS
  <2>1. \A side \in Side : Recorded(side) = {} /\ Filled(side) = {} /\ Unbooked(side) = 0
    BY DEF Init, Recorded, Filled, Unbooked
  <2>2. Cardinality({}) = 0
    BY FS_EmptySet
  <2>3. \A side \in Side :
           Cardinality(Recorded(side)) + Unbooked(side) <= Cardinality(Filled(side))
    <3> SUFFICES ASSUME NEW side \in Side
                 PROVE  Cardinality(Recorded(side)) + Unbooked(side)
                           <= Cardinality(Filled(side))
      OBVIOUS
    <3>1. Cardinality(Recorded(side)) = 0 /\ Cardinality(Filled(side)) = 0
      BY <2>1, <2>2, Zenon
    <3> QED
      BY <2>1, <3>1
  <2> QED
    BY <2>3 DEF Init, CountInv
<1>2. TypeOK /\ CountInv => NoPhantomRecord
  <2> SUFFICES ASSUME TypeOK, CountInv, NEW side \in Side
               PROVE  Cardinality(Recorded(side)) <= Cardinality(Filled(side))
    BY DEF NoPhantomRecord
  <2>1. Cardinality(Recorded(side)) + Unbooked(side) <= Cardinality(Filled(side))
    BY DEF CountInv
  <2> QED
    BY <2>1, CountsTyped
<1> QED
  BY <1>1, <1>2, CountStep, TypeInvariant, PTL DEF Spec

-----------------------------------------------------------------------------
(* A position that a restart has made the trader forget.                   *)

LEMMA OrphanIsIdled ==
    ASSUME IInv, faults = 0, Orphaned
    PROVE  Idled
<1>1. NetOpen = 0
  BY DEF Orphaned, NetOpen, Off, Side
<1>2. LedgerPosition(rows) # 0
  BY LedgerTyped DEF Orphaned, IInv, TypeOK
<1> QED
  BY <1>1, <1>2 DEF IInv, FaultFree, Managed

(* Trade decides from the count of rows that it is not flat, and from the
   flags, which a restart has cleared, that there is nothing to close: it
   neither sends an order nor reopens, for ever. *)
THEOREM OrphanTheorem == Spec => OrphanStaysOrphaned
<1>1. ASSUME IInv, [Next]_vars, Orphaned, faults' = 0
      PROVE  Orphaned' /\ book' = book
  <2>1. /\ faults = 0 /\ FaultFree /\ Idled /\ TypeOK
    BY <1>1, FaultsGrow, OrphanIsIdled DEF IInv
  <2>2. pc \notin {"openShort", "openLong", "quote", "send", "wait"}
    BY <2>1 DEF Idled
  <2>3. ~Exchange
    BY <2>1, <2>2 DEF Exchange, Fill, Cancel, FaultFree, BookFits
  <2>4. \/ Begin \/ Skip \/ Load \/ Iterate \/ CloseShort \/ CloseLong \/ Tick
        \/ Restart \/ Horizon \/ UNCHANGED vars
    BY <1>1, <2>2, <2>3
    DEF Next, InTrade, Loop, Ordering, Waiting, OpenShort, OpenLong, Branch,
        QuoteFails, Quote, SendRejected, SendAccepted, SendReplyLost, Expire,
        PollFails, PollPending, PollCompleted
  <2>5. /\ UNCHANGED <<rows, book>>
        /\ isOpen' = isOpen \/ isOpen' = Off
        /\ crashes' = crashes \/ crashes' = crashes + 1
    BY <2>4 DEF Begin, Skip, Load, Iterate, CloseShort, CloseLong, Branch, Tick,
       Restart, Horizon, vars, environment, flags, failures
  <2> QED
    BY <1>1, <2>1, <2>5 DEF Orphaned, TypeOK
<1>2. IInv /\ [Next]_vars => (Orphaned /\ faults' = 0 => Orphaned' /\ book' = book)
  BY <1>1
<1>3. UNCHANGED vars => UNCHANGED <<vars, book>>
  BY DEF vars, environment
<1> QED
  BY <1>2, <1>3, InductiveInvariant, PTL DEF Spec, OrphanStaysOrphaned

-----------------------------------------------------------------------------
(* A trader that does not reopen has one side open at a time.              *)

OneFlag == ~isOpen["BUY"] \/ ~isOpen["SELL"]

TradedInCall == signals # << >> /\ LastSignal(signals).time > t.last

(* isNoPosition is counted once, at the start of Trade: it is out of date as
   soon as the call has traded, and then the gate lets nothing more through. *)
FlatMeansEven ==
    isNoPosition =>
        /\ pc = "begun" => IsEven(Len(rows))
        /\ pc \notin {"idle", "begun"} => IsEven(Len(rows)) \/ TradedInCall

OpensFlat ==
    /\ pc \in {"openShort", "openLong"} => isNoPosition
    /\ InOrder /\ ~call.closing => isNoPosition /\ IsEven(Len(rows))

OneSided == OneFlag /\ FlatMeansEven /\ OpensFlat /\ LevelsInOrder

SingleInv == reOpen = Off /\ (faults = 0 => OneSided)

(* Steps that leave the table, the flags and the levels alone.             *)
LEMMA OneSidedQuiet ==
    ASSUME OneSided, faults = 0,
           UNCHANGED <<rows, signals, isOpen, profit, stopLimit, isNoPosition>>,
           \/ pc' = "idle"
           \/ pc \notin {"idle", "begun"} /\ pc' # "begun" /\ t'.last = t.last
           \/ pc' = pc /\ t' = t,
           pc' \in {"openShort", "openLong"} => pc \in {"openShort", "openLong"},
           InOrder' /\ ~call'.closing => InOrder /\ ~call.closing
    PROVE  OneSided'
<1>1. OneFlag'
  BY DEF OneSided, OneFlag
<1>2. FlatMeansEven'
  BY DEF OneSided, FlatMeansEven, TradedInCall
<1>3. OpensFlat'
  BY DEF OneSided, OpensFlat
<1>4. LevelsInOrder'
  BY DEF OneSided, LevelsInOrder
<1> QED
  BY <1>1, <1>2, <1>3, <1>4 DEF OneSided

LEMMA HeadOneSided ==
    ASSUME TypeOK, SingleInv, faults = 0, faults' = 0,
           Begin \/ Skip \/ Load \/ Iterate
    PROVE  OneSided'
<1>1. OneSided /\ reOpen = Off
  BY DEF SingleInv
<1>2. CASE Begin
  <2>1. isNoPosition' = IsEven(Len(rows)) /\ pc' = "begun" /\ UNCHANGED <<rows, isOpen>>
    BY <1>2 DEF Begin, Fault, flags
  <2>2. LevelsInOrder'
    BY <1>1, <1>2 DEF Begin, flags, OneSided, LevelsInOrder
  <2> QED
    BY <1>1, <2>1, <2>2 DEF OneSided, OneFlag, FlatMeansEven, OpensFlat, InOrder
<1>3. CASE Skip
  BY <1>1, <1>3, OneSidedQuiet DEF Skip, environment, memory, flags, InOrder
<1>4. CASE Load
  <2>1. /\ pc = "begun" /\ pc' = "iterate" /\ UNCHANGED <<rows, isOpen, isNoPosition>>
    BY <1>4 DEF Load, flags
  <2>2. LevelsInOrder'
    BY <1>1, <1>4 DEF Load, flags, OneSided, LevelsInOrder
  <2> QED
    BY <1>1, <2>1, <2>2 DEF OneSided, OneFlag, FlatMeansEven, OpensFlat, InOrder
<1>5. CASE Iterate
  <2>1. /\ pc = "iterate" /\ t'.last = t.last
        /\ UNCHANGED <<rows, signals, isOpen, isNoPosition, profit, stopLimit>>
    BY <1>5 DEF Iterate, memory, flags, TypeOK, TradeLocals
  <2>2. PICK wide \in BOOLEAN :
           pc' = IF GateOpen(wide) THEN "openShort" ELSE "closeShort"
    BY <1>5 DEF Iterate
  <2>3. pc' = "openShort" => isNoPosition
    BY <1>1, <2>2 DEF GateOpen, AnyReOpen, Off
  <2>4. pc' \in {"openShort", "closeShort"}
    BY <2>2
  <2>5. LevelsInOrder'
    BY <1>1, <2>1 DEF OneSided, LevelsInOrder
  <2> QED
    BY <1>1, <2>1, <2>3, <2>4, <2>5
    DEF OneSided, OneFlag, FlatMeansEven, TradedInCall, OpensFlat, InOrder
<1> QED
  BY <1>2, <1>3, <1>4, <1>5

(* Only a trader that is flat by its table passes the gate to open.        *)
LEMMA BranchOneSided ==
    ASSUME TypeOK, RowsInv, SingleInv, faults = 0,
           NEW stage \in {"openShort", "openLong", "closeShort", "closeLong"},
           NEW p \in Side, NEW closing \in BOOLEAN, NEW wanted \in BOOLEAN,
           ~closing => stage \in {"openShort", "openLong"},
           closing => stage \in {"closeShort", "closeLong"},
           Branch(stage, p, closing, wanted)
    PROVE  OneSided' /\ reOpen' = Off
<1> DEFINE side == IF closing THEN Other(p) ELSE p
<1>1. /\ pc = stage /\ OneSided /\ reOpen = Off
      /\ UNCHANGED <<rows, signals, isOpen, isNoPosition, profit, stopLimit>>
      /\ t \in TradeLocals /\ side \in Side
  BY SignTyped DEF Branch, memory, TypeOK, SingleInv
<1>2. CASE ~wanted
  <2>1. NextBranch(p, closing) /\ UNCHANGED reOpen
    BY <1>2 DEF Branch
  <2>2. /\ pc' \in {"idle", "iterate", "openLong", "closeShort", "closeLong"}
        /\ pc' = "openLong" => ~closing
        /\ pc' = "idle" \/ t'.last = t.last
    BY <1>1, <2>1, NextIterationLast DEF NextBranch, AfterOpening
  <2> QED
    BY <1>1, <2>1, <2>2, OneSidedQuiet DEF InOrder
<1>3. CASE wanted
  <2>1. Enter(side, closing)
    BY <1>3 DEF Branch
  <2> HIDE DEF side
  <2>2. reOpen' = Off
    <3>1. \/ UNCHANGED reOpen
          \/ reOpen' = [reOpen EXCEPT ![side] = Keeps(side)]
      BY <2>1 DEF Enter
    <3>2. ~Keeps(side)
      BY <1>1 DEF Keeps, Off
    <3> QED
      BY <1>1, <3>1, <3>2 DEF Off, Side
  <2>3. CASE NextIteration
    <3>1. pc' = "idle" \/ (pc' = "iterate" /\ t'.last = t.last)
      BY <1>1, <2>3, NextIterationLast
    <3> QED
      BY <1>1, <2>2, <3>1, OneSidedQuiet DEF InOrder
  <2>4. CASE ~NextIteration
    <3>1. /\ CanTrade(side, signals, CandleTime, Keeps(side))
          /\ pc' = "quote" /\ UNCHANGED t
          /\ call' = [NoCall EXCEPT !.side = side, !.closing = closing]
      BY <2>1, <2>4 DEF Enter
    <3>2. CandleTime \in Int /\ CandleTime <= t.last /\ t.last \in Int
      BY <1>1, CandleTimeBounds DEF TradeLocals
    <3>3. ~Keeps(side) /\ Keeps(side) \in BOOLEAN
      BY <1>1 DEF Keeps, Off, Side
    <3>4. signals # << >> => LastSignal(signals).time <= CandleTime
      BY <1>1, <3>1, <3>2, <3>3, GateIgnoresSide DEF TypeOK
    <3>5. ~TradedInCall
      BY <3>2, <3>4, LastTyped DEF TradedInCall, TypeOK
    <3>6. ~closing => isNoPosition /\ IsEven(Len(rows))
      BY <1>1, <3>5 DEF OneSided, OpensFlat, FlatMeansEven
    <3>7. call'.closing = closing
      BY <3>1 DEF NoCall
    <3>8. OpensFlat'
      BY <1>1, <3>1, <3>6, <3>7 DEF OpensFlat
    <3>9. FlatMeansEven' /\ OneFlag' /\ LevelsInOrder'
      BY <1>1, <3>1
      DEF OneSided, FlatMeansEven, TradedInCall, OneFlag, LevelsInOrder
    <3> QED
      BY <2>2, <3>8, <3>9 DEF OneSided
  <2> QED
    BY <2>3, <2>4
<1> QED
  BY <1>2, <1>3

LEMMA OrderOneSided ==
    ASSUME TypeOK, SingleInv, faults = 0,
           \/ QuoteFails \/ SendRejected \/ Quote \/ SendAccepted \/ PollPending
           \/ Exchange \/ Tick \/ Horizon \/ UNCHANGED vars
    PROVE  OneSided' /\ reOpen' = Off
<1>1. /\ OneSided /\ reOpen = Off /\ t \in TradeLocals
      /\ UNCHANGED <<rows, signals, isOpen, isNoPosition, profit, stopLimit, reOpen>>
  BY DEF SingleInv, TypeOK, QuoteFails, SendRejected, NotOrdered, Quote,
     SendAccepted, PollPending, Exchange, Fill, Cancel, Tick, Horizon, vars,
     memory, flags
<1>2. CASE QuoteFails \/ SendRejected
  <2>1. pc \notin {"idle", "begun"} /\ NextIteration
    BY <1>2 DEF QuoteFails, SendRejected, NotOrdered
  <2>2. pc' = "idle" \/ (pc' = "iterate" /\ t'.last = t.last)
    BY <1>1, <2>1, NextIterationLast
  <2> QED
    BY <1>1, <2>1, <2>2, OneSidedQuiet DEF InOrder
<1>3. CASE Quote \/ SendAccepted \/ PollPending
  <2>1. /\ InOrder /\ pc' \in {"send", "wait"} /\ t' = t
        /\ call'.closing = call.closing
    BY <1>3 DEF Quote, SendAccepted, PollPending, InOrder, TypeOK, CallLocals
  <2> QED
    BY <1>1, <2>1, OneSidedQuiet DEF InOrder
<1>4. CASE Exchange \/ Tick \/ Horizon \/ UNCHANGED vars
  <2>1. UNCHANGED <<pc, t, call>>
    BY <1>4 DEF Exchange, Fill, Cancel, Tick, Horizon, vars
  <2> QED
    BY <1>1, <2>1, OneSidedQuiet DEF InOrder
<1> QED
  BY <1>2, <1>3, <1>4

LEMMA ExpireOneSided ==
    ASSUME TypeOK, SingleInv, faults = 0, ~Continue, Expire
    PROVE  OneSided' /\ reOpen' = Off
<1>1. /\ OneSided /\ reOpen = Off /\ t \in TradeLocals /\ pc = "wait"
      /\ UNCHANGED <<rows, signals, isOpen, isNoPosition, profit, stopLimit>>
      /\ NextIteration
  BY DEF SingleInv, TypeOK, Expire, GiveUp, memory
<1>2. reOpen' = [reOpen EXCEPT ![call.side] = FALSE]
  BY DEF Expire, GiveUp, Settled
<1>3. reOpen' = Off
  BY <1>1, <1>2 DEF Off, Side
<1>4. pc' = "idle" \/ (pc' = "iterate" /\ t'.last = t.last)
  BY <1>1, NextIterationLast
<1> QED
  BY <1>1, <1>3, <1>4, OneSidedQuiet DEF InOrder

(* With a table of an even number of rows, nothing is marked as open.      *)
LEMMA EvenIsFlat ==
    ASSUME isOpen \in [Side -> BOOLEAN], Managed, OneFlag, IsEven(Len(rows))
    PROVE  ~isOpen["BUY"] /\ ~isOpen["SELL"]
<1>1. NetOpen = 0
  BY DEF Managed, LedgerPosition
<1> QED
  BY <1>1 DEF NetOpen, OneFlag

(* The levels of an opening, whatever was paid and whatever the band.      *)
LEMMA LevelsSet ==
    ASSUME NEW p \in Side, NEW paid \in Prices, NEW band \in Bands
    PROVE  IF p = "BUY" THEN StopLevel(p, paid) < ProfitLevel(p, paid, band)
                        ELSE ProfitLevel(p, paid, band) < StopLevel(p, paid)
<1>1. paid \in Int /\ band \in Int /\ Gap \in Nat /\ Gap > 0
  BY PriceAssumption, GapAssumption
<1> QED
  BY <1>1 DEF ProfitLevel, StopLevel

(* A trade done in this call closes the gate for the rest of it.           *)
LEMMA RecordTrades ==
    ASSUME TypeOK, RowsInv, InOrder, RecordSignal, t'.last = t.last
    PROVE  TradedInCall'
<1>1. NewSignal \in Signal /\ NewSignal.time = now + 1 /\ signals \in Seq(Signal)
  BY NewSignalTyped DEF NewSignal, TypeOK
<1>2. signals' # << >> /\ LastSignal(signals') = NewSignal
  BY <1>1, LastOfAppend DEF RecordSignal
<1>3. t.last <= CandleStart(now)
  BY DEF RowsInv, CandlesBegun, InOrder
<1>4. t.last < now + 1
  BY <1>3, CandleStartBounds DEF TypeOK, TradeLocals
<1> QED
  BY <1>1, <1>2, <1>4 DEF TradedInCall

(* A recorded trade moves one flag and, when it opens, sets the levels.    *)
LEMMA RecordOneSided ==
    ASSUME TypeOK, RowsInv, Managed, OneSided, InOrder, RecordSignal,
           UNCHANGED isNoPosition,
           NEW p \in Side, NextBranch(p, call.closing), call.closing => isOpen[p],
           isOpen' = [isOpen EXCEPT ![p] = ~call.closing],
           ~call.closing =>
              \E paid \in Prices, band \in Bands :
                 profit' = ProfitLevel(p, paid, band) /\ stopLimit' = StopLevel(p, paid)
    PROVE  OneSided'
<1>1. t \in TradeLocals /\ isOpen \in [Side -> BOOLEAN] /\ call.closing \in BOOLEAN
  BY DEF TypeOK, CallLocals
<1>2. /\ pc' \in {"idle", "iterate", "openLong", "closeShort", "closeLong"}
      /\ pc' = "openLong" => ~call.closing
      /\ pc' = "idle" \/ t'.last = t.last
  BY <1>1, NextIterationLast DEF NextBranch, AfterOpening
<1>3. FlatMeansEven'
  BY <1>2, RecordTrades DEF FlatMeansEven
<1>4. OpensFlat'
  BY <1>2 DEF OneSided, OpensFlat, InOrder
<1>5. CASE call.closing
  <2>1. ~isOpen'["BUY"] /\ ~isOpen'["SELL"]
    BY <1>1, <1>5 DEF OneSided, OneFlag, Side
  <2> QED
    BY <1>3, <1>4, <2>1 DEF OneSided, OneFlag, LevelsInOrder
<1>6. CASE ~call.closing
  <2>1. ~isOpen["BUY"] /\ ~isOpen["SELL"]
    BY <1>1, <1>6, EvenIsFlat DEF OneSided, OpensFlat
  <2>2. \A s \in Side : isOpen'[s] => s = p
    BY <1>1, <1>6, <2>1 DEF Side
  <2>3. LevelsInOrder'
    <3>1. PICK paid \in Prices, band \in Bands :
             profit' = ProfitLevel(p, paid, band) /\ stopLimit' = StopLevel(p, paid)
      BY <1>6
    <3> QED
      BY <2>2, <3>1, LevelsSet DEF LevelsInOrder, Side
  <2> QED
    BY <1>3, <1>4, <2>2, <2>3 DEF OneSided, OneFlag, Side
<1> QED
  BY <1>1, <1>5, <1>6

LEMMA FinishOneSided ==
    ASSUME TypeOK, RowsInv, FaultFree, OneSided, reOpen = Off, ~Continue,
           pc = "wait", RecordSignal, UNCHANGED isNoPosition,
           IF call.closing THEN FinishClosing(Other(call.side))
                           ELSE FinishOpening(call.side)
    PROVE  OneSided' /\ reOpen' = Off
<1> DEFINE p == IF call.closing THEN Other(call.side) ELSE call.side
<1>1. /\ InOrder /\ call.side \in Side /\ p \in Side /\ Managed
  BY SignTyped DEF TypeOK, CallLocals, InOrder, FaultFree, Idled
<1>2. NextBranch(p, call.closing)
  BY Zenon DEF FinishClosing, FinishOpening, TypeOK, CallLocals
<1>3. CASE call.closing
  <2>1. FinishClosing(p) /\ isOpen[p]
    BY <1>1, <1>3 DEF FaultFree, OrderFits
  <2>2. /\ isOpen' = [isOpen EXCEPT ![p] = FALSE]
        /\ reOpen' = [reOpen EXCEPT ![call.side] = FALSE]
    BY <2>1 DEF FinishClosing, Settled
  <2>3. reOpen' = Off
    BY <1>1, <2>2 DEF Off, Side
  <2>4. isOpen' = [isOpen EXCEPT ![p] = ~call.closing]
    BY <1>3, <2>2
  <2> HIDE DEF p
  <2> QED
    BY <1>1, <1>2, <1>3, <2>1, <2>3, <2>4, RecordOneSided
<1>4. CASE ~call.closing
  <2>1. FinishOpening(p)
    BY <1>4
  <2>2. /\ isOpen' = [isOpen EXCEPT ![p] = TRUE]
        /\ reOpen' = [reOpen EXCEPT ![p] = FALSE]
        /\ \E paid \in Prices, band \in Bands :
              profit' = ProfitLevel(p, paid, band) /\ stopLimit' = StopLevel(p, paid)
    BY <2>1 DEF FinishOpening
  <2>3. reOpen' = Off
    BY <1>1, <2>2 DEF Off, Side
  <2>4. isOpen' = [isOpen EXCEPT ![p] = ~call.closing]
    BY <1>4, <2>2
  <2> HIDE DEF p
  <2> QED
    BY <1>1, <1>2, <1>4, <2>2, <2>3, <2>4, RecordOneSided
<1> QED
  BY <1>3, <1>4

(* What a restart leaves.                                                  *)
LEMMA RestartOneSided ==
    ASSUME Restart
    PROVE  OneSided' /\ reOpen' = Off
<1>1. pc' = "idle" /\ isOpen' = Off /\ reOpen' = Off
  BY DEF Restart
<1> QED
  BY <1>1
  DEF OneSided, OneFlag, FlatMeansEven, OpensFlat, InOrder, LevelsInOrder, Off, Side

(* The reopen flags stay off, whatever fails.                              *)
LEMMA ReOpenOffStep ==
    ASSUME TypeOK, reOpen = Off, ~Continue, [Next]_vars
    PROVE  reOpen' = Off
<1>1. call.side \in Side /\ Other(call.side) \in Side
  BY SignTyped DEF TypeOK, CallLocals
<1>2. \A s \in Side : Keeps(s) = FALSE
  BY DEF Keeps, Off
<1>3. \A s \in Side : [reOpen EXCEPT ![s] = FALSE] = Off
  BY DEF Off, Side
<1>4. Settled = FALSE
  BY DEF Settled
<1>5. CASE OpenShort \/ OpenLong \/ CloseShort \/ CloseLong
  <2>1. PICK s \in Side : \/ UNCHANGED reOpen
                          \/ reOpen' = [reOpen EXCEPT ![s] = Keeps(s)]
    BY <1>5
    DEF OpenShort, OpenLong, CloseShort, CloseLong, Branch, Enter, Side, Other
  <2> QED
    BY <1>2, <1>3, <2>1
<1>6. CASE Expire \/ PollFails \/ PollCompleted
  BY <1>1, <1>3, <1>4, <1>6
  DEF Expire, PollFails, PollCompleted, GiveUp, FinishClosing, FinishOpening
<1>7. CASE Restart
  BY <1>7 DEF Restart
<1>8. CASE \/ Begin \/ Skip \/ Load \/ Iterate \/ Ordering \/ PollPending
           \/ Exchange \/ Tick \/ Horizon \/ UNCHANGED vars
  BY <1>8 DEF Begin, Skip, Load, Iterate, Ordering, QuoteFails, Quote, SendRejected,
     SendAccepted, SendReplyLost, NotOrdered, PollPending, Exchange, Fill, Cancel,
     Tick, Horizon, flags, vars
<1> QED
  BY <1>5, <1>6, <1>7, <1>8 DEF Next, InTrade, Loop, Waiting

LEMMA SingleStep ==
    ASSUME IInv, RowsInv, SingleInv, ~Continue, [Next]_vars
    PROVE  SingleInv'
<1>1. TypeOK /\ SignalsInPast /\ reOpen = Off
  BY DEF IInv, SingleInv
<1>2. reOpen' = Off
  BY <1>1, ReOpenOffStep
<1>3. ASSUME faults' = 0
      PROVE  OneSided'
  <2>1. faults = 0 /\ FaultFree /\ OneSided /\ ~SendReplyLost /\ ~PollFails
    BY <1>1, <1>3, FaultsGrow DEF IInv, SingleInv
  <2>2. CASE Begin \/ Skip \/ Load \/ Iterate
    BY <1>1, <1>3, <2>1, <2>2, HeadOneSided
  <2>3. CASE OpenShort \/ OpenLong \/ CloseShort \/ CloseLong
    <3>1. \A p \in Side : WantsOpen(p) \in BOOLEAN /\ WantsClose(p) \in BOOLEAN
      BY DEF WantsOpen, WantsClose
    <3> QED
      BY <1>1, <2>1, <2>3, <3>1, BranchOneSided
      DEF OpenShort, OpenLong, CloseShort, CloseLong, Side
  <2>4. CASE \/ QuoteFails \/ SendRejected \/ Quote \/ SendAccepted \/ PollPending
             \/ Exchange \/ Tick \/ Horizon \/ UNCHANGED vars
    BY <1>1, <2>1, <2>4, OrderOneSided
  <2>5. CASE Expire
    BY <1>1, <2>1, <2>5, ExpireOneSided
  <2>6. CASE PollCompleted
    <3>1. /\ pc = "wait" /\ RecordSignal /\ UNCHANGED isNoPosition
          /\ IF call.closing THEN FinishClosing(Other(call.side))
                             ELSE FinishOpening(call.side)
      BY <1>1, <2>6, RecordableInWait DEF PollCompleted
    <3> QED
      BY <1>1, <2>1, <3>1, FinishOneSided
  <2>7. CASE Restart
    BY <2>7, RestartOneSided
  <2> QED
    BY <2>1, <2>2, <2>3, <2>4, <2>5, <2>6, <2>7
    DEF Next, InTrade, Loop, Ordering, Waiting
<1> QED
  BY <1>2, <1>3 DEF SingleInv

LEMMA SingleInvariant ==
    ASSUME Continue = FALSE
    PROVE  Spec => []SingleInv
<1>1. Init => SingleInv
  BY DEF Init, SingleInv, OneSided, OneFlag, FlatMeansEven, OpensFlat, InOrder,
     LevelsInOrder, Off, Side
<1>2. IInv /\ RowsInv /\ SingleInv /\ [Next]_vars => SingleInv'
  BY SingleStep
<1> QED
  BY <1>1, <1>2, InductiveInvariant, RowsInvariant, PTL DEF Spec

(* Without Continue, no failure counted: the two sides are never marked as
   open at once, so the one pair of levels belongs to the open position, and
   FinishOpening sets it with the stop and the profit on their sides. *)
THEOREM LevelsTheorem ==
    ASSUME Continue = FALSE
    PROVE  Spec => []LevelsInOrder
<1>1. SingleInv => LevelsInOrder
  BY DEF SingleInv, OneSided, LevelsInOrder
<1> QED
  BY <1>1, SingleInvariant, PTL

(* The flags of a trader that does not reopen are what OpenStatus reads from
   the table: buyOpen and sellOpen, each by itself and not only netted. *)
THEOREM FlagsMatchTheorem ==
    ASSUME Continue = FALSE
    PROVE  Spec => []FlagsMatchLedger
<1>1. IInv /\ SingleInv => FlagsMatchLedger
  <2> SUFFICES ASSUME IInv, SingleInv, faults = 0, crashes = 0
               PROVE  isOpen = OpenStatus(rows)
    BY DEF FlagsMatchLedger
  <2>1. Managed /\ OneFlag /\ isOpen \in [Side -> BOOLEAN] /\ rows \in Seq(Signal)
    BY DEF IInv, FaultFree, Idled, SingleInv, OneSided, TypeOK
  <2>2. CASE IsEven(Len(rows))
    BY <2>1, <2>2, EvenIsFlat DEF OpenStatus, Side
  <2>3. CASE ~IsEven(Len(rows))
    <3>1. rows # << >>
      BY <2>3 DEF IsEven
    <3>2. LastSignal(rows).side \in {"BUY", "SELL"}
      BY <2>1, <3>1, LastTyped DEF Signal, Side
    <3>3. NetOpen = Sign(LastSignal(rows).side)
      BY <2>1, <2>3 DEF Managed, LedgerPosition
    <3> QED
      BY <2>1, <2>3, <3>2, <3>3 DEF OpenStatus, NetOpen, OneFlag, Sign, Side
  <2> QED
    BY <2>2, <2>3
<1> QED
  BY <1>1, InductiveInvariant, SingleInvariant, PTL

-----------------------------------------------------------------------------
(* BackTest mode: every second row of the table closes the one before it.  *)
(* All steps but PaperOrder are steps of Trade too, and keep what they keep *)
(* there.                                                                  *)

(* The inductive invariant.                                                *)

Alternating ==
    \A k \in 1 .. Len(rows) : IsEven(k) => rows[k].side = Other(rows[k - 1].side)

ClosesOpen == pc = "quote" /\ call.closing => isOpen[Other(call.side)]

(* As long as no read and no save fails, the flags net to what the table says
   is open, or a restart has made the trader forget it. *)
PaperFits == Alternating /\ (Managed \/ Idled) /\ ClosesOpen

(* Without an order that waits no reopen flag is ever armed.               *)
NoneReOpens == \A k \in 1 .. Len(rows) : ~rows[k].reOpen

PaperInv ==
    /\ TypeOK /\ SignalsInPast /\ RowsInv /\ SingleInv
    /\ NoneReOpens /\ pc \notin {"send", "wait"}
    /\ faults = 0 => PaperFits

(* The position that the order under way opens or closes.                  *)
Position == IF call.closing THEN Other(call.side) ELSE call.side

-----------------------------------------------------------------------------
(* PaperOrder.                                                             *)

(* What a recorded trade does, whether it opens or closes.                 *)
LEMMA PaperEffect ==
    ASSUME TypeOK, PaperOrder, Recordable
    PROVE  /\ pc = "quote" /\ InOrder /\ RecordSignal /\ now' = now + 1
           /\ Position \in Side /\ UNCHANGED isNoPosition
           /\ NextBranch(Position, call.closing)
           /\ isOpen' = [isOpen EXCEPT ![Position] = ~call.closing]
           /\ reOpen' = reOpen \/ reOpen' = [reOpen EXCEPT ![Position] = FALSE]
           /\ ~call.closing =>
                 \E paid \in Prices, band \in Bands :
                    /\ profit' = ProfitLevel(Position, paid, band)
                    /\ stopLimit' = StopLevel(Position, paid)
           /\ call.closing => profit' = 0 /\ stopLimit' = 0
           /\ isProfit' \in [Side -> BOOLEAN] /\ isStopLimit' \in BOOLEAN
<1>1. /\ call.side \in Side /\ Other(call.side) \in Side /\ call.closing \in BOOLEAN
      /\ isProfit \in [Side -> BOOLEAN]
  BY SignTyped DEF TypeOK, CallLocals
<1>2. /\ pc = "quote" /\ InOrder /\ RecordSignal /\ now' = now + 1
      /\ UNCHANGED isNoPosition
      /\ IF call.closing THEN PaperClosing(Other(call.side))
                         ELSE PaperOpening(call.side)
  BY DEF PaperOrder, NoExchange, InOrder
<1>3. CASE call.closing
  <2>1. Position = Other(call.side) /\ PaperClosing(Position)
    BY <1>2, <1>3 DEF Position
  <2>2. isStopLimit' \in BOOLEAN
    BY <2>1, Zenon DEF PaperClosing
  <2>3. isProfit' \in [Side -> BOOLEAN]
    BY <1>1, <2>1 DEF PaperClosing
  <2>4. /\ isOpen' = [isOpen EXCEPT ![Position] = ~call.closing]
        /\ reOpen' = reOpen /\ profit' = 0 /\ stopLimit' = 0
    BY <1>3, <2>1 DEF PaperClosing
  <2>5. NextBranch(Position, call.closing)
    BY <1>1, <1>3, <2>1, Zenon DEF PaperClosing
  <2> QED
    BY <1>1, <1>2, <1>3, <2>1, <2>2, <2>3, <2>4, <2>5
<1>4. CASE ~call.closing
  <2>1. Position = call.side /\ FinishOpening(Position)
    BY <1>2, <1>4 DEF Position, PaperOpening
  <2>2. isProfit' \in [Side -> BOOLEAN] /\ isStopLimit' \in BOOLEAN
    BY <1>1, <2>1 DEF FinishOpening
  <2>3. /\ isOpen' = [isOpen EXCEPT ![Position] = ~call.closing]
        /\ reOpen' = [reOpen EXCEPT ![Position] = FALSE]
        /\ \E paid \in Prices, band \in Bands :
              /\ profit' = ProfitLevel(Position, paid, band)
              /\ stopLimit' = StopLevel(Position, paid)
    BY <1>4, <2>1 DEF FinishOpening
  <2>4. NextBranch(Position, call.closing)
    BY <1>1, <1>4, <2>1, Zenon DEF FinishOpening
  <2> QED
    BY <1>1, <1>2, <1>4, <2>1, <2>2, <2>3, <2>4
<1> QED
  BY <1>1, <1>3, <1>4

LEMMA PaperOrderTypes ==
    ASSUME TypeOK, PaperOrder
    PROVE  TypeOK' /\ pc' \notin {"begun", "quote", "send", "wait"}
<1>1. now' \in Nat /\ UNCHANGED <<pos, book, startTrade, isNoPosition, crashes>>
  BY DEF PaperOrder, NoExchange, TypeOK
<1>2. CASE ~Recordable
  <2>1. NextIteration /\ UNCHANGED <<rows, signals, flags, faults>>
    BY <1>2 DEF PaperOrder
  <2>2. /\ t' \in TradeLocals /\ call' \in CallLocals
        /\ pc' \in Stages /\ pc' \in {"iterate", "idle"}
    BY <2>1, NextIterationTypes, NextIterationPc DEF TypeOK
  <2> QED
    BY <1>1, <2>1, <2>2 DEF TypeOK, flags
<1>3. CASE Recordable
  <2>1. /\ RecordSignal /\ NewSignal \in Signal /\ rows \in Seq(Signal)
        /\ signals \in Seq(Signal) /\ faults \in Nat
    BY <1>3, PaperEffect, NewSignalTyped DEF TypeOK
  <2>2. /\ Append(rows, NewSignal) \in Seq(Signal)
        /\ Append(signals, NewSignal) \in Seq(Signal)
    BY <2>1
  <2>3. rows' \in Seq(Signal) /\ signals' \in Seq(Signal) /\ faults' \in Nat
    <3>1. /\ signals' = Append(signals, NewSignal)
          /\ rows' = Append(rows, NewSignal) \/ rows' = rows
          /\ faults' = faults \/ faults' = faults + 1
      BY <2>1 DEF RecordSignal, Fault
    <3>2. rows' \in Seq(Signal)
      BY <2>1, <2>2, <3>1
    <3>3. signals' \in Seq(Signal)
      BY <2>2, <3>1
    <3>4. faults' \in Nat
      BY <2>1, <3>1
    <3> QED
      BY <3>2, <3>3, <3>4
  <2>4. /\ Position \in Side /\ call.closing \in BOOLEAN
        /\ NextBranch(Position, call.closing)
    BY <1>3, PaperEffect DEF TypeOK, CallLocals
  <2>5. /\ t' \in TradeLocals /\ call' \in CallLocals /\ pc' \in Stages
        /\ pc' \notin {"begun", "quote", "send", "wait"}
    BY <2>4, NextBranchTypes, NextIterationPc DEF NextBranch, AfterOpening, TypeOK
  <2>6. isOpen' \in [Side -> BOOLEAN] /\ reOpen' \in [Side -> BOOLEAN]
    BY <1>3, <2>4, PaperEffect DEF TypeOK
  <2>7. profit' \in Int /\ stopLimit' \in Int
    <3>1. CASE call.closing
      BY <1>3, <3>1, PaperEffect
    <3>2. CASE ~call.closing
      <4>1. PICK paid \in Prices, band \in Bands :
               /\ profit' = ProfitLevel(Position, paid, band)
               /\ stopLimit' = StopLevel(Position, paid)
        BY <1>3, <3>2, PaperEffect
      <4> QED
        BY <4>1, PriceAssumption, GapAssumption DEF ProfitLevel, StopLevel
    <3> QED
      BY <3>1, <3>2
  <2>8. isProfit' \in [Side -> BOOLEAN] /\ isStopLimit' \in BOOLEAN
    BY <1>3, PaperEffect
  <2> QED
    BY <1>1, <2>3, <2>5, <2>6, <2>7, <2>8 DEF TypeOK
<1> QED
  BY <1>2, <1>3

LEMMA PaperOrderRows ==
    ASSUME TypeOK, SignalsInPast, RowsInv, PaperOrder
    PROVE  SignalsInPast' /\ RowsInv'
<1>1. pc = "quote" /\ now' = now + 1 /\ t \in TradeLocals
  BY DEF PaperOrder, TypeOK
<1>2. CASE ~Recordable
  <2>1. NextIteration /\ UNCHANGED <<rows, signals>>
    BY <1>2 DEF PaperOrder
  <2>2. pc' = "idle" \/ (pc' = "iterate" /\ t'.last = t.last)
    BY <1>1, <2>1, NextIterationLast
  <2> QED
    BY <1>1, <2>1, <2>2, QuietPast, RowsQuiet DEF InOrder
<1>3. CASE Recordable
  <2>1. InOrder /\ RecordSignal /\ NextBranch(Position, call.closing)
    BY <1>3, PaperEffect
  <2>2. /\ pc' \in {"idle", "iterate", "openLong", "closeShort", "closeLong"}
        /\ pc' = "idle" \/ t'.last = t.last
    BY <1>1, <2>1, NextIterationLast DEF NextBranch, AfterOpening
  <2> QED
    BY <1>1, <2>1, <2>2, RecordPast, RecordRows
<1> QED
  BY <1>2, <1>3

(* The checks of the two ends of an order agree, so none is refused here.  *)
LEMMA PaperOrderSingle ==
    ASSUME PaperInv, PaperOrder
    PROVE  SingleInv'
<1>1. TypeOK /\ SignalsInPast /\ RowsInv /\ reOpen = Off /\ Recordable
  BY RecordableInWait DEF PaperInv, SingleInv
<1>2. reOpen' = Off
  BY <1>1, PaperEffect DEF Off, Side
<1>3. ASSUME faults' = 0
      PROVE  OneSided'
  <2>1. faults = 0
    BY <1>1, <1>3, PaperEffect DEF RecordSignal, Fault, TypeOK
  <2>2. Managed /\ OneSided /\ pc = "quote" /\ ClosesOpen
    BY <2>1 DEF PaperInv, PaperFits, SingleInv, Idled, PaperOrder
  <2>3. call.closing => isOpen[Position]
    BY <2>2 DEF ClosesOpen, Position
  <2> QED
    BY <1>1, <2>2, <2>3, PaperEffect, RecordOneSided
<1> QED
  BY <1>2, <1>3 DEF SingleInv

LEMMA PaperOrderNone ==
    ASSUME PaperInv, PaperOrder
    PROVE  NoneReOpens'
<1>1. TypeOK /\ reOpen = Off /\ Recordable /\ NoneReOpens
  BY RecordableInWait DEF PaperInv, SingleInv
<1>2. NewSignal.reOpen = FALSE /\ NewSignal \in Signal /\ rows \in Seq(Signal)
  BY <1>1, NewSignalTyped DEF NewSignal, Off, TypeOK, CallLocals
<1>3. rows' = rows \/ rows' = Append(rows, NewSignal)
  BY <1>1, PaperEffect DEF RecordSignal
<1>4. CASE rows' = rows
  BY <1>1, <1>4 DEF NoneReOpens
<1>5. CASE rows' = Append(rows, NewSignal)
  <2>1. /\ Len(rows') = Len(rows) + 1 /\ rows'[Len(rows) + 1] = NewSignal
        /\ \A k \in 1 .. Len(rows) : rows'[k] = rows[k]
    BY <1>2, <1>5
  <2> QED
    BY <1>1, <1>2, <2>1 DEF NoneReOpens
<1> QED
  BY <1>3, <1>4, <1>5

(* The row that is added goes the other way if it closes: the row before it is
   the one that opened the position. *)
LEMMA PaperOrderFits ==
    ASSUME PaperInv, PaperOrder, faults' = 0
    PROVE  PaperFits'
<1>1. TypeOK /\ SignalsInPast /\ RowsInv /\ reOpen = Off /\ Recordable
  BY RecordableInWait DEF PaperInv, SingleInv
<1>2. rows' = Append(rows, NewSignal) /\ faults = 0
  BY <1>1, PaperEffect DEF RecordSignal, Fault, TypeOK
<1>3. Managed /\ OneSided /\ ClosesOpen /\ Alternating /\ pc = "quote"
  BY <1>2 DEF PaperInv, PaperFits, SingleInv, Idled, PaperOrder
<1>4. /\ call.side \in Side /\ call.closing \in BOOLEAN
      /\ isOpen \in [Side -> BOOLEAN] /\ rows \in Seq(Signal)
      /\ NewSignal \in Signal /\ NewSignal.side = call.side
  BY <1>1, NewSignalTyped DEF TypeOK, CallLocals, NewSignal
<1>5. /\ Len(rows') = Len(rows) + 1 /\ Len(rows) \in Nat
      /\ \A k \in 1 .. Len(rows) : rows'[k] = rows[k]
      /\ rows'[Len(rows) + 1].side = call.side
  BY <1>2, <1>4
<1>6. /\ NetOpen' = NetOpen + Sign(call.side) /\ NetOpen # Sign(call.side)
      /\ IsEven(Len(rows) + 1) => rows[Len(rows)].side = Other(call.side)
  <2>1. CASE call.closing
    <3>1. isOpen[Other(call.side)] /\ isOpen' = [isOpen EXCEPT ![Other(call.side)] = FALSE]
      BY <1>1, <1>3, <2>1, PaperEffect DEF ClosesOpen, Position
    <3>2. NetOpen' = NetOpen + Sign(call.side) /\ NetOpen # Sign(call.side)
      BY <1>4, <3>1, CloseMovesNet
    <3>3. NetOpen = Sign(Other(call.side))
      BY <1>3, <1>4, <3>1 DEF OneSided, OneFlag, NetOpen, Sign, Other, Side
    <3>4. LastSignal(rows).side = Other(call.side)
      <4>1. ~IsEven(Len(rows))
        BY <1>3, <1>4, <3>3, SignTyped DEF Managed, LedgerPosition
      <4>2. rows # << >>
        BY <4>1 DEF IsEven
      <4>3. LastSignal(rows).side \in Side
        BY <1>4, <4>2, LastTyped DEF Signal
      <4>4. Sign(LastSignal(rows).side) = Sign(Other(call.side))
        BY <1>3, <3>3, <4>1 DEF Managed, LedgerPosition
      <4> QED
        BY <1>4, <4>3, <4>4 DEF Sign, Other, Side
    <3> QED
      BY <3>2, <3>4 DEF LastSignal
  <2>2. CASE ~call.closing
    <3>1. IsEven(Len(rows))
      BY <1>3, <2>2 DEF OneSided, OpensFlat, InOrder
    <3>2. ~isOpen[call.side]
      BY <1>3, <1>4, <3>1, EvenIsFlat DEF OneSided, Side
    <3>3. isOpen' = [isOpen EXCEPT ![call.side] = TRUE]
      BY <1>1, <2>2, PaperEffect DEF Position
    <3>4. NetOpen' = NetOpen + Sign(call.side) /\ NetOpen # Sign(call.side)
      BY <1>4, <3>2, <3>3, OpenMovesNet
    <3> QED
      BY <1>5, <3>1, <3>4, ParityStep
  <2> QED
    BY <1>4, <2>1, <2>2
<1>7. Managed'
  <2>1. LedgerPosition(rows') = LedgerPosition(rows) + Sign(call.side)
    BY <1>2, <1>3, <1>4, <1>6, LedgerFacts DEF Managed
  <2> QED
    BY <1>3, <1>6, <2>1 DEF Managed
<1>8. Alternating'
  <2> SUFFICES ASSUME NEW k \in 1 .. Len(rows) + 1, IsEven(k)
               PROVE  rows'[k].side = Other(rows'[k - 1].side)
    BY <1>5 DEF Alternating
  <2>1. k # 1
    BY DEF IsEven
  <2>2. k - 1 \in 1 .. Len(rows)
    BY <1>5, <2>1
  <2>3. CASE k = Len(rows) + 1
    <3>1. rows'[k - 1] = rows[Len(rows)] /\ rows'[k].side = call.side
      BY <1>5, <2>2, <2>3
    <3> QED
      BY <1>4, <1>6, <2>3, <3>1 DEF Other, Side
  <2>4. CASE k # Len(rows) + 1
    <3>1. k \in 1 .. Len(rows) /\ rows'[k] = rows[k] /\ rows'[k - 1] = rows[k - 1]
      BY <1>5, <2>2, <2>4
    <3> QED
      BY <1>3, <3>1 DEF Alternating
  <2> QED
    BY <2>3, <2>4
<1>9. ClosesOpen'
  BY <1>1, PaperOrderTypes DEF ClosesOpen
<1> QED
  BY <1>7, <1>8, <1>9 DEF PaperFits

-----------------------------------------------------------------------------
(* The other steps.                                                        *)

PaperLoopStep ==
    Begin \/ Skip \/ Load \/ Loop \/ Tick \/ Restart \/ Horizon \/ UNCHANGED vars

LEMMA QuietFits ==
    ASSUME PaperFits, UNCHANGED <<rows, isOpen>>, ClosesOpen', Idled => Idled'
    PROVE  PaperFits'
<1>1. Alternating'
  BY DEF PaperFits, Alternating
<1>2. Managed => Managed'
  BY DEF Managed, NetOpen, LedgerPosition
<1> QED
  BY <1>1, <1>2 DEF PaperFits

(* A branch closes only what is open, and does nothing when idled.         *)
LEMMA BranchFits ==
    ASSUME TypeOK, PaperFits,
           NEW stage \in {"openShort", "openLong", "closeShort", "closeLong"},
           NEW p \in Side, NEW closing \in BOOLEAN, NEW wanted \in BOOLEAN,
           Branch(stage, p, closing, wanted),
           ~closing => stage \in {"openShort", "openLong"},
           closing => (wanted => isOpen[p])
    PROVE  PaperFits'
<1>1. pc = stage /\ UNCHANGED <<rows, isOpen, isNoPosition, crashes>>
  BY DEF Branch, failures
<1>2. Idled => closing /\ ~wanted
  BY <1>1 DEF Idled, Off
<1>3. CASE ~wanted
  <2>1. NextBranch(p, closing) /\ UNCHANGED reOpen
    BY <1>3 DEF Branch
  <2>2. /\ pc' \in {"iterate", "idle", "openLong", "closeShort", "closeLong"}
        /\ closing => pc' \in {"iterate", "idle", "closeLong"}
    BY <2>1, NextIterationPc DEF NextBranch, AfterOpening
  <2>3. Idled => Idled'
    BY <1>1, <1>2, <2>1, <2>2 DEF Idled
  <2> QED
    BY <1>1, <2>2, <2>3, QuietFits DEF ClosesOpen
<1>4. CASE wanted
  <2> DEFINE side == IF closing THEN Other(p) ELSE p
  <2>1. Enter(side, closing)
    BY <1>4 DEF Branch
  <2>2. closing => isOpen[Other(side)]
    BY <1>4 DEF Other, Side
  <2> HIDE DEF side
  <2>3. \/ NextIteration
        \/ pc' = "quote" /\ call' = [NoCall EXCEPT !.side = side, !.closing = closing]
    BY <2>1 DEF Enter
  <2>4. ClosesOpen'
    BY <1>1, <2>2, <2>3, NextIterationPc DEF ClosesOpen, NoCall
  <2> QED
    BY <1>1, <1>2, <1>4, <2>4, QuietFits
<1> QED
  BY <1>3, <1>4

LEMMA LoopFits ==
    ASSUME PaperInv, PaperLoopStep, faults = 0, faults' = 0
    PROVE  PaperFits'
<1>1. TypeOK /\ PaperFits
  BY DEF PaperInv
<1>2. CASE Begin \/ Skip \/ Load \/ Iterate
  <2>1. UNCHANGED <<rows, isOpen, reOpen, crashes>> /\ pc' # "quote"
    BY <1>2 DEF Begin, Skip, Load, Iterate, flags, failures
  <2>2. Idled => Idled'
    <3> SUFFICES ASSUME Idled PROVE Idled'
      OBVIOUS
    <3>1. ~AnyReOpen
      BY DEF Idled, AnyReOpen, Off
    <3>2. CASE Begin
      <4>1. isNoPosition' = FALSE /\ pc' = "begun"
        BY <1>2, <3>2 DEF Begin, Fault, Idled
      <4> QED
        BY <2>1, <4>1 DEF Idled
    <3>3. CASE Skip \/ Load
      <4>1. /\ pc = "begun" /\ pc' \in {"idle", "iterate"}
            /\ isNoPosition' = isNoPosition
        BY <3>3 DEF Skip, Load
      <4> QED
        BY <2>1, <4>1 DEF Idled
    <3>4. CASE Iterate
      <4>1. pc' = "closeShort" /\ UNCHANGED isNoPosition /\ ~isNoPosition
        BY <3>1, <3>4 DEF Iterate, GateOpen, Idled
      <4> QED
        BY <2>1, <4>1 DEF Idled
    <3> QED
      BY <1>2, <3>2, <3>3, <3>4
  <2> QED
    BY <1>1, <2>1, <2>2, QuietFits DEF ClosesOpen
<1>3. CASE OpenShort \/ OpenLong \/ CloseShort \/ CloseLong
  <2>1. \A p \in Side : /\ WantsOpen(p) \in BOOLEAN /\ WantsClose(p) \in BOOLEAN
                        /\ WantsClose(p) => isOpen[p]
    BY DEF WantsOpen, WantsClose
  <2> QED
    BY <1>1, <1>3, <2>1, BranchFits
    DEF OpenShort, OpenLong, CloseShort, CloseLong, Side
<1>4. CASE Restart
  <2>1. /\ pc' = "idle" /\ UNCHANGED rows /\ isOpen' = Off /\ reOpen' = Off
        /\ crashes' # 0
    BY <1>1, <1>4 DEF Restart, TypeOK
  <2>2. (Managed \/ Idled)'
    <3>1. CASE IsEven(Len(rows))
      BY <2>1, <3>1 DEF Managed, NetOpen, LedgerPosition, Off, Side
    <3>2. CASE ~IsEven(Len(rows))
      BY <2>1, <3>2 DEF Idled
    <3> QED
      BY <3>1, <3>2
  <2> QED
    BY <1>1, <2>1, <2>2 DEF PaperFits, Alternating, ClosesOpen
<1>5. CASE Tick \/ Horizon \/ UNCHANGED vars
  <2>1. UNCHANGED <<rows, isOpen, reOpen, isNoPosition, pc, call, crashes>>
    BY <1>5 DEF Tick, Horizon, vars, flags, failures
  <2> QED
    BY <1>1, <2>1, QuietFits DEF PaperFits, ClosesOpen, Idled
<1> QED
  BY <1>2, <1>3, <1>4, <1>5 DEF PaperLoopStep, Loop

(* One side at a time, as in Trade; here no order ever arms a reopening.   *)
LEMMA LoopSingle ==
    ASSUME PaperInv, PaperLoopStep
    PROVE  SingleInv'
<1>1. TypeOK /\ RowsInv /\ SingleInv /\ reOpen = Off /\ [Next]_vars
  BY DEF PaperInv, SingleInv, PaperLoopStep, Next, InTrade
<1>2. reOpen' = Off
  <2>1. \A s \in Side : Keeps(s) = FALSE
    BY <1>1 DEF Keeps, Off
  <2>2. \A s \in Side : [reOpen EXCEPT ![s] = FALSE] = Off
    BY <1>1 DEF Off, Side
  <2>3. CASE OpenShort \/ OpenLong \/ CloseShort \/ CloseLong
    <3>1. PICK s \in Side : \/ UNCHANGED reOpen
                            \/ reOpen' = [reOpen EXCEPT ![s] = Keeps(s)]
      BY <2>3 DEF OpenShort, OpenLong, CloseShort, CloseLong, Branch, Enter, Side, Other
    <3> QED
      BY <1>1, <2>1, <2>2, <3>1
  <2>4. CASE Begin \/ Skip \/ Load \/ Iterate \/ Tick \/ Restart \/ Horizon
             \/ UNCHANGED vars
    BY <1>1, <2>4 DEF Begin, Skip, Load, Iterate, Tick, Restart, Horizon, flags, vars
  <2> QED
    BY <2>3, <2>4 DEF PaperLoopStep, Loop
<1>3. ASSUME faults' = 0
      PROVE  OneSided'
  <2>1. faults = 0
    BY <1>1, <1>3, FaultsGrow
  <2>2. CASE Begin \/ Skip \/ Load \/ Iterate
    BY <1>1, <1>3, <2>1, <2>2, HeadOneSided
  <2>3. CASE OpenShort \/ OpenLong \/ CloseShort \/ CloseLong
    <3>1. \A p \in Side : WantsOpen(p) \in BOOLEAN /\ WantsClose(p) \in BOOLEAN
      BY DEF WantsOpen, WantsClose
    <3> QED
      BY <1>1, <2>1, <2>3, <3>1, BranchOneSided
      DEF OpenShort, OpenLong, CloseShort, CloseLong, Side
  <2>4. CASE Tick \/ Horizon \/ UNCHANGED vars
    BY <1>1, <2>1, <2>4, OrderOneSided
  <2>5. CASE Restart
    BY <2>5, RestartOneSided
  <2> QED
    BY <2>2, <2>3, <2>4, <2>5 DEF PaperLoopStep, Loop
<1> QED
  BY <1>2, <1>3 DEF SingleInv

LEMMA PaperStep ==
    ASSUME PaperInv, [PaperNext]_vars
    PROVE  PaperInv'
<1>1. TypeOK /\ SignalsInPast /\ RowsInv /\ pc \notin {"send", "wait"}
  BY DEF PaperInv
<1>2. CASE PaperOrder
  <2>1. ASSUME faults' = 0
        PROVE  PaperFits'
    BY <1>2, <2>1, PaperOrderFits
  <2> QED
    BY <1>1, <1>2, <2>1, PaperOrderTypes, PaperOrderRows, PaperOrderSingle,
       PaperOrderNone DEF PaperInv
<1>3. CASE PaperLoopStep
  <2>1. [Next]_vars
    BY <1>3 DEF PaperLoopStep, Next, InTrade
  <2>2. TypeOK' /\ SignalsInPast' /\ RowsInv'
    BY <1>1, <2>1, TypeStep, PastStep, RowsStep
  <2>3. pc' \notin {"send", "wait"}
    BY <1>1, <1>3, NextIterationPc
    DEF PaperLoopStep, Begin, Skip, Load, Loop, Iterate, OpenShort, OpenLong,
        CloseShort, CloseLong, Branch, Enter, NextBranch, AfterOpening, Tick,
        Restart, Horizon, vars
  <2>4. faults' = 0 => faults = 0
    BY <1>1, <2>1, FaultsGrow
  <2>5. rows' = rows
    BY <1>3 DEF PaperLoopStep, Begin, Skip, Load, Loop, Iterate, OpenShort, OpenLong,
        CloseShort, CloseLong, Branch, Tick, Restart, Horizon, vars, environment
  <2>6. NoneReOpens'
    BY <2>5 DEF PaperInv, NoneReOpens
  <2> QED
    BY <1>3, <2>2, <2>3, <2>4, <2>6, LoopFits, LoopSingle DEF PaperInv
<1> QED
  BY <1>2, <1>3 DEF PaperNext, PaperInTrade, PaperLoopStep

LEMMA PaperInit == Init => PaperInv
<1> SUFFICES ASSUME Init PROVE PaperInv
  OBVIOUS
<1>1. IInv
  BY LedgerInit
<1>2. TypeOK /\ SignalsInPast /\ RowsInv
  BY <1>1, RowsInit DEF IInv
<1>3. SingleInv
  BY DEF Init, SingleInv, OneSided, OneFlag, FlatMeansEven, OpensFlat, InOrder,
     LevelsInOrder, Off, Side
<1>4. Alternating /\ ClosesOpen /\ NoneReOpens /\ pc = "idle"
  BY DEF Init, Alternating, ClosesOpen, NoneReOpens
<1>5. Managed
  BY DEF Init, Managed, NetOpen, LedgerPosition, IsEven, Off, Side
<1> QED
  BY <1>2, <1>3, <1>4, <1>5 DEF PaperInv, PaperFits

(* The table of BackTest mode is a list of round trips until a failure, over
   restarts; even after one a trade is recorded no earlier than a candle that
   starts at or after the trade before it. Of Continue nothing is assumed:
   without an order that waits, no reopen flag is ever armed. *)
THEOREM PaperTheorem == PaperSpec => []PaperRoundTrips
<1>1. PaperInv /\ [PaperNext]_vars => PaperInv'
  BY PaperStep
<1>2. PaperInv => PaperRoundTrips
  <2> SUFFICES ASSUME PaperInv PROVE PaperRoundTrips
    OBVIOUS
  <2>1. \A k \in 1 .. Len(rows) - 1 : rows[k].time <= CandleStart(rows[k + 1].time)
    <3> SUFFICES ASSUME NEW k \in 1 .. Len(rows) - 1
                 PROVE  rows[k].time <= CandleStart(rows[k + 1].time)
      OBVIOUS
    <3>1. rows \in Seq(Signal) /\ k \in 1 .. Len(rows) /\ k + 1 \in 1 .. Len(rows)
      BY DEF PaperInv, TypeOK
    <3>2. rows[k].time \in Int /\ rows[k + 1].time \in Int
      <4>1. rows[k] \in Signal /\ rows[k + 1] \in Signal
        BY <3>1
      <4> QED
        BY <4>1 DEF Signal
    <3>3. CandleStart(rows[k + 1].time) \in Int
      BY <3>2, TimeAssumption DEF CandleStart
    <3>4. ~(rows[k].time > CandleStart(rows[k + 1].time))
      BY <3>1 DEF PaperInv, NoneReOpens, RowsInv, SecondInCandleReOpens
    <3> QED
      BY <3>2, <3>3, <3>4
  <2>2. faults = 0 =>
          \A k \in 1 .. Len(rows) :
             IsEven(k) => rows[k].side = Other(rows[k - 1].side)
    BY DEF PaperInv, PaperFits, Alternating
  <2> QED
    BY <2>1, <2>2 DEF PaperRoundTrips
<1> QED
  BY <1>1, <1>2, PaperInit, PTL DEF PaperSpec

=============================================================================
