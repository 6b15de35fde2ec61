---------------------------- MODULE Trade_proofs ----------------------------
(***************************************************************************)
(* Theorems about Trade, for every value of its constants: its types, and  *)
(* that the table SIGNAL_EVENTS explains the position of the account, by   *)
(* IInv, with what follows from that, the refinement of RoundTrip among it.*)
(***************************************************************************)
EXTENDS Trade, TLAPS

-----------------------------------------------------------------------------
(* Facts about the operators of SignalEvents.                              *)

(* events.go CanBuy and CanSell: the two clauses about the side of the last
   signal cancel out. Both functions are the same gate, on time alone. *)
THEOREM GateIgnoresSide ==
    ASSUME NEW list \in Seq(Signal), NEW time \in Int, NEW flag \in BOOLEAN,
           NEW side \in Side
    PROVE  CanTrade(side, list, time, flag) <=>
              (list # << >> => flag \/ LastSignal(list).time <= time)
<1>1. CASE list = << >>
  BY <1>1 DEF CanTrade, CanBuy, CanSell
<1>2. CASE list # << >>
  <2>1. LastSignal(list) \in Signal
    BY <1>2 DEF LastSignal
  <2>2. LastSignal(list).side \in {"BUY", "SELL"}
    BY <2>1 DEF Signal, Side
  <2> QED
    BY <1>2, <2>2 DEF CanTrade, CanBuy, CanSell
<1> QED
  BY <1>1, <1>2

LEMMA ParityStep ==
    ASSUME NEW n \in Nat
    PROVE  IsEven(n + 1) <=> ~IsEven(n)
  BY DEF IsEven

(* Truncating a time never moves it forward.                               *)
LEMMA CandleStartBounds ==
    ASSUME NEW time \in Nat
    PROVE  CandleStart(time) \in Int /\ CandleStart(time) <= time
<1>1. time % Period \in 0 .. Period - 1
  BY TimeAssumption
<1> QED
  BY <1>1, TimeAssumption DEF CandleStart

-----------------------------------------------------------------------------
(* Typing.                                                                 *)

LEMMA NoLocalsTyped == NoCall \in CallLocals /\ NoTrade \in TradeLocals
  BY DEF CallLocals, TradeLocals, NoCall, NoTrade, NoSide, Side

(* One field of the locals at a time.                                      *)
LEMMA CallUpdates ==
    ASSUME call \in CallLocals, NEW n \in Nat, NEW m \in Nat
    PROVE  /\ [call EXCEPT !.oid = n] \in CallLocals
           /\ [call EXCEPT !.polls = n] \in CallLocals
           /\ [call EXCEPT !.held = n, !.size = m] \in CallLocals
           /\ [call EXCEPT !.oid = n].oid = n
           /\ [call EXCEPT !.polls = n].oid = call.oid
  BY DEF CallLocals

LEMMA NextIterationTypes ==
    ASSUME t \in TradeLocals, NextIteration
    PROVE  t' \in TradeLocals /\ call' \in CallLocals
           /\ pc' \in Stages /\ pc' # "wait"
<1>1. call' \in CallLocals
  BY NoLocalsTyped DEF NextIteration
<1>2. CASE t.i = 1
  BY <1>1, <1>2 DEF NextIteration, TradeLocals, Stages, NoSide
<1>3. CASE t.i # 1
  BY <1>1, <1>3, NoLocalsTyped DEF NextIteration, Stages
<1> QED
  BY <1>2, <1>3

LEMMA NextBranchTypes ==
    ASSUME t \in TradeLocals, NEW p \in Side, NEW closing \in BOOLEAN,
           NextBranch(p, closing)
    PROVE  t' \in TradeLocals /\ call' \in CallLocals
           /\ pc' \in Stages /\ pc' # "wait"
<1>1. CASE closing /\ p = "BUY"
  BY <1>1, NextIterationTypes DEF NextBranch
<1>2. CASE ~(closing /\ p = "BUY")
  BY <1>2, NoLocalsTyped DEF NextBranch, AfterOpening, Stages
<1> QED
  BY <1>1, <1>2

(* What the actions that only move the locals leave to show.               *)
LEMMA OrderTyped ==
    ASSUME call \in CallLocals, book \in Seq(Order)
    PROVE  /\ Accepted \in Seq(Order)
           /\ Len(Accepted) = Len(book) + 1
           /\ \A o \in 1 .. Len(book) : Accepted[o] = book[o]
           /\ Accepted[Len(book) + 1]
                = [side |-> call.side, size |-> call.size, state |-> "ACTIVE"]
<1> DEFINE order == [side |-> call.side, size |-> call.size, state |-> "ACTIVE"]
<1>1. order \in Order
  BY DEF Order, OrderState, CallLocals
<1> HIDE DEF order
<1>2. /\ Append(book, order) \in Seq(Order)
      /\ Len(Append(book, order)) = Len(book) + 1
      /\ \A o \in 1 .. Len(book) : Append(book, order)[o] = book[o]
      /\ Append(book, order)[Len(book) + 1] = order
  BY <1>1
<1> QED
  BY <1>2 DEF order, Accepted

LEMMA SettledTyped ==
    ASSUME TypeOK
    PROVE  Settled \in BOOLEAN
  BY DEF Settled

LEMMA SignTyped == \A side \in Side : Sign(side) \in {-1, 1} /\ Other(side) \in Side
  BY DEF Sign, Side, Other

LEMMA NewSignalTyped ==
    ASSUME TypeOK
    PROVE  NewSignal \in Signal
  BY DEF TypeOK, NewSignal, Signal, CallLocals

LEMMA GiveUpTypes ==
    ASSUME TypeOK, GiveUp, now' \in Nat, faults' \in Nat
    PROVE  TypeOK'
<1>1. /\ t' \in TradeLocals /\ call' \in CallLocals
      /\ pc' \in Stages /\ pc' # "wait"
  BY NextIterationTypes DEF GiveUp, TypeOK
<1>2. reOpen' \in [Side -> BOOLEAN]
  BY SettledTyped DEF GiveUp, TypeOK
<1> QED
  BY <1>1, <1>2 DEF GiveUp, TypeOK, memory

LEMMA BranchTypes ==
    ASSUME TypeOK, NEW stage, NEW p \in Side, NEW closing \in BOOLEAN,
           NEW wanted \in BOOLEAN, Branch(stage, p, closing, wanted)
    PROVE  TypeOK'
<1> DEFINE side == IF closing THEN Other(p) ELSE p
<1> DEFINE Goal == /\ t' \in TradeLocals /\ call' \in CallLocals
                   /\ pc' \in Stages /\ pc' # "wait"
                   /\ reOpen' \in [Side -> BOOLEAN]
<1>1. ASSUME ~wanted PROVE Goal
  <2>1. NextBranch(p, closing) /\ UNCHANGED reOpen
    BY <1>1 DEF Branch
  <2> QED
    BY <2>1, NextBranchTypes DEF TypeOK
<1>2. ASSUME wanted PROVE Goal
  <2>1. Enter(side, closing)
    BY <1>2 DEF Branch
  <2>2. side \in Side
    BY SignTyped
  <2> HIDE DEF side
  <2>3. CASE startTrade > CandleTime
    BY <2>1, <2>3, NextIterationTypes DEF Enter, TypeOK
  <2>4. CASE ~(startTrade > CandleTime)
    <3>1. reOpen' = [reOpen EXCEPT ![side] = Keeps(side)]
      BY <2>1, <2>4 DEF Enter
    <3>2. reOpen' \in [Side -> BOOLEAN]
      BY <3>1, <2>2 DEF TypeOK, Keeps
    <3>3. CASE CanTrade(side, signals, CandleTime, Keeps(side))
      <4>1. /\ pc' = "quote" /\ UNCHANGED t
            /\ call' = [NoCall EXCEPT !.side = side, !.closing = closing]
        BY <2>1, <2>4, <3>3 DEF Enter
      <4>2. call' \in CallLocals
        BY <4>1, <2>2 DEF CallLocals, NoCall
      <4> QED
        BY <3>2, <4>1, <4>2 DEF TypeOK, Stages
    <3>4. CASE ~CanTrade(side, signals, CandleTime, Keeps(side))
      BY <2>1, <2>4, <3>2, <3>4, NextIterationTypes DEF Enter, TypeOK
    <3> QED
      BY <3>3, <3>4
  <2> QED
    BY <2>3, <2>4
<1>3. Goal
  BY <1>1, <1>2
<1> QED
  BY <1>3 DEF TypeOK, Branch, environment, memory, failures

LEMMA RestartTypes ==
    ASSUME TypeOK, Restart
    PROVE  TypeOK'
<1>1. LoadLast(rows) \in Seq(Signal)
  BY DEF TypeOK, LoadLast, LastSignal
<1>2. faults' \in Nat /\ crashes' \in Nat
  BY DEF TypeOK, Restart, Fault
<1>3. /\ reOpen' \in [Side -> BOOLEAN] /\ isOpen' \in [Side -> BOOLEAN]
      /\ isProfit' \in [Side -> BOOLEAN]
  BY DEF Restart, Off
<1>4. pc' = "idle" /\ t' \in TradeLocals /\ call' \in CallLocals
  BY NoLocalsTyped DEF Restart
<1>5. /\ signals' \in Seq(Signal) /\ startTrade' \in Nat
      /\ profit' \in Int /\ stopLimit' \in Int
  BY <1>1 DEF TypeOK, Restart
<1>7. isStopLimit' \in BOOLEAN /\ isNoPosition' \in BOOLEAN
  BY Zenon DEF Restart
<1>6. UNCHANGED <<now, pos, book, rows>>
  BY DEF Restart, environment
<1> QED
  BY <1>2, <1>3, <1>4, <1>5, <1>6, <1>7 DEF TypeOK, Stages

LEMMA CompletedTypes ==
    ASSUME TypeOK, PollCompleted
    PROVE  TypeOK'
<1>1. now' \in Nat
  BY DEF PollCompleted, TypeOK
<1>2. CASE ~Recordable
  BY <1>1, <1>2, GiveUpTypes DEF PollCompleted, TypeOK
<1>3. CASE Recordable
  <2>1. /\ signals' \in Seq(Signal) /\ rows' \in Seq(Signal) /\ faults' \in Nat
    <3>1. RecordSignal
      BY <1>3 DEF PollCompleted
    <3>2. /\ Append(signals, NewSignal) \in Seq(Signal)
          /\ Append(rows, NewSignal) \in Seq(Signal)
      BY NewSignalTyped DEF TypeOK
    <3>3. faults \in Nat /\ rows \in Seq(Signal)
      BY DEF TypeOK
    <3>4. signals' = Append(signals, NewSignal)
      BY <3>1 DEF RecordSignal
    <3>5. /\ rows' = Append(rows, NewSignal) \/ rows' = rows
          /\ faults' = faults \/ faults' = faults + 1
      BY <3>1 DEF RecordSignal, Fault
    <3>6. signals' \in Seq(Signal)
      BY <3>2, <3>4
    <3>7. rows' \in Seq(Signal)
      BY <3>2, <3>3, <3>5
    <3>8. faults' \in Nat
      BY <3>3, <3>5
    <3> QED
      BY <3>6, <3>7, <3>8
  <2>2. call.side \in Side /\ Other(call.side) \in Side
    BY SignTyped DEF TypeOK, CallLocals
  <2> DEFINE Goal == /\ isProfit' \in [Side -> BOOLEAN]
                     /\ isOpen' \in [Side -> BOOLEAN]
                     /\ reOpen' \in [Side -> BOOLEAN]
                     /\ isStopLimit' \in BOOLEAN
                     /\ profit' \in Int /\ stopLimit' \in Int
                     /\ t' \in TradeLocals /\ call' \in CallLocals
                     /\ pc' \in Stages /\ pc' # "wait"
  <2>3. ASSUME call.closing PROVE Goal
    <3>1. FinishClosing(Other(call.side))
      BY <1>3, <2>3 DEF PollCompleted
    <3>2. NextBranch(Other(call.side), TRUE)
      BY <3>1 DEF FinishClosing
    <3>4. t' \in TradeLocals /\ call' \in CallLocals /\ pc' \in Stages /\ pc' # "wait"
      BY <2>2, <3>2, NextBranchTypes DEF TypeOK
    <3>3. isStopLimit' \in BOOLEAN
      BY <3>1, Zenon DEF FinishClosing
    <3>5. profit' \in Int /\ stopLimit' \in Int
      BY <3>1 DEF FinishClosing
    <3>6. isProfit' \in [Side -> BOOLEAN]
      BY <2>2, <3>1 DEF FinishClosing, TypeOK
    <3>7. isOpen' \in [Side -> BOOLEAN] /\ reOpen' \in [Side -> BOOLEAN]
      BY <2>2, <3>1, SettledTyped DEF FinishClosing, TypeOK
    <3> QED
      BY <3>3, <3>4, <3>5, <3>6, <3>7
  <2>4. ASSUME ~call.closing PROVE Goal
    <3>1. FinishOpening(call.side)
      BY <1>3, <2>4 DEF PollCompleted
    <3>2. NextBranch(call.side, FALSE)
      BY <3>1 DEF FinishOpening
    <3>3. t' \in TradeLocals /\ call' \in CallLocals /\ pc' \in Stages /\ pc' # "wait"
      BY <2>2, <3>2, NextBranchTypes DEF TypeOK
    <3>4. profit' \in Int /\ stopLimit' \in Int
      <4>1. PICK paid \in Prices, band \in Bands :
               /\ profit' = ProfitLevel(call.side, paid, band)
               /\ stopLimit' = StopLevel(call.side, paid)
        BY <3>1 DEF FinishOpening
      <4> QED
        BY <4>1, PriceAssumption, GapAssumption DEF ProfitLevel, StopLevel
    <3>5. /\ isStopLimit' \in BOOLEAN /\ isProfit' \in [Side -> BOOLEAN]
          /\ isOpen' \in [Side -> BOOLEAN] /\ reOpen' \in [Side -> BOOLEAN]
      BY <2>2, <3>1 DEF FinishOpening, TypeOK
    <3> QED
      BY <3>3, <3>4, <3>5
  <2>5. call.closing \in BOOLEAN
    BY DEF TypeOK, CallLocals
  <2> HIDE DEF Goal
  <2>6. Goal
    BY <2>3, <2>4
  <2>7. UNCHANGED <<pos, book, startTrade, isNoPosition, crashes>>
    BY <1>3 DEF PollCompleted
  <2> QED
    BY <1>1, <2>1, <2>6, <2>7 DEF TypeOK, Goal
<1> QED
  BY <1>2, <1>3

LEMMA OrderingTypes ==
    ASSUME TypeOK, Ordering
    PROVE  TypeOK'
<1>1. CASE QuoteFails \/ SendRejected
  <2>1. NotOrdered
    BY <1>1 DEF QuoteFails, SendRejected
  <2>2. /\ t' \in TradeLocals /\ call' \in CallLocals
        /\ pc' \in Stages /\ pc' # "wait"
    BY <2>1, NextIterationTypes DEF NotOrdered, TypeOK
  <2> QED
    BY <2>1, <2>2 DEF NotOrdered, TypeOK, environment, memory, flags, failures
<1>2. CASE Quote
  <2>1. PICK held \in {0, HeldSize} :
           /\ IF held = HeldSize THEN UNCHANGED faults ELSE Fault
           /\ call' = [call EXCEPT !.held = held,
                                   !.size = IF held > 0 THEN held ELSE 1]
    BY <1>2 DEF Quote
  <2>2. held \in Nat /\ (IF held > 0 THEN held ELSE 1) \in Nat
    BY DEF HeldSize, TypeOK
  <2>3. call' \in CallLocals
    BY <2>1, <2>2, CallUpdates DEF TypeOK
  <2>4. faults' \in Nat
    BY <2>1 DEF Fault, TypeOK
  <2> QED
    BY <1>2, <2>3, <2>4 DEF Quote, TypeOK, Stages, environment, memory, flags
<1>3. CASE SendAccepted
  <2>1. /\ book' = Accepted /\ call' = [call EXCEPT !.oid = Len(book) + 1]
        /\ pc' = "wait"
    BY <1>3 DEF SendAccepted
  <2>2. book' \in Seq(Order) /\ Len(book') = Len(book) + 1 /\ Len(book) \in Nat
    BY <2>1, OrderTyped DEF TypeOK
  <2>3. call' \in CallLocals /\ call'.oid = Len(book) + 1
    <3>1. call \in CallLocals /\ Len(book) + 1 \in Nat
      BY <2>2 DEF TypeOK
    <3> QED
      BY <2>1, <3>1, CallUpdates
  <2> QED
    BY <1>3, <2>1, <2>2, <2>3 DEF SendAccepted, TypeOK, Stages, memory, flags, failures
<1>4. CASE SendReplyLost
  <2>1. book' \in Seq(Order)
    BY <1>4, OrderTyped DEF SendReplyLost, TypeOK
  <2>2. /\ t' \in TradeLocals /\ call' \in CallLocals
        /\ pc' \in Stages /\ pc' # "wait"
    BY <1>4, NextIterationTypes DEF SendReplyLost, TypeOK
  <2> QED
    BY <1>4, <2>1, <2>2 DEF SendReplyLost, Fault, TypeOK, memory, flags
<1> QED
  BY <1>1, <1>2, <1>3, <1>4 DEF Ordering

LEMMA WaitingTypes ==
    ASSUME TypeOK, Waiting
    PROVE  TypeOK'
<1>1. CASE Expire
  BY <1>1, GiveUpTypes DEF Expire, TypeOK
<1>2. CASE PollFails
  BY <1>2, GiveUpTypes DEF PollFails, Fault, TypeOK
<1>3. CASE PollPending
  <2>1. call' = [call EXCEPT !.polls = @ + 1]
    BY <1>3 DEF PollPending
  <2>2. call' \in CallLocals /\ call'.oid = call.oid
    <3>1. call \in CallLocals /\ call.polls + 1 \in Nat
      BY DEF TypeOK, CallLocals
    <3> QED
      BY <2>1, <3>1, CallUpdates
  <2>3. faults' \in Nat /\ now' \in Nat
    BY <1>3 DEF PollPending, Overtime, TypeOK
  <2> QED
    BY <1>3, <2>2, <2>3 DEF PollPending, TypeOK, memory, flags
<1>4. CASE PollCompleted
  BY <1>4, CompletedTypes
<1> QED
  BY <1>1, <1>2, <1>3, <1>4 DEF Waiting

LEMMA ExchangeTypes ==
    ASSUME TypeOK, Exchange
    PROVE  TypeOK'
<1>1. PICK o \in 1 .. Len(book) : Fill(o) \/ Cancel(o)
  BY DEF Exchange
<1>2. book[o] \in Order /\ Len(book) \in Nat
  BY DEF TypeOK
<1>3. ASSUME NEW state \in OrderState
      PROVE  /\ [book EXCEPT ![o].state = state] \in Seq(Order)
             /\ Len([book EXCEPT ![o].state = state]) = Len(book)
  <2>1. [book[o] EXCEPT !.state = state] \in Order
    BY <1>2 DEF Order
  <2> QED
    BY <2>1 DEF TypeOK
<1>4. book' \in Seq(Order) /\ Len(book') = Len(book)
  BY <1>1, <1>3 DEF Fill, Cancel, OrderState
<1>5. pos' \in Int
  <2>1. Sign(book[o].side) \in {-1, 1} /\ book[o].size \in Nat
    BY <1>2, SignTyped DEF Order
  <2> QED
    BY <1>1, <2>1 DEF Fill, Cancel, TypeOK
<1> QED
  BY <1>1, <1>4, <1>5 DEF Fill, Cancel, TypeOK, memory, flags, failures

LEMMA BeginTypes ==
    ASSUME TypeOK, Begin \/ Skip \/ Tick
    PROVE  TypeOK'
<1>1. CASE Begin
  <2>1. isNoPosition' \in BOOLEAN
    BY <1>1, Zenon DEF Begin, IsEven
  <2>2. faults' \in Nat
    BY <1>1 DEF Begin, Fault, TypeOK
  <2> QED
    BY <1>1, <2>1, <2>2 DEF Begin, TypeOK, Stages, environment, memory, flags
<1>2. CASE Skip
  BY <1>2 DEF Skip, TypeOK, Stages, environment, memory, flags, failures
<1>3. CASE Tick
  BY <1>3 DEF Tick, TypeOK, memory, flags, failures
<1> QED
  BY <1>1, <1>2, <1>3

LEMMA LoopTypes ==
    ASSUME TypeOK, Load \/ Loop
    PROVE  TypeOK'
<1>1. CASE Load
  <2>1. PICK price \in Prices, age \in {0, Period} :
           t' = [NoTrade EXCEPT !.price = price, !.last = CandleStart(now) - age]
    BY <1>1 DEF Load
  <2>2. price \in Int /\ CandleStart(now) - age \in Int
    BY CandleStartBounds, PriceAssumption, TimeAssumption DEF TypeOK
  <2>3. t' \in TradeLocals
    BY <2>1, <2>2 DEF NoTrade, TradeLocals, NoSide
  <2> QED
    BY <1>1, <2>3 DEF Load, TypeOK, Stages, environment, memory, flags, failures
<1>2. CASE Iterate
  <2>1. PICK cross \in Side \union {NoSide} :
           t' = [t EXCEPT !.cross = cross, !.point = Point(cross)]
    BY <1>2 DEF Iterate
  <2>2. Point(cross) \in Side \union {NoSide}
    BY DEF Point
  <2>3. t \in TradeLocals
    BY DEF TypeOK
  <2>4. t' \in TradeLocals
    BY <2>1, <2>2, <2>3 DEF TradeLocals
  <2>5. pc' \in {"openShort", "closeShort"}
    BY <1>2 DEF Iterate
  <2> QED
    BY <1>2, <2>4, <2>5
    DEF Iterate, TypeOK, Stages, environment, memory, flags, failures
<1>3. CASE OpenShort \/ OpenLong \/ CloseShort \/ CloseLong
  <2>1. \A p \in Side : WantsOpen(p) \in BOOLEAN /\ WantsClose(p) \in BOOLEAN
    BY DEF WantsOpen, WantsClose
  <2> QED
    BY <1>3, <2>1, BranchTypes DEF OpenShort, OpenLong, CloseShort, CloseLong, Side
<1> QED
  BY <1>1, <1>2, <1>3 DEF Loop

LEMMA TypeStep ==
    ASSUME TypeOK, [Next]_vars
    PROVE  TypeOK'
<1>1. CASE Horizon \/ UNCHANGED vars
  <2>1. UNCHANGED vars
    BY <1>1 DEF Horizon
  <2> QED
    BY <2>1 DEF TypeOK, vars, environment, memory, flags, failures
<1> QED
  BY <1>1, BeginTypes, LoopTypes, OrderingTypes, WaitingTypes, ExchangeTypes,
     RestartTypes DEF Next, InTrade

LEMMA TypeInit == Init => TypeOK
<1> SUFFICES ASSUME Init PROVE TypeOK
  OBVIOUS
<1>1. /\ reOpen \in [Side -> BOOLEAN] /\ isOpen \in [Side -> BOOLEAN]
      /\ isProfit \in [Side -> BOOLEAN]
  BY DEF Init, Off
<1>2. isStopLimit \in BOOLEAN /\ isNoPosition \in BOOLEAN
  BY Zenon DEF Init
<1> QED
  BY <1>1, <1>2, NoLocalsTyped DEF Init, TypeOK, Stages

(* Every variable keeps its type, and the order waited for is in the book. *)
THEOREM TypeInvariant == Spec => []TypeOK
  BY TypeInit, TypeStep, PTL DEF Spec

-----------------------------------------------------------------------------
(* No signal lies in the future.                                           *)

LEMMA LoadLastKeepsLast ==
    ASSUME NEW list \in Seq(Signal)
    PROVE  /\ LoadLast(list) # << >> => list # << >>
           /\ list # << >> => LastSignal(LoadLast(list)) = LastSignal(list)
<1>1. CASE list = << >>
  BY <1>1 DEF LoadLast
<1>2. CASE list # << >>
  <2>1. LastSignal(<< LastSignal(list) >>) = LastSignal(list)
    BY DEF LastSignal
  <2> QED
    BY <1>2, <2>1 DEF LoadLast
<1> QED
  BY <1>1, <1>2

LEMMA LastOfAppend ==
    ASSUME NEW list \in Seq(Signal), NEW s \in Signal
    PROVE  /\ Append(list, s) # << >>
           /\ LastSignal(Append(list, s)) = s
           /\ Len(Append(list, s)) = Len(list) + 1
<1>1. /\ Append(list, s) \in Seq(Signal)
      /\ Len(Append(list, s)) = Len(list) + 1
      /\ Append(list, s)[Len(list) + 1] = s
  OBVIOUS
<1> QED
  BY <1>1 DEF LastSignal

LEMMA NotLater ==
    ASSUME NEW list \in Seq(Signal), list # << >>, NEW time \in Int,
           LastSignal(list).time <= time, NEW later,
           later = time \/ later = time + 1
    PROVE  LastSignal(list).time <= later
<1>1. LastSignal(list) \in Signal
  BY DEF LastSignal
<1>2. LastSignal(list).time \in Int
  BY <1>1 DEF Signal
<1> QED
  BY <1>2

(* A signal recorded now is no later than the clock.                       *)
LEMMA RecordPast ==
    ASSUME TypeOK, SignalsInPast, RecordSignal, now' = now + 1
    PROVE  SignalsInPast'
<1>1. /\ NewSignal \in Signal /\ NewSignal.time = now'
      /\ rows \in Seq(Signal) /\ signals \in Seq(Signal) /\ now \in Nat
  BY NewSignalTyped DEF NewSignal, TypeOK
<1>2. signals' # << >> /\ LastSignal(signals') = NewSignal
  BY <1>1, LastOfAppend DEF RecordSignal
<1>3. CASE rows' = Append(rows, NewSignal)
  <2>1. LastSignal(rows') = NewSignal
    BY <1>1, <1>3, LastOfAppend
  <2> QED
    BY <1>1, <1>2, <2>1 DEF SignalsInPast
<1>4. CASE rows' = rows
  <2>1. rows # << >> => LastSignal(rows).time <= now'
    BY <1>1, NotLater DEF SignalsInPast
  <2>2. rows' # << >> => LastSignal(rows').time <= now'
    BY <1>4, <2>1
  <2> QED
    BY <1>1, <1>2, <2>2 DEF SignalsInPast
<1> QED
  BY <1>3, <1>4 DEF RecordSignal

(* Time passes, and nothing is recorded.                                   *)
LEMMA QuietPast ==
    ASSUME TypeOK, SignalsInPast, UNCHANGED <<signals, rows>>,
           now' = now \/ now' = now + 1
    PROVE  SignalsInPast'
<1>1. signals \in Seq(Signal) /\ rows \in Seq(Signal) /\ now \in Int
  BY DEF TypeOK
<1>2. signals # << >> => LastSignal(signals).time <= now'
  BY <1>1, NotLater DEF SignalsInPast
<1>3. rows # << >> => LastSignal(rows).time <= now'
  BY <1>1, NotLater DEF SignalsInPast
<1> QED
  BY <1>2, <1>3 DEF SignalsInPast

LEMMA PastStep ==
    ASSUME TypeOK, SignalsInPast, [Next]_vars
    PROVE  SignalsInPast'
<1>1. ASSUME UNCHANGED <<signals, rows>>, now' = now \/ now' = now + 1
      PROVE  SignalsInPast'
  BY <1>1, QuietPast
<1>2. CASE PollCompleted /\ Recordable
  BY <1>2, RecordPast DEF PollCompleted
<1>3. CASE Restart
  <2>1. signals' = LoadLast(rows) /\ rows' = rows /\ now' = now
    BY <1>3 DEF Restart, environment
  <2>2. rows \in Seq(Signal)
    BY DEF TypeOK
  <2> QED
    BY <2>1, <2>2, LoadLastKeepsLast DEF SignalsInPast
<1>4. CASE PollCompleted /\ ~Recordable
  BY <1>1, <1>4 DEF PollCompleted, GiveUp, memory
<1>5. CASE Begin \/ Skip \/ Load \/ Tick
  BY <1>1, <1>5 DEF Begin, Skip, Load, Tick, environment, memory
<1>6. CASE Loop
  BY <1>1, <1>6 DEF Loop, Iterate, OpenShort, OpenLong, CloseShort, CloseLong,
     Branch, environment, memory
<1>7. CASE Ordering
  BY <1>1, <1>7 DEF Ordering, QuoteFails, Quote, SendRejected, SendAccepted,
     SendReplyLost, NotOrdered, environment, memory
<1>8. CASE Expire \/ PollFails \/ PollPending
  BY <1>1, <1>8 DEF Expire, PollFails, PollPending, GiveUp, memory
<1>9. CASE Exchange
  BY <1>1, <1>9 DEF Exchange, Fill, Cancel, memory
<1>10. CASE Horizon \/ UNCHANGED vars
  BY <1>1, <1>10 DEF Horizon, vars, environment, memory
<1> QED
  BY <1>2, <1>3, <1>4, <1>5, <1>6, <1>7, <1>8, <1>9, <1>10
  DEF Next, InTrade, Waiting

-----------------------------------------------------------------------------
(* The numbers.                                                            *)

LEMMA NetOpenFacts ==
    ASSUME isOpen \in [Side -> BOOLEAN], NEW side \in Side
    PROVE  /\ NetOpen \in {-1, 0, 1}
           /\ isOpen[Other(side)] \/ ~isOpen[side] => NetOpen # Sign(side)
           /\ NetOpen = -Sign(side) => ~isOpen[side]
  BY DEF NetOpen, Sign, Other, Side

LEMMA LedgerFacts ==
    ASSUME NEW list \in Seq(Signal), NEW s \in Signal,
           LedgerPosition(list) # Sign(s.side)
    PROVE  LedgerPosition(Append(list, s)) = LedgerPosition(list) + Sign(s.side)
<1>1. /\ LastSignal(Append(list, s)) = s
      /\ Len(Append(list, s)) = Len(list) + 1 /\ Len(list) \in Nat
  BY LastOfAppend
<1>2. Sign(s.side) \in {-1, 1}
  BY SignTyped DEF Signal
<1>3. CASE IsEven(Len(list))
  BY <1>1, <1>2, <1>3, ParityStep DEF LedgerPosition
<1>4. CASE ~IsEven(Len(list))
  <2>1. list # << >>
    BY <1>4 DEF IsEven
  <2>2. LastSignal(list) \in Signal
    BY <2>1 DEF LastSignal
  <2>3. Sign(LastSignal(list).side) \in {-1, 1}
    BY <2>2, SignTyped DEF Signal
  <2>4. LedgerPosition(list) = Sign(LastSignal(list).side)
    BY <1>4 DEF LedgerPosition
  <2>5. LedgerPosition(Append(list, s)) = 0
    BY <1>1, <1>4, ParityStep DEF LedgerPosition
  <2> QED
    BY <1>2, <2>3, <2>4, <2>5
<1> QED
  BY <1>3, <1>4

LEMMA LedgerTyped ==
    ASSUME NEW list \in Seq(Signal)
    PROVE  /\ LedgerPosition(list) \in {-1, 0, 1}
           /\ ~IsEven(Len(list)) => LedgerPosition(list) # 0
<1>1. CASE IsEven(Len(list))
  BY <1>1 DEF LedgerPosition
<1>2. CASE ~IsEven(Len(list))
  <2>1. list # << >>
    BY <1>2 DEF IsEven
  <2>2. LastSignal(list) \in Signal
    BY <2>1 DEF LastSignal
  <2>3. Sign(LastSignal(list).side) \in {-1, 1}
    BY <2>2, SignTyped DEF Signal
  <2> QED
    BY <1>2, <2>3 DEF LedgerPosition
<1> QED
  BY <1>1, <1>2

-----------------------------------------------------------------------------
(* Steps that leave account, table and flags alone, outside of a wait.     *)

LEMMA LocalStep ==
    ASSUME FaultFree, pc # "wait", pc' # "wait",
           UNCHANGED <<pos, book, rows, isOpen>>,
           ReOpensOther', OrderFits', Idled => Idled'
    PROVE  FaultFree'
<1>1. InFlight = 0 /\ InFlight' = 0
  BY DEF InFlight
<1>2. /\ LedgerPosition(rows)' = LedgerPosition(rows)
      /\ NetOpen' = NetOpen
  BY DEF LedgerPosition, NetOpen
<1>3. (pos = LedgerPosition(rows) + InFlight)'
  BY <1>1, <1>2 DEF FaultFree
<1>4. (Managed \/ Idled)'
  BY <1>2 DEF FaultFree, Managed
<1>5. BookFits'
  BY DEF FaultFree, BookFits
<1> QED
  BY <1>3, <1>4, <1>5 DEF FaultFree

LEMMA NextIterationPc ==
    ASSUME NextIteration
    PROVE  pc' \in {"iterate", "idle"}
  BY DEF NextIteration

LEMMA LoopHeadLedger ==
    ASSUME TypeOK, FaultFree, Begin \/ Skip \/ Load \/ Iterate,
           faults = 0, faults' = 0
    PROVE  FaultFree'
<1>1. CASE Begin
  <2>1. isNoPosition' = IsEven(Len(rows))
    BY <1>1 DEF Begin, Fault
  <2>2. Idled => Idled'
    BY <1>1, <2>1 DEF Begin, Idled, environment, flags
  <2> QED
    BY <1>1, <2>2, LocalStep
    DEF Begin, ReOpensOther, OrderFits, InOrder, environment, flags, FaultFree
<1>2. CASE Skip
  <2>1. Idled => Idled'
    BY <1>2 DEF Skip, Idled, environment, flags, failures
  <2> QED
    BY <1>2, <2>1, LocalStep
    DEF Skip, ReOpensOther, OrderFits, InOrder, environment, flags, FaultFree
<1>3. CASE Load
  <2>1. Idled => Idled'
    BY <1>3 DEF Load, Idled, environment, flags, failures
  <2> QED
    BY <1>3, <2>1, LocalStep
    DEF Load, ReOpensOther, OrderFits, InOrder, environment, flags, FaultFree
<1>4. CASE Iterate
  <2>1. PICK wide \in BOOLEAN :
           pc' = IF GateOpen(wide) THEN "openShort" ELSE "closeShort"
    BY <1>4 DEF Iterate
  <2>2. Idled => Idled'
    <3> SUFFICES ASSUME Idled PROVE Idled'
      OBVIOUS
    <3>1. ~AnyReOpen /\ ~isNoPosition
      BY <1>4 DEF Idled, AnyReOpen, Off, Iterate
    <3>2. ~GateOpen(wide)
      BY <3>1 DEF GateOpen
    <3> QED
      BY <1>4, <2>1, <3>2 DEF Iterate, Idled, environment, flags, failures
  <2>3. PICK cross \in Side \union {NoSide} :
           t' = [t EXCEPT !.cross = cross, !.point = Point(cross)]
    BY <1>4 DEF Iterate
  <2>4. t'.point = Point(cross)
    BY <2>3 DEF TypeOK, TradeLocals
  <2>5. \A s \in Side : t'.point = s => ~isOpen[s]
    BY <2>4 DEF Point, Side, NoSide
  <2>6. ReOpensOther'
    BY <1>4, <2>1, <2>5
    DEF Iterate, FaultFree, ReOpensOther, InOrder, flags, Side
  <2>7. pc \notin {"wait"} /\ pc' \notin {"quote", "send", "wait"}
    BY <1>4, <2>1 DEF Iterate
  <2> QED
    BY <1>4, <2>2, <2>6, <2>7, LocalStep
    DEF Iterate, OrderFits, InOrder, environment, flags
<1> QED
  BY <1>1, <1>2, <1>3, <1>4

(* A branch that orders only what fits the flags, and none when idled.     *)
LEMMA BranchLedger ==
    ASSUME TypeOK, FaultFree, NEW stage \in Stages \ {"idle", "wait"},
           NEW p \in Side, NEW closing \in BOOLEAN, NEW wanted \in BOOLEAN,
           Branch(stage, p, closing, wanted),
           wanted => IF closing THEN isOpen[p] ELSE ~isOpen[p],
           Idled => closing /\ ~wanted,
           ~closing => (t.point = "BUY" => ~isOpen["BUY"])
    PROVE  FaultFree'
<1>1. /\ pc = stage /\ UNCHANGED <<pos, book, rows, isOpen, isNoPosition, crashes>>
  BY DEF Branch, environment, failures
<1>2. ASSUME ~wanted
      PROVE  /\ pc' # "wait" /\ ReOpensOther' /\ OrderFits' /\ (Idled => Idled')
  <2>1. NextBranch(p, closing) /\ UNCHANGED reOpen
    BY <1>2 DEF Branch
  <2>2. /\ pc' \in {"iterate", "idle", "openLong", "closeShort", "closeLong"}
        /\ pc' = "openLong" => ~closing /\ UNCHANGED t
        /\ closing => pc' \in {"iterate", "idle", "closeLong"}
    BY <2>1, NextIterationPc DEF NextBranch, AfterOpening
  <2>3. ReOpensOther'
    BY <1>1, <2>1, <2>2 DEF FaultFree, ReOpensOther, InOrder
  <2>4. OrderFits'
    BY <2>2 DEF OrderFits, InOrder
  <2>5. Idled => Idled'
    BY <1>1, <2>1, <2>2 DEF Idled
  <2> QED
    BY <2>2, <2>3, <2>4, <2>5
<1>3. ASSUME wanted
      PROVE  /\ pc' # "wait" /\ ReOpensOther' /\ OrderFits' /\ (Idled => Idled')
  <2> DEFINE side == IF closing THEN Other(p) ELSE p
  <2>1. Enter(side, closing)
    BY <1>3 DEF Branch
  <2>2. /\ side \in Side
        /\ IF closing THEN isOpen[Other(side)] ELSE ~isOpen[side]
    BY <1>3 DEF Other, Side
  <2> HIDE DEF side
  <2>3. ~Idled
    BY <1>3
  <2>4. CASE NextIteration /\ \A s \in Side : reOpen'[s] => reOpen[s]
    <3>1. pc' \in {"iterate", "idle"}
      BY <2>4, NextIterationPc
    <3> QED
      BY <1>1, <2>3, <2>4, <3>1
      DEF FaultFree, ReOpensOther, OrderFits, InOrder
  <2>5. CASE /\ \A s \in Side : reOpen'[s] => reOpen[s]
             /\ pc' = "quote" /\ UNCHANGED t
             /\ call' = [NoCall EXCEPT !.side = side, !.closing = closing]
    <3>1. call'.side = side /\ call'.closing = closing /\ call'.polls = 0
      BY <2>5 DEF NoCall
    <3>2. ReOpensOther'
      BY <1>1, <2>5, <3>1 DEF FaultFree, ReOpensOther, InOrder
    <3>3. OrderFits'
      BY <1>1, <2>2, <2>5, <3>1 DEF OrderFits, InOrder
    <3> QED
      BY <2>3, <2>5, <3>2, <3>3
  <2>6. \/ NextIteration /\ UNCHANGED reOpen
        \/ /\ reOpen' = [reOpen EXCEPT ![side] = Keeps(side)]
           /\ \/ NextIteration
              \/ /\ pc' = "quote" /\ UNCHANGED t
                 /\ call' = [NoCall EXCEPT !.side = side, !.closing = closing]
    BY <2>1 DEF Enter
  <2>7. \A s \in Side : reOpen'[s] => reOpen[s]
    BY <2>2, <2>6 DEF TypeOK, Keeps
  <2> QED
    BY <2>4, <2>5, <2>6, <2>7
<1> QED
  BY <1>1, <1>2, <1>3, LocalStep

LEMMA LoopLedger ==
    ASSUME TypeOK, FaultFree, Loop, faults = 0, faults' = 0
    PROVE  FaultFree'
<1>1. \A p \in Side : WantsOpen(p) \in BOOLEAN /\ WantsClose(p) \in BOOLEAN
  BY DEF WantsOpen, WantsClose
<1>2. ASSUME NEW p \in Side, WantsClose(p)
      PROVE  isOpen[p]
  BY <1>2 DEF WantsClose
<1>3. ASSUME Idled, NEW p \in Side
      PROVE  ~WantsClose(p)
  BY <1>2, <1>3 DEF Idled, Off
<1>4. /\ {"openShort", "openLong", "closeShort", "closeLong"}
            \subseteq Stages \ {"idle", "wait"}
      /\ "BUY" \in Side /\ "SELL" \in Side
  BY DEF Stages, Side
<1>5. CASE OpenShort
  <2>1. pc = "openShort" /\ Branch("openShort", "SELL", FALSE, WantsOpen("SELL"))
    BY <1>5 DEF OpenShort, Branch
  <2>2. WantsOpen("SELL") => ~isOpen["SELL"]
    BY <2>1, <1>4 DEF WantsOpen, FaultFree, ReOpensOther
  <2>3. ~Idled /\ (t.point = "BUY" => ~isOpen["BUY"])
    BY <2>1 DEF Idled, FaultFree, ReOpensOther
  <2> QED
    BY <1>1, <1>4, <2>1, <2>2, <2>3, BranchLedger
<1>6. CASE OpenLong
  <2>1. pc = "openLong" /\ Branch("openLong", "BUY", FALSE, WantsOpen("BUY"))
    BY <1>6 DEF OpenLong, Branch
  <2>2. WantsOpen("BUY") => ~isOpen["BUY"]
    BY <2>1, <1>4 DEF WantsOpen, FaultFree, ReOpensOther
  <2>3. ~Idled /\ (t.point = "BUY" => ~isOpen["BUY"])
    BY <2>1 DEF Idled, FaultFree, ReOpensOther
  <2> QED
    BY <1>1, <1>4, <2>1, <2>2, <2>3, BranchLedger
<1>7. CASE CloseShort
  BY <1>1, <1>2, <1>3, <1>4, <1>7, BranchLedger DEF CloseShort
<1>8. CASE CloseLong
  BY <1>1, <1>2, <1>3, <1>4, <1>8, BranchLedger DEF CloseLong
<1> QED
  BY <1>5, <1>6, <1>7, <1>8, LoopHeadLedger DEF Loop

-----------------------------------------------------------------------------
(* An order is sized, sent, and waited for.                                *)

LEMMA QuoteLedger ==
    ASSUME TypeOK, FaultFree, Quote, faults = 0, faults' = 0
    PROVE  FaultFree'
<1>1. PICK held \in {0, HeldSize} :
         /\ IF held = HeldSize THEN UNCHANGED faults ELSE Fault
         /\ call' = [call EXCEPT !.held = held,
                                 !.size = IF held > 0 THEN held ELSE 1]
  BY DEF Quote
<1>2. held = HeldSize
  BY <1>1 DEF Fault
<1>3. pc = "quote" /\ pc' = "send" /\ UNCHANGED <<pos, book, rows, isOpen, reOpen, t>>
  BY DEF Quote, environment, flags
<1>4. /\ call.side \in Side /\ isOpen \in [Side -> BOOLEAN] /\ rows \in Seq(Signal)
  BY DEF TypeOK, CallLocals
<1>5. ~Idled /\ Managed
  BY <1>3 DEF Idled, FaultFree
<1>6. pos = NetOpen
  BY <1>3, <1>4, <1>5, LedgerTyped DEF FaultFree, InFlight, Managed
<1>7. NetOpen \in {-1, 0, 1} /\ NetOpen # Sign(call.side) /\ Sign(call.side) \in {-1, 1}
  BY <1>3, <1>4, NetOpenFacts, SignTyped DEF FaultFree, OrderFits, InOrder
<1>8. /\ held \in {0, 1}
      /\ held > 0 => NetOpen = -Sign(call.side)
  BY <1>2, <1>6, <1>7 DEF HeldSize
<1>9. /\ call'.side = call.side /\ call'.closing = call.closing
      /\ call'.polls = call.polls /\ call'.held = held /\ call'.size = 1
  <2>1. (IF held > 0 THEN held ELSE 1) = 1
    BY <1>8
  <2> QED
    BY <1>1, <2>1 DEF TypeOK, CallLocals
<1>10. OrderFits'
  <2>1. NetOpen' = NetOpen
    BY <1>3 DEF NetOpen
  <2>2. (InOrder => IF call.closing THEN isOpen[Other(call.side)]
                                    ELSE ~isOpen[call.side])'
    BY <1>3, <1>9 DEF FaultFree, OrderFits, InOrder
  <2>3. (pc \in {"quote", "send"} => call.polls = 0)'
    BY <1>3, <1>9 DEF FaultFree, OrderFits
  <2>4. (pc \in {"send", "wait"} =>
          /\ call.size = 1
          /\ call.held > 0 => NetOpen = -Sign(call.side))'
    BY <1>8, <1>9, <2>1
  <2> QED
    BY <2>2, <2>3, <2>4 DEF OrderFits
<1>11. ReOpensOther'
  BY <1>3, <1>9 DEF FaultFree, ReOpensOther, InOrder
<1> QED
  BY <1>3, <1>5, <1>10, <1>11, LocalStep

LEMMA RejectLedger ==
    ASSUME TypeOK, FaultFree, QuoteFails \/ SendRejected
    PROVE  FaultFree'
<1>1. /\ pc \in {"quote", "send"} /\ pc' \in {"iterate", "idle"}
      /\ UNCHANGED <<pos, book, rows, isOpen, reOpen>>
  BY NextIterationPc
  DEF QuoteFails, SendRejected, NotOrdered, environment, flags
<1>2. ~Idled
  BY <1>1 DEF Idled
<1>3. ReOpensOther' /\ OrderFits'
  BY <1>1 DEF FaultFree, ReOpensOther, OrderFits, InOrder
<1> QED
  BY <1>1, <1>2, <1>3, LocalStep

LEMMA SendLedger ==
    ASSUME TypeOK, FaultFree, SendAccepted
    PROVE  FaultFree'
<1>1. /\ pc = "send" /\ pc' = "wait" /\ book' = Accepted
      /\ call' = [call EXCEPT !.oid = Len(book) + 1]
      /\ UNCHANGED <<pos, rows, isOpen, reOpen, t>>
  BY DEF SendAccepted, flags
<1>2. /\ Len(book) \in Nat /\ Len(book') = Len(book) + 1
      /\ \A o \in 1 .. Len(book) : book'[o] = book[o]
      /\ book'[Len(book) + 1]
           = [side |-> call.side, size |-> call.size, state |-> "ACTIVE"]
  BY <1>1, OrderTyped DEF TypeOK
<1>3. /\ call'.oid = Len(book) + 1 /\ call'.side = call.side
      /\ call'.closing = call.closing /\ call'.polls = call.polls
      /\ call'.held = call.held /\ call'.size = call.size
  BY <1>1, <1>2 DEF TypeOK, CallLocals
<1>4. InFlight = 0 /\ InFlight' = 0
  BY <1>1, <1>2, <1>3 DEF InFlight
<1>5. NetOpen' = NetOpen /\ LedgerPosition(rows)' = LedgerPosition(rows)
  BY <1>1 DEF NetOpen, LedgerPosition
<1>6. (pos = LedgerPosition(rows) + InFlight)' /\ Managed'
  BY <1>1, <1>4, <1>5 DEF FaultFree, Managed, Idled
<1>7. ReOpensOther'
  BY <1>1, <1>3 DEF FaultFree, ReOpensOther, InOrder
<1>8. OrderFits'
  BY <1>1, <1>3, <1>5 DEF FaultFree, OrderFits, InOrder
<1>9. BookFits'
  <2>1. call.polls = 0
    BY <1>1 DEF FaultFree, OrderFits
  <2>2. ~(call'.polls >= ExpirePolls)
    BY <1>3, <2>1, TimeAssumption
  <2>3. \A o \in 1 .. Len(book) : book[o].state # "ACTIVE"
    BY <1>1 DEF FaultFree, BookFits
  <2>4. \A o \in 1 .. Len(book') : book'[o].state = "ACTIVE" => o = call'.oid
    BY <1>2, <1>3, <2>3
  <2> QED
    BY <1>1, <1>2, <1>3, <2>2, <2>4 DEF BookFits
<1> QED
  BY <1>6, <1>7, <1>8, <1>9 DEF FaultFree

(* The reopen flag that an order leaves is never for a side still open.    *)
LEMMA SettledOther ==
    ASSUME TypeOK, FaultFree, pc = "wait"
    PROVE  Settled => ~isOpen[call.side]
<1>1. call.side \in Side /\ isOpen \in [Side -> BOOLEAN]
  BY DEF TypeOK, CallLocals
<1>2. reOpen[call.side] => ~isOpen[call.side]
  BY <1>1 DEF FaultFree, ReOpensOther
<1>3. call.held > 0 => ~isOpen[call.side]
  BY <1>1, NetOpenFacts DEF FaultFree, OrderFits
<1> QED
  BY <1>2, <1>3 DEF Settled

LEMMA ExpireLedger ==
    ASSUME TypeOK, FaultFree, Expire
    PROVE  FaultFree'
<1>1. /\ pc = "wait" /\ pc' \in {"iterate", "idle"}
      /\ reOpen' = [reOpen EXCEPT ![call.side] = Settled]
      /\ UNCHANGED <<pos, book, rows, isOpen>>
  BY NextIterationPc DEF Expire, GiveUp
<1>2. book[call.oid].state = "CANCELED"
  BY DEF Expire, FaultFree, BookFits
<1>3. InFlight = 0 /\ InFlight' = 0
  BY <1>1, <1>2 DEF InFlight
<1>4. NetOpen' = NetOpen /\ LedgerPosition(rows)' = LedgerPosition(rows)
  BY <1>1 DEF NetOpen, LedgerPosition
<1>5. (pos = LedgerPosition(rows) + InFlight)' /\ Managed'
  BY <1>1, <1>3, <1>4 DEF FaultFree, Managed, Idled
<1>6. ReOpensOther' /\ OrderFits'
  BY <1>1, SettledOther
  DEF FaultFree, ReOpensOther, OrderFits, InOrder, TypeOK, CallLocals
<1>7. BookFits'
  BY <1>1, <1>2 DEF FaultFree, BookFits
<1> QED
  BY <1>5, <1>6, <1>7 DEF FaultFree

LEMMA PendingLedger ==
    ASSUME TypeOK, FaultFree, PollPending, faults = 0, faults' = 0
    PROVE  FaultFree'
<1>1. /\ pc = "wait" /\ pc' = "wait"
      /\ call' = [call EXCEPT !.polls = @ + 1]
      /\ UNCHANGED <<pos, book, rows, isOpen, reOpen, t>>
  BY DEF PollPending, flags
<1>2. /\ call'.oid = call.oid /\ call'.side = call.side
      /\ call'.closing = call.closing /\ call'.polls = call.polls + 1
      /\ call'.held = call.held /\ call'.size = call.size
  BY <1>1 DEF TypeOK, CallLocals
<1>3. book[call.oid].state = "CANCELED" \/ call.polls + 1 < ExpirePolls
  BY BoundAssumption DEF PollPending, OrderIs, Overtime
<1>4. InFlight' = InFlight
  BY <1>1, <1>2 DEF InFlight
<1>5. NetOpen' = NetOpen /\ LedgerPosition(rows)' = LedgerPosition(rows)
  BY <1>1 DEF NetOpen, LedgerPosition
<1>6. (pos = LedgerPosition(rows) + InFlight)' /\ Managed'
  BY <1>1, <1>4, <1>5 DEF FaultFree, Managed, Idled
<1>7. ReOpensOther' /\ OrderFits'
  BY <1>1, <1>2, <1>5 DEF FaultFree, ReOpensOther, OrderFits, InOrder
<1>8. BookFits'
  <2>1. call.polls \in Nat
    BY DEF TypeOK, CallLocals
  <2>2. call'.polls >= ExpirePolls => book'[call'.oid].state = "CANCELED"
    BY <1>1, <1>2, <1>3, <2>1, TimeAssumption
  <2> QED
    BY <1>1, <1>2, <2>2 DEF FaultFree, BookFits
<1> QED
  BY <1>6, <1>7, <1>8 DEF FaultFree

LEMMA RecordableInWait ==
    ASSUME TypeOK, SignalsInPast
    PROVE  Recordable
<1>1. /\ signals \in Seq(Signal) /\ now \in Int /\ now + 1 \in Int
      /\ call.side \in Side /\ reOpen[call.side] \in BOOLEAN
  BY DEF TypeOK, CallLocals
<1>2. signals # << >> => LastSignal(signals).time <= now + 1
  BY <1>1, NotLater DEF SignalsInPast
<1> QED
  BY <1>1, <1>2, GateIgnoresSide DEF Recordable

(* The flag that opens or clears moves the net as the order moved the account. *)
LEMMA OpenMovesNet ==
    ASSUME isOpen \in [Side -> BOOLEAN], NEW side \in Side, ~isOpen[side],
           isOpen' = [isOpen EXCEPT ![side] = TRUE]
    PROVE  NetOpen' = NetOpen + Sign(side) /\ NetOpen # Sign(side)
<1>1. NetOpen # Sign(side)
  BY NetOpenFacts
<1>2. CASE side = "BUY"
  BY <1>1, <1>2 DEF NetOpen, Sign, Side
<1>3. CASE side = "SELL"
  BY <1>1, <1>3 DEF NetOpen, Sign, Side
<1> QED
  BY <1>2, <1>3 DEF Side

LEMMA CloseMovesNet ==
    ASSUME isOpen \in [Side -> BOOLEAN], NEW side \in Side, isOpen[Other(side)],
           isOpen' = [isOpen EXCEPT ![Other(side)] = FALSE]
    PROVE  NetOpen' = NetOpen + Sign(side) /\ NetOpen # Sign(side)
<1>1. NetOpen # Sign(side)
  BY NetOpenFacts
<1>2. CASE side = "BUY"
  BY <1>1, <1>2 DEF NetOpen, Sign, Side, Other
<1>3. CASE side = "SELL"
  BY <1>1, <1>3 DEF NetOpen, Sign, Side, Other
<1> QED
  BY <1>2, <1>3 DEF Side

LEMMA CompletedLedger ==
    ASSUME TypeOK, SignalsInPast, FaultFree, PollCompleted,
           faults = 0, faults' = 0
    PROVE  FaultFree'
<1>1. /\ pc = "wait" /\ book[call.oid].state = "COMPLETED"
      /\ RecordSignal /\ UNCHANGED <<pos, book>>
      /\ IF call.closing THEN FinishClosing(Other(call.side))
                         ELSE FinishOpening(call.side)
  BY RecordableInWait DEF PollCompleted, OrderIs
<1>2. rows' = Append(rows, NewSignal)
  BY <1>1 DEF RecordSignal, Fault
<1>3. /\ call.side \in Side /\ Other(call.side) \in Side
      /\ isOpen \in [Side -> BOOLEAN] /\ reOpen \in [Side -> BOOLEAN]
      /\ rows \in Seq(Signal) /\ call.closing \in BOOLEAN
      /\ NewSignal \in Signal /\ NewSignal.side = call.side
  BY SignTyped, NewSignalTyped DEF TypeOK, CallLocals, NewSignal
<1>4. Managed /\ call.size = 1 /\ InFlight = Sign(call.side)
  <2>1. Managed /\ call.size = 1
    BY <1>1 DEF FaultFree, Idled, OrderFits
  <2> QED
    BY <1>1, <1>3, <2>1, SignTyped DEF InFlight
<1> DEFINE Next3 == /\ NetOpen' = NetOpen + Sign(call.side)
                    /\ NetOpen # Sign(call.side)
                    /\ pc' \in {"iterate", "idle", "openLong", "closeShort", "closeLong"}
                    /\ ReOpensOther'
<1>5. ASSUME call.closing PROVE Next3
  <2>1. /\ FinishClosing(Other(call.side)) /\ isOpen[Other(call.side)]
    BY <1>1, <1>5 DEF FaultFree, OrderFits, InOrder
  <2>2. isOpen' = [isOpen EXCEPT ![Other(call.side)] = FALSE]
        /\ reOpen' = [reOpen EXCEPT ![call.side] = Settled]
        /\ NextBranch(Other(call.side), TRUE)
    BY <2>1 DEF FinishClosing
  <2>3. pc' \in {"iterate", "idle", "closeLong"}
    BY <2>2, NextIterationPc DEF NextBranch
  <2>4. \A s \in Side : isOpen'[s] => isOpen[s]
    BY <1>3, <2>2
  <2>5. \A s \in Side : reOpen'[s] => ~isOpen[s]
    BY <1>1, <1>3, <2>2, SettledOther DEF FaultFree, ReOpensOther
  <2>6. ReOpensOther'
    BY <2>3, <2>4, <2>5 DEF ReOpensOther, InOrder
  <2> QED
    BY <1>3, <2>1, <2>2, <2>3, <2>6, CloseMovesNet
<1>6. ASSUME ~call.closing PROVE Next3
  <2>1. /\ FinishOpening(call.side) /\ ~isOpen[call.side]
    BY <1>1, <1>6 DEF FaultFree, OrderFits, InOrder
  <2>2. isOpen' = [isOpen EXCEPT ![call.side] = TRUE]
        /\ reOpen' = [reOpen EXCEPT ![call.side] = FALSE]
        /\ NextBranch(call.side, FALSE)
    BY <2>1 DEF FinishOpening
  <2>3. /\ pc' = IF call.side = "SELL" THEN "openLong" ELSE "closeShort"
        /\ UNCHANGED t
    BY <2>2 DEF NextBranch, AfterOpening
  <2>4. \A s \in Side : reOpen'[s] => ~isOpen'[s]
    BY <1>3, <2>2 DEF FaultFree, ReOpensOther
  <2>5. pc' = "openLong" => (t'.point = "BUY" => ~isOpen'["BUY"])
    BY <1>1, <1>3, <1>6, <2>2, <2>3 DEF FaultFree, ReOpensOther, InOrder, Side
  <2>6. ReOpensOther'
    BY <2>3, <2>4, <2>5 DEF ReOpensOther, InOrder
  <2> QED
    BY <1>3, <2>1, <2>2, <2>3, <2>6, OpenMovesNet
<1> HIDE DEF Next3
<1>7. Next3
  BY <1>3, <1>5, <1>6
<1>8. LedgerPosition(rows') = LedgerPosition(rows) + Sign(call.side)
  BY <1>2, <1>3, <1>4, <1>7, LedgerFacts DEF Managed, Next3
<1>9. InFlight' = 0
  BY <1>7 DEF Next3, InFlight
<1>10. (pos = LedgerPosition(rows) + InFlight)'
  BY <1>1, <1>3, <1>4, <1>8, <1>9, LedgerTyped, SignTyped DEF FaultFree
<1>11. Managed'
  BY <1>4, <1>7, <1>8 DEF Managed, Next3
<1>12. OrderFits'
  BY <1>7 DEF Next3, OrderFits, InOrder
<1>13. BookFits'
  <2>1. \A o \in 1 .. Len(book) : book[o].state # "ACTIVE"
    BY <1>1 DEF FaultFree, BookFits
  <2> QED
    BY <1>1, <1>7, <2>1 DEF Next3, BookFits
<1> QED
  BY <1>7, <1>10, <1>11, <1>12, <1>13 DEF FaultFree, Next3

-----------------------------------------------------------------------------
(* The exchange decides an order; the process restarts.                    *)

LEMMA OrderUpdate ==
    ASSUME TypeOK, NEW o \in 1 .. Len(book), NEW state,
           book' = [book EXCEPT ![o].state = state]
    PROVE  /\ Len(book') = Len(book)
           /\ book'[o] = [book[o] EXCEPT !.state = state]
           /\ book'[o].state = state /\ book'[o].side = book[o].side
           /\ book'[o].size = book[o].size
           /\ \A k \in 1 .. Len(book) : k # o => book'[k] = book[k]
<1>1. /\ Len(book') = Len(book)
      /\ book'[o] = [book[o] EXCEPT !.state = state]
      /\ \A k \in 1 .. Len(book) : k # o => book'[k] = book[k]
  BY DEF TypeOK
<1>2. book[o] \in Order
  BY DEF TypeOK
<1> QED
  BY <1>1, <1>2 DEF Order

LEMMA ExchangeLedger ==
    ASSUME TypeOK, FaultFree, Exchange
    PROVE  FaultFree'
<1>1. PICK o \in 1 .. Len(book) : Fill(o) \/ Cancel(o)
  BY DEF Exchange
<1>2. /\ book[o].state = "ACTIVE"
      /\ UNCHANGED <<rows, isOpen, reOpen, isNoPosition, pc, t, call>>
      /\ pc = "wait" /\ o = call.oid
  BY <1>1 DEF Fill, Cancel, flags, FaultFree, BookFits
<1>3. /\ call.side \in Side /\ rows \in Seq(Signal) /\ pos \in Int
      /\ book[o].side = call.side /\ book[o].size = call.size /\ call.size = 1
  BY <1>2 DEF TypeOK, CallLocals, FaultFree, BookFits, OrderFits
<1>4. InFlight = 0
  BY <1>2 DEF InFlight
<1>5. /\ Len(book') = Len(book)
      /\ book'[o].state \in {"COMPLETED", "CANCELED"}
      /\ book'[o].side = call.side /\ book'[o].size = call.size
      /\ \A k \in 1 .. Len(book) : k # o => book'[k] = book[k]
  BY <1>1, <1>3, OrderUpdate DEF Fill, Cancel
<1>6. pos' = pos + InFlight'
  <2>1. CASE Fill(o)
    <3>1. book'[o].state = "COMPLETED" /\ pos' = pos + Sign(call.side) * 1
      BY <1>3, <2>1, OrderUpdate DEF Fill
    <3>2. InFlight' = Sign(call.side) * 1
      BY <1>2, <1>3, <3>1 DEF InFlight
    <3> QED
      BY <3>1, <3>2
  <2>2. CASE Cancel(o)
    <3>1. book'[o].state = "CANCELED" /\ pos' = pos
      BY <2>2, OrderUpdate DEF Cancel
    <3>2. InFlight' = 0
      BY <1>2, <3>1 DEF InFlight
    <3> QED
      BY <1>3, <3>1, <3>2
  <2> QED
    BY <1>1, <2>1, <2>2
<1>7. NetOpen' = NetOpen /\ LedgerPosition(rows)' = LedgerPosition(rows)
  BY <1>2 DEF NetOpen, LedgerPosition
<1>8. (pos = LedgerPosition(rows) + InFlight)' /\ Managed'
  BY <1>2, <1>3, <1>4, <1>6, <1>7, LedgerTyped DEF FaultFree, Managed, Idled
<1>9. ReOpensOther' /\ OrderFits'
  BY <1>2, <1>7 DEF FaultFree, ReOpensOther, OrderFits, InOrder
<1>10. BookFits'
  <2>1. call.polls < ExpirePolls
    BY <1>2, TimeAssumption DEF FaultFree, BookFits, TypeOK, CallLocals
  <2>2. ~(call.polls >= ExpirePolls)
    BY <2>1, TimeAssumption DEF TypeOK, CallLocals
  <2> QED
    BY <1>2, <1>5, <2>2 DEF FaultFree, BookFits
<1> QED
  BY <1>8, <1>9, <1>10 DEF FaultFree

LEMMA RestartLedger ==
    ASSUME TypeOK, FaultFree, Restart, faults = 0, faults' = 0
    PROVE  FaultFree'
<1>1. /\ pc # "wait" /\ pc' = "idle" /\ UNCHANGED <<pos, book, rows>>
      /\ isOpen' = Off /\ reOpen' = Off /\ crashes' # 0
  BY DEF Restart, Fault, environment, TypeOK
<1>2. InFlight = 0 /\ InFlight' = 0
  BY <1>1 DEF InFlight
<1>3. NetOpen' = 0 /\ LedgerPosition(rows)' = LedgerPosition(rows)
  BY <1>1 DEF NetOpen, Off, Side, LedgerPosition
<1>4. (Managed \/ Idled)'
  <2>1. CASE IsEven(Len(rows))
    BY <1>1, <1>3, <2>1 DEF Managed, LedgerPosition
  <2>2. CASE ~IsEven(Len(rows))
    BY <1>1, <2>2 DEF Idled
  <2> QED
    BY <2>1, <2>2
<1>5. ReOpensOther' /\ OrderFits'
  BY <1>1 DEF ReOpensOther, OrderFits, InOrder, Off
<1>6. BookFits'
  BY <1>1 DEF FaultFree, BookFits
<1>7. (pos = LedgerPosition(rows) + InFlight)'
  BY <1>1, <1>2, <1>3 DEF FaultFree
<1> QED
  BY <1>4, <1>5, <1>6, <1>7 DEF FaultFree

LEMMA StutterLedger ==
    ASSUME FaultFree, Tick \/ Horizon \/ UNCHANGED vars
    PROVE  FaultFree'
<1>1. UNCHANGED <<pos, book, rows, isOpen, reOpen, isNoPosition, pc, t, call, crashes>>
  BY DEF Tick, Horizon, vars, environment, flags, failures
<1> QED
  BY <1>1
  DEF FaultFree, Managed, Idled, ReOpensOther, OrderFits, BookFits, InOrder,
      InFlight, NetOpen, LedgerPosition

-----------------------------------------------------------------------------
(* Faults are counted, never forgotten, and none happens unseen.           *)
LEMMA FaultsGrow ==
    ASSUME TypeOK, [Next]_vars, faults' = 0
    PROVE  faults = 0 /\ ~SendReplyLost /\ ~PollFails
<1>1. faults' = faults \/ faults' = faults + 1
  BY DEF Next, InTrade, Loop, Ordering, Waiting, Begin, Skip, Load, Iterate,
     OpenShort, OpenLong, CloseShort, CloseLong, Branch, QuoteFails, Quote,
     SendRejected, SendAccepted, SendReplyLost, NotOrdered, Expire, PollFails,
     PollPending, PollCompleted, GiveUp, RecordSignal, Exchange, Fill, Cancel,
     Tick, Restart, Horizon, Fault, Overtime, failures, vars
<1>2. faults \in Nat
  BY DEF TypeOK
<1>3. SendReplyLost \/ PollFails => faults' = faults + 1
  BY DEF SendReplyLost, PollFails, Fault
<1> QED
  BY <1>1, <1>2, <1>3

LEMMA LedgerStep ==
    ASSUME IInv, [Next]_vars
    PROVE  IInv'
<1>1. TypeOK' /\ SignalsInPast'
  BY TypeStep, PastStep DEF IInv
<1>2. ASSUME faults' = 0
      PROVE  FaultFree'
  <2>1. /\ TypeOK /\ SignalsInPast /\ FaultFree /\ faults = 0
        /\ ~SendReplyLost /\ ~PollFails
    BY <1>2, FaultsGrow DEF IInv
  <2>2. CASE Begin \/ Skip \/ Load \/ Loop
    BY <1>2, <2>1, <2>2, LoopHeadLedger, LoopLedger
  <2>3. CASE Ordering
    BY <1>2, <2>1, <2>3, QuoteLedger, RejectLedger, SendLedger DEF Ordering
  <2>4. CASE Waiting
    BY <1>2, <2>1, <2>4, ExpireLedger, PendingLedger, CompletedLedger DEF Waiting
  <2>5. CASE Exchange
    BY <2>1, <2>5, ExchangeLedger
  <2>6. CASE Restart
    BY <1>2, <2>1, <2>6, RestartLedger
  <2>7. CASE Tick \/ Horizon \/ UNCHANGED vars
    BY <2>1, <2>7, StutterLedger
  <2> QED
    BY <2>2, <2>3, <2>4, <2>5, <2>6, <2>7 DEF Next, InTrade
<1> QED
  BY <1>1, <1>2 DEF IInv

LEMMA LedgerInit == Init => IInv
<1> SUFFICES ASSUME Init PROVE IInv
  OBVIOUS
<1>1. pc = "idle" /\ rows = << >> /\ signals = << >> /\ book = << >>
      /\ pos = 0 /\ isOpen = Off /\ reOpen = Off
  BY DEF Init
<1>2. LedgerPosition(rows) = 0 /\ NetOpen = 0 /\ InFlight = 0
  BY <1>1 DEF LedgerPosition, IsEven, NetOpen, Off, Side, InFlight
<1>3. ReOpensOther /\ OrderFits /\ BookFits
  BY <1>1 DEF ReOpensOther, OrderFits, BookFits, InOrder, Off
<1> QED
  BY <1>1, <1>2, <1>3, TypeInit DEF IInv, SignalsInPast, FaultFree, Managed

(* The inductive invariant holds of every run.                             *)
THEOREM InductiveInvariant == Spec => []IInv
  BY LedgerInit, LedgerStep, PTL DEF Spec

(* Trade, Buy, Sell and WaitUntilOrderComplete keep the table in agreement
   with the account, over restarts too, as long as no failure is counted. *)
THEOREM LedgerTheorem == Spec => []LedgerExplainsPosition
<1>1. IInv => LedgerExplainsPosition
  BY DEF IInv, FaultFree, LedgerExplainsPosition
<1> QED
  BY <1>1, InductiveInvariant, PTL

(* sellOpen and buyOpen, netted, are the position, until a restart.        *)
THEOREM FlagsTheorem == Spec => []FlagsNetPosition
<1>1. IInv => FlagsNetPosition
  <2> SUFFICES ASSUME IInv, faults = 0, crashes = 0
               PROVE  NetOpen = pos - InFlight
    BY DEF FlagsNetPosition
  <2>1. /\ pos = LedgerPosition(rows) + InFlight /\ NetOpen = LedgerPosition(rows)
    BY DEF IInv, FaultFree, Managed, Idled
  <2>2. /\ call.side \in Side /\ call.size \in Nat /\ rows \in Seq(Signal)
    BY DEF IInv, TypeOK, CallLocals
  <2>3. InFlight \in Int /\ LedgerPosition(rows) \in Int
    BY <2>2, SignTyped, LedgerTyped DEF InFlight
  <2> QED
    BY <2>1, <2>3
<1> QED
  BY <1>1, InductiveInvariant, PTL

(* SignalEvents.Buy and Sell never refuse a trade that was executed.       *)
THEOREM NeverRefusedTheorem == Spec => []NeverRefused
<1>1. IInv => NeverRefused
  BY RecordableInWait DEF IInv, NeverRefused
<1> QED
  BY <1>1, InductiveInvariant, PTL

-----------------------------------------------------------------------------
(* The refinement: without faults, Trade implements RoundTrip.  At most     *)
(* one lot is held, and every trade is recorded before the next one is made. *)

AccountUnchanged == UNCHANGED <<pos, Journal, Unrecorded>>

LEMMA StutterOutsideWait ==
    ASSUME UNCHANGED <<pos, rows>>, InFlight = 0, InFlight' = 0
    PROVE  AccountUnchanged
  BY DEF AccountUnchanged, Journal, Unrecorded

LEMMA InFlightOutsideWait ==
    pc # "wait" => InFlight = 0
  BY DEF InFlight

LEMMA FillRefines ==
    ASSUME IInv, faults = 0, Exchange
    PROVE  AccountUnchanged \/ \E side \in Side : RoundTrips!Execute(side)
<1>1. TypeOK /\ FaultFree
  BY DEF IInv
<1>2. PICK o \in 1 .. Len(book) : Fill(o) \/ Cancel(o)
  BY DEF Exchange
<1>3. /\ book[o].state = "ACTIVE" /\ UNCHANGED <<rows, pc, call>>
      /\ pc = "wait" /\ o = call.oid /\ call.size = 1 /\ call.side \in Side
      /\ book[o].side = call.side /\ book[o].size = call.size
  BY <1>1, <1>2
  DEF Fill, Cancel, FaultFree, BookFits, OrderFits, TypeOK, CallLocals
<1>4. InFlight = 0
  BY <1>3 DEF InFlight
<1>5. CASE Cancel(o)
  <2>1. InFlight' = 0 /\ pos' = pos
    BY <1>1, <1>3, <1>5, OrderUpdate DEF Cancel, InFlight
  <2> QED
    BY <1>3, <1>4, <2>1, StutterOutsideWait
<1>6. CASE Fill(o)
  <2>1. Sign(call.side) \in {-1, 1}
    BY <1>3, SignTyped
  <2>2. book'[o].state = "COMPLETED" /\ pos' = pos + Sign(call.side) * 1
    BY <1>1, <1>3, <1>6, OrderUpdate DEF Fill
  <2>3. pos' = pos + Sign(call.side)
    BY <2>1, <2>2
  <2>4. InFlight' # 0
    BY <1>3, <2>1, <2>2 DEF InFlight
  <2>5. pos # Sign(call.side)
    <3>1. isOpen \in [Side -> BOOLEAN] /\ rows \in Seq(Signal)
      BY <1>1 DEF TypeOK
    <3>2. NetOpen # Sign(call.side)
      BY <1>1, <1>3, <3>1, NetOpenFacts DEF FaultFree, OrderFits, InOrder
    <3>3. pos = NetOpen
      BY <1>1, <1>3, <1>4, <3>1, LedgerTyped DEF FaultFree, Managed, Idled
    <3> QED
      BY <3>2, <3>3
  <2>6. Unrecorded = "none" /\ Unrecorded' = call.side /\ Journal' = Journal
    BY <1>3, <1>4, <2>4 DEF Unrecorded, Journal, NoSide
  <2>7. RoundTrips!Execute(call.side)
    BY <2>3, <2>5, <2>6 DEF RoundTrips!Execute, Sign, RoundTrips!Sign
  <2> QED
    BY <1>3, <2>7
<1> QED
  BY <1>2, <1>5, <1>6

LEMMA CompletedRefines ==
    ASSUME IInv, faults = 0, PollCompleted, faults' = 0, IInv'
    PROVE  RoundTrips!Record
<1>1. TypeOK /\ SignalsInPast /\ FaultFree
  BY DEF IInv
<1>2. /\ pc = "wait" /\ book[call.oid].state = "COMPLETED"
      /\ RecordSignal /\ pos' = pos
      /\ IF call.closing THEN FinishClosing(Other(call.side))
                         ELSE FinishOpening(call.side)
  BY <1>1, RecordableInWait DEF PollCompleted, OrderIs
<1>3. /\ rows' = Append(rows, NewSignal) /\ rows \in Seq(Signal)
      /\ NewSignal \in Signal /\ NewSignal.side = call.side
      /\ call.side \in Side /\ call.side # "none"
  BY <1>1, <1>2, NewSignalTyped
  DEF RecordSignal, Fault, TypeOK, CallLocals, NewSignal, Side
<1>4. InFlight # 0
  <2>1. call.size = 1 /\ Sign(call.side) \in {-1, 1}
    BY <1>1, <1>2, <1>3, SignTyped DEF FaultFree, OrderFits
  <2> QED
    BY <1>2, <2>1 DEF InFlight
<1>5. pc' # "wait"
  <2>1. NextBranch(Other(call.side), TRUE) \/ NextBranch(call.side, FALSE)
    BY <1>2 DEF FinishClosing, FinishOpening
  <2> QED
    BY <1>1, <1>3, <2>1, SignTyped, NextBranchTypes DEF TypeOK
<1>6. Unrecorded = call.side /\ Unrecorded' = "none"
  BY <1>4, <1>5, InFlightOutsideWait DEF Unrecorded, NoSide, InFlight
<1>7. Journal' = Append(Journal, call.side)
  <2>1. /\ Len(rows') = Len(rows) + 1 /\ Len(rows) \in Nat
        /\ \A k \in 1 .. Len(rows) : rows'[k] = rows[k]
        /\ rows'[Len(rows) + 1] = NewSignal
    BY <1>3
  <2>2. Journal \in Seq(Side) /\ Len(Journal) = Len(rows)
    <3>1. \A k \in 1 .. Len(rows) : rows[k].side \in Side
      <4>1. \A k \in 1 .. Len(rows) : rows[k] \in Signal
        BY <1>3
      <4> QED
        BY <4>1 DEF Signal
    <3> QED
      BY <2>1, <3>1 DEF Journal
  <2>3. /\ Append(Journal, call.side) \in Seq(Side)
        /\ Len(Append(Journal, call.side)) = Len(rows) + 1
        /\ \A k \in 1 .. Len(rows) : Append(Journal, call.side)[k] = rows[k].side
        /\ Append(Journal, call.side)[Len(rows) + 1] = call.side
    BY <1>3, <2>1, <2>2 DEF Journal
  <2>4. \A k \in 1 .. Len(rows) + 1 :
           rows'[k].side = Append(Journal, call.side)[k]
    BY <1>3, <2>1, <2>3
  <2>5. Journal' = [k \in 1 .. Len(rows) + 1 |-> rows'[k].side]
    BY <2>1 DEF Journal
  <2>6. Append(Journal, call.side)
          = [k \in 1 .. Len(rows) + 1 |-> Append(Journal, call.side)[k]]
    BY <2>3
  <2> QED
    BY <2>4, <2>5, <2>6
<1> QED
  BY <1>2, <1>3, <1>6, <1>7 DEF RoundTrips!Record

LEMMA OtherStepsStutter ==
    ASSUME IInv, faults = 0, [Next]_vars, ~Exchange, ~PollCompleted, faults' = 0
    PROVE  AccountUnchanged
<1>1. TypeOK /\ FaultFree /\ ~SendReplyLost /\ ~PollFails
  BY FaultsGrow DEF IInv
<1>2. CASE Begin \/ Skip \/ Load \/ Iterate \/ Quote
  BY <1>2, StutterOutsideWait, InFlightOutsideWait
  DEF Begin, Skip, Load, Iterate, Quote, environment, InFlight
<1>3. CASE OpenShort \/ OpenLong \/ CloseShort \/ CloseLong
  <2>1. PICK stage \in Stages \ {"idle", "wait"}, p \in Side, closing \in BOOLEAN,
             wanted \in BOOLEAN : Branch(stage, p, closing, wanted)
    <3>1. \A p \in Side : WantsOpen(p) \in BOOLEAN /\ WantsClose(p) \in BOOLEAN
      BY DEF WantsOpen, WantsClose
    <3> QED
      BY <1>3, <3>1
      DEF OpenShort, OpenLong, CloseShort, CloseLong, Side, Stages
  <2>2. pc # "wait" /\ UNCHANGED <<pos, rows>>
    BY <2>1 DEF Branch, environment
  <2>3. pc' # "wait"
    BY <2>1, <1>1, NextBranchTypes, NextIterationPc DEF Branch, Enter, TypeOK
  <2> QED
    BY <2>2, <2>3, StutterOutsideWait, InFlightOutsideWait DEF InFlight
<1>4. CASE QuoteFails \/ SendRejected
  BY <1>4, StutterOutsideWait, InFlightOutsideWait, NextIterationPc
  DEF QuoteFails, SendRejected, NotOrdered, environment, InFlight
<1>5. CASE SendAccepted
  <2>1. /\ pc = "send" /\ book' = Accepted /\ UNCHANGED <<pos, rows>>
        /\ call' = [call EXCEPT !.oid = Len(book) + 1]
    BY <1>5 DEF SendAccepted
  <2>2. call'.oid = Len(book) + 1 /\ book'[Len(book) + 1].state = "ACTIVE"
    BY <1>1, <2>1, OrderTyped DEF TypeOK, CallLocals
  <2>3. InFlight = 0 /\ InFlight' = 0
    BY <2>1, <2>2 DEF InFlight
  <2> QED
    BY <2>1, <2>3, StutterOutsideWait
<1>6. CASE Expire
  <2>1. book[call.oid].state = "CANCELED"
    BY <1>1, <1>6 DEF Expire, FaultFree, BookFits
  <2>2. pc' # "wait" /\ UNCHANGED <<pos, rows>>
    BY <1>6, NextIterationPc DEF Expire, GiveUp
  <2> QED
    BY <2>1, <2>2, StutterOutsideWait DEF InFlight
<1>7. CASE PollPending
  <2>1. /\ book[call.oid].state # "COMPLETED" /\ UNCHANGED <<pos, rows, book, pc>>
        /\ call' = [call EXCEPT !.polls = @ + 1]
    BY <1>7 DEF PollPending, OrderIs
  <2>2. call'.oid = call.oid
    BY <1>1, <2>1 DEF TypeOK, CallLocals
  <2> QED
    BY <2>1, <2>2, StutterOutsideWait DEF InFlight
<1>8. CASE Restart
  BY <1>8, StutterOutsideWait DEF Restart, Fault, environment, InFlight
<1>9. CASE Tick \/ Horizon \/ UNCHANGED vars
  <2>1. UNCHANGED <<pos, rows, book, pc, call>>
    BY <1>9 DEF Tick, Horizon, vars, environment
  <2> QED
    BY <2>1 DEF AccountUnchanged, Journal, Unrecorded, InFlight
<1> QED
  BY <1>1, <1>2, <1>3, <1>4, <1>5, <1>6, <1>7, <1>8, <1>9
  DEF Next, InTrade, Loop, Ordering, Waiting

LEMMA RefinementInit == Init => RoundTrips!Init
<1> SUFFICES ASSUME Init PROVE RoundTrips!Init
  OBVIOUS
<1>1. pos = 0 /\ rows = << >> /\ InFlight = 0
  BY DEF Init, InFlight
<1>2. Journal = << >> /\ Unrecorded = "none"
  BY <1>1 DEF Journal, Unrecorded, NoSide
<1> QED
  BY <1>1, <1>2 DEF RoundTrips!Init

NoFaults == faults = 0

LEMMA RefinementStep ==
    ASSUME IInv, NoFaults, [Next]_vars, IInv', NoFaults'
    PROVE  [RoundTrips!Next]_(RoundTrips!accountVars)
<1>1. CASE Exchange
  BY <1>1, FillRefines
  DEF NoFaults, AccountUnchanged, RoundTrips!Next, RoundTrips!accountVars,
      Side, RoundTrips!Side
<1>2. CASE PollCompleted
  BY <1>2, CompletedRefines DEF NoFaults, RoundTrips!Next
<1>3. CASE ~Exchange /\ ~PollCompleted
  BY <1>3, OtherStepsStutter DEF NoFaults, AccountUnchanged, RoundTrips!accountVars
<1> QED
  BY <1>1, <1>2, <1>3

(* aiTrade.go: with no lost reply and no failed read or save, the trader keeps
   its promise about the account over any number of restarts. *)
THEOREM RefinementTheorem == Spec /\ []NoFaults => ImplementsRoundTrip
  BY RefinementInit, RefinementStep, InductiveInvariant, PTL
  DEF Spec, ImplementsRoundTrip, RoundTrips!Spec

LEMMA NoFaultsStep ==
    ASSUME MaxFaults = 0, NoFaults, [Next]_vars
    PROVE  NoFaults'
<1>1. ~Fault /\ ~Overtime
  BY DEF Fault, Overtime, NoFaults
<1> QED
  BY <1>1
  DEF NoFaults, Next, InTrade, Loop, Ordering, Waiting, Begin, Skip, Load,
      Iterate, OpenShort, OpenLong, CloseShort, CloseLong, Branch, QuoteFails,
      Quote, SendRejected, SendAccepted, SendReplyLost, NotOrdered, Expire,
      PollFails, PollPending, PollCompleted, GiveUp, RecordSignal, Exchange,
      Fill, Cancel, Tick, Restart, Horizon, failures, vars

(* The instances whose bound on faults is 0 implement RoundTrip.           *)
COROLLARY FaultlessRefinement ==
    ASSUME MaxFaults = 0
    PROVE  Spec => ImplementsRoundTrip
<1>1. Init => NoFaults
  BY DEF Init, NoFaults
<1>2. NoFaults /\ [Next]_vars => NoFaults'
  BY NoFaultsStep
<1> QED
  BY <1>1, <1>2, RefinementTheorem, PTL DEF Spec

=============================================================================
