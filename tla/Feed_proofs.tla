---------------------------- MODULE Feed_proofs ----------------------------
(***************************************************************************)
(* Proofs about Feed, for every sequence of tickers, every set of          *)
(* durations and any number of failures: over reconnects and restarts the  *)
(* tickers are taken in order, and the tables are filled as Candles says.  *)
(***************************************************************************)
EXTENDS Feed, TLAPS

-----------------------------------------------------------------------------
(* Lists of tickers.                                                       *)

Rising(list) == \A j, k \in DOMAIN list : j < k => list[j] < list[k]
Above(list, n) == \A k \in DOMAIN list : n < list[k]
UpTo(list, n) == \A k \in DOMAIN list : list[k] <= n

(* What is left of a list once its first element is taken.                 *)
LEMMA TailRises ==
    ASSUME NEW list \in Seq(Nat), list # << >>, Rising(list)
    PROVE  /\ Tail(list) \in Seq(Nat) /\ Head(list) \in Nat
           /\ Rising(Tail(list)) /\ Above(Tail(list), Head(list))
           /\ \A n \in Nat : Above(list, n) => Above(Tail(list), n) /\ n < Head(list)
           /\ \A n \in Nat : UpTo(list, n) => UpTo(Tail(list), n) /\ Head(list) <= n
<1>1. Len(list) \in Nat \ {0} /\ DOMAIN list = 1 .. Len(list)
  OBVIOUS
<1>2. Head(list) = list[1] /\ Head(list) \in Nat /\ 1 \in DOMAIN list
  BY <1>1
<1>3. Tail(list) \in Seq(Nat) /\ DOMAIN Tail(list) = 1 .. Len(list) - 1
  BY <1>1
<1>4. \A k \in 1 .. Len(list) - 1 : Tail(list)[k] = list[k + 1] /\ k + 1 \in DOMAIN list
  BY <1>1
<1>5. Rising(Tail(list))
  BY <1>1, <1>3, <1>4 DEF Rising
<1>6. Above(Tail(list), Head(list))
  BY <1>1, <1>2, <1>3, <1>4 DEF Rising, Above
<1>7. \A n \in Nat : Above(list, n) => Above(Tail(list), n) /\ n < Head(list)
  BY <1>2, <1>3, <1>4 DEF Above
<1>8. \A n \in Nat : UpTo(list, n) => UpTo(Tail(list), n) /\ Head(list) <= n
  BY <1>2, <1>3, <1>4 DEF UpTo
<1> QED
  BY <1>2, <1>3, <1>5, <1>6, <1>7, <1>8

(* A list with a greater element added at its end.                         *)
LEMMA AppendRises ==
    ASSUME NEW list \in Seq(Nat), NEW x \in Nat, Rising(list), \A k \in DOMAIN list : list[k] < x
    PROVE  /\ Append(list, x) \in Seq(Nat)
           /\ Rising(Append(list, x)) /\ UpTo(Append(list, x), x)
           /\ \A n \in Nat : Above(list, n) /\ n < x => Above(Append(list, x), n)
<1>1. Append(list, x) \in Seq(Nat) /\ DOMAIN Append(list, x) = 1 .. Len(list) + 1
      /\ DOMAIN list = 1 .. Len(list) /\ Len(list) \in Nat
  OBVIOUS
<1>2. \A k \in 1 .. Len(list) : Append(list, x)[k] = list[k] /\ list[k] \in Nat
  OBVIOUS
<1>3. Append(list, x)[Len(list) + 1] = x
  OBVIOUS
<1>4. \A k \in 1 .. Len(list) + 1 : k \in 1 .. Len(list) \/ k = Len(list) + 1
  BY <1>1
<1>5. Rising(Append(list, x))
  BY <1>1, <1>2, <1>3, <1>4 DEF Rising
<1>6. UpTo(Append(list, x), x)
  BY <1>1, <1>2, <1>3, <1>4 DEF UpTo
<1>7. \A n \in Nat : Above(list, n) /\ n < x => Above(Append(list, x), n)
  BY <1>1, <1>2, <1>3, <1>4 DEF Above
<1> QED
  BY <1>1, <1>5, <1>6, <1>7

(* The empty list.                                                         *)
LEMMA EmptyRises ==
    ASSUME NEW n
    PROVE  << >> \in Seq(Nat) /\ Rising(<< >>) /\ Above(<< >>, n) /\ UpTo(<< >>, n)
BY DEF Rising, Above, UpTo

-----------------------------------------------------------------------------
(* The invariant.                                                          *)

Reading == reader \in {"subscribe", "read", "send"}

(* The connection the reader uses is the last one dialed, and there is one *)
(* failure for every one before it.                                        *)
ConnInv ==
    /\ conn \in Nat /\ faults \in Nat /\ faults <= MaxFaults
    /\ conn <= faults + (IF Reading THEN 1 ELSE 0)
    /\ Reading => conn # 0
    /\ subscribed \subseteq 1 .. conn
    /\ reader = "subscribe" => conn \notin subscribed

(* What waits on a connection is in order, and comes after all that was    *)
(* taken, if the reader is to read it.                                     *)
WireInv ==
    /\ clock \in Nat /\ clock <= Len(Published)
    /\ wire \in [Conns -> Seq(Nat)]
    /\ \A c \in Conns : Rising(wire[c]) /\ UpTo(wire[c], clock) /\ Above(wire[c], 0)
    /\ \A c \in Conns : c > conn => wire[c] = << >>
    /\ reader = "subscribe" => wire[conn] = << >>

TakenInv ==
    /\ received \in Seq(Nat)
    /\ Rising(received)
    /\ Last(received) \in Nat /\ Last(received) <= clock
    /\ UpTo(received, Last(received))
    /\ Len(received) <= Last(received)
    /\ held \in Nat /\ held <= clock
    /\ reader = "read" => Above(wire[conn], Last(received))
    /\ reader = "send" => Last(received) < held /\ Above(wire[conn], held)

StreamInv == ConnInv /\ WireInv /\ TakenInv

LEMMA ReaderHasConn ==
    ASSUME ConnInv, Reading
    PROVE  conn \in Conns
BY FaultsAssumption DEF ConnInv, Conns, Reading

LEMMA StreamInit == Init => StreamInv
<1> SUFFICES ASSUME Init PROVE StreamInv
  OBVIOUS
<1>1. ConnInv
  BY FaultsAssumption DEF Init, ConnInv, Reading
<1>2. Len(Published) \in Nat
  BY PublishedAssumption
<1>3. wire \in [Conns -> Seq(Nat)] /\ \A c \in Conns : wire[c] = << >>
  BY EmptyRises DEF Init
<1>4. WireInv
  BY <1>2, <1>3, EmptyRises DEF Init, WireInv
<1>5. received = << >> /\ Last(received) = 0 /\ Len(received) = 0
  BY DEF Init, Last
<1>6. TakenInv
  BY <1>5, EmptyRises DEF Init, TakenInv
<1> QED
  BY <1>1, <1>4, <1>6 DEF StreamInv

(* The exchange publishes a ticker.                                        *)
LEMMA PublishKeeps == StreamInv /\ Publish => StreamInv'
<1> SUFFICES ASSUME StreamInv, Publish PROVE StreamInv'
  OBVIOUS
<1> USE DEF StreamInv
<1>1. /\ UNCHANGED <<subscribed, conn, reader, held, received, faults>>
      /\ clock < Len(Published) /\ clock' = clock + 1
      /\ wire' = [c \in Conns |-> IF c \in subscribed THEN Append(wire[c], clock + 1) ELSE wire[c]]
  BY DEF Publish, stream, ingest
<1>2. Len(Published) \in Nat /\ clock \in Nat
  BY PublishedAssumption DEF WireInv
<1>3. ASSUME NEW c \in Conns
      PROVE  /\ wire'[c] \in Seq(Nat)
             /\ Rising(wire'[c]) /\ UpTo(wire'[c], clock + 1) /\ Above(wire'[c], 0)
             /\ \A n \in Nat : n <= clock /\ Above(wire[c], n) => Above(wire'[c], n)
  <2>1. CASE c \in subscribed
    <3>1. wire'[c] = Append(wire[c], clock + 1)
      BY <1>1, <2>1
    <3>2. wire[c] \in Seq(Nat) /\ Rising(wire[c]) /\ Above(wire[c], 0)
      BY DEF WireInv
    <3>3. \A k \in DOMAIN wire[c] : wire[c][k] < clock + 1
      BY <1>2, <3>2 DEF WireInv, UpTo
    <3> QED
      BY <1>2, <3>1, <3>2, <3>3, AppendRises
  <2>2. CASE c \notin subscribed
    <3>1. wire'[c] = wire[c]
      BY <1>1, <2>2
    <3>2. wire[c] \in Seq(Nat)
      BY DEF WireInv
    <3>3. UpTo(wire[c], clock + 1)
      BY <1>2, <3>2 DEF WireInv, UpTo
    <3> QED
      BY <3>1, <3>2, <3>3 DEF WireInv
  <2> QED
    BY <2>1, <2>2
<1>4. ConnInv'
  BY <1>1 DEF ConnInv, Reading
<1>5. \A c \in Conns : c \notin subscribed => wire'[c] = wire[c]
  BY <1>1
<1>6. WireInv'
  <2>1. \A c \in Conns : c > conn => c \notin subscribed
    BY DEF ConnInv, Conns
  <2>2. reader = "subscribe" => conn \in Conns /\ conn \notin subscribed
    BY ReaderHasConn DEF ConnInv, Reading
  <2>3. wire' \in [Conns -> Seq(Nat)]
    BY <1>1, <1>3
  <2> QED
    BY <1>1, <1>2, <1>3, <1>5, <2>1, <2>2, <2>3 DEF WireInv
<1>7. TakenInv'
  <2>1. Last(received)' = Last(received)
    BY <1>1 DEF Last
  <2>2. reader \in {"read", "send"} => conn \in Conns
    BY ReaderHasConn DEF Reading
  <2> QED
    BY <1>1, <1>2, <1>3, <2>1, <2>2 DEF TakenInv
<1> QED
  BY <1>4, <1>6, <1>7

(* Losing, dialing and subscribing; nothing is taken.                      *)
LEMMA ConnectingKeeps ==
    StreamInv /\ (SilentLoss \/ Dial \/ DialFails \/ Subscribe \/ ReadFails \/ Restart) => StreamInv'
<1> SUFFICES ASSUME StreamInv, SilentLoss \/ Dial \/ DialFails \/ Subscribe \/ ReadFails \/ Restart
             PROVE  StreamInv'
  OBVIOUS
<1> USE DEF StreamInv
<1>1. UNCHANGED <<clock, wire, held, received>>
  BY DEF SilentLoss, Dial, DialFails, Subscribe, ReadFails, Restart, exchange, stream, ingest
<1>2. Last(received)' = Last(received)
  BY <1>1 DEF Last
<1>3. CASE SilentLoss
  <2>1. UNCHANGED <<conn, reader>> /\ subscribed' \subseteq subscribed
        /\ faults < MaxFaults /\ faults' = faults + 1
    BY <1>3 DEF SilentLoss, Fault, stream
  <2>2. ConnInv'
    BY <2>1, FaultsAssumption DEF ConnInv, Reading
  <2>3. WireInv' /\ TakenInv'
    BY <1>1, <1>2, <2>1 DEF WireInv, TakenInv
  <2> QED
    BY <2>2, <2>3
<1>4. CASE Dial
  <2>1. reader = "dial" /\ reader' = "subscribe" /\ conn' = conn + 1 /\ UNCHANGED <<subscribed, faults>>
    BY <1>4 DEF Dial, exchange
  <2>2. ConnInv'
    BY <2>1 DEF ConnInv, Reading
  <2>3. conn + 1 \in Conns
    BY <2>1, FaultsAssumption DEF ConnInv, Conns, Reading
  <2>4. WireInv'
    BY <1>1, <2>1, <2>3 DEF WireInv, ConnInv, Conns
  <2>5. TakenInv'
    BY <1>1, <1>2, <2>1 DEF TakenInv
  <2> QED
    BY <2>2, <2>4, <2>5
<1>5. CASE DialFails
  <2>1. UNCHANGED <<conn, reader, subscribed>> /\ faults < MaxFaults /\ faults' = faults + 1
    BY <1>5 DEF DialFails, Fault, stream, exchange
  <2>2. ConnInv'
    BY <2>1, FaultsAssumption DEF ConnInv, Reading
  <2>3. WireInv' /\ TakenInv'
    BY <1>1, <1>2, <2>1 DEF WireInv, TakenInv
  <2> QED
    BY <2>2, <2>3
<1>6. CASE Subscribe
  <2>1. reader = "subscribe" /\ reader' = "read" /\ subscribed' = subscribed \union {conn}
        /\ UNCHANGED <<conn, faults>>
    BY <1>6 DEF Subscribe
  <2>2. ConnInv'
    BY <2>1 DEF ConnInv, Reading
  <2>3. WireInv'
    BY <1>1, <2>1 DEF WireInv
  <2>4. wire[conn] = << >>
    BY <2>1 DEF WireInv
  <2>5. TakenInv'
    BY <1>1, <1>2, <2>1, <2>4, EmptyRises DEF TakenInv
  <2> QED
    BY <2>2, <2>3, <2>5
<1>7. CASE ReadFails
  <2>1. reader = "read" /\ reader' = "dial" /\ subscribed' \subseteq subscribed /\ UNCHANGED conn
        /\ faults < MaxFaults /\ faults' = faults + 1
    BY <1>7 DEF ReadFails, Fault
  <2>2. ConnInv'
    BY <2>1, FaultsAssumption DEF ConnInv, Reading
  <2>3. WireInv' /\ TakenInv'
    BY <1>1, <1>2, <2>1 DEF WireInv, TakenInv
  <2> QED
    BY <2>2, <2>3
<1>8. CASE Restart
  <2>1. reader = "exited" /\ reader' = "dial" /\ UNCHANGED <<conn, faults, subscribed>>
    BY <1>8 DEF Restart, Exited, exchange
  <2>2. ConnInv'
    BY <2>1 DEF ConnInv, Reading
  <2>3. WireInv' /\ TakenInv'
    BY <1>1, <1>2, <2>1 DEF WireInv, TakenInv
  <2> QED
    BY <2>2, <2>3
<1> QED
  BY <1>3, <1>4, <1>5, <1>6, <1>7, <1>8

(* Reading takes the oldest message off the connection in use.             *)
LEMMA ReadingKeeps == StreamInv /\ (Read \/ ReadOther) => StreamInv'
<1> SUFFICES ASSUME StreamInv, Read \/ ReadOther PROVE StreamInv'
  OBVIOUS
<1> USE DEF StreamInv
<1>1. /\ reader = "read" /\ wire[conn] # << >>
      /\ wire' = [wire EXCEPT ![conn] = Tail(@)]
      /\ UNCHANGED <<clock, subscribed, conn, received>>
      /\ \/ reader' = "send" /\ held' = Head(wire[conn]) /\ faults' = faults
         \/ reader' = reader /\ held' = held /\ faults < MaxFaults /\ faults' = faults + 1
  BY DEF Read, ReadOther, OnWire, Fault, stream, ingest
<1>2. conn \in Conns
  BY <1>1, ReaderHasConn DEF Reading
<1>3. wire[conn] \in Seq(Nat) /\ Rising(wire[conn]) /\ UpTo(wire[conn], clock)
      /\ Above(wire[conn], 0) /\ Above(wire[conn], Last(received))
      /\ clock \in Nat /\ Last(received) \in Nat /\ wire \in [Conns -> Seq(Nat)]
  BY <1>1, <1>2 DEF WireInv, TakenInv
<1>4. /\ Tail(wire[conn]) \in Seq(Nat) /\ Rising(Tail(wire[conn]))
      /\ UpTo(Tail(wire[conn]), clock) /\ Above(Tail(wire[conn]), 0)
      /\ Above(Tail(wire[conn]), Last(received)) /\ Above(Tail(wire[conn]), Head(wire[conn]))
      /\ Head(wire[conn]) \in Nat /\ Head(wire[conn]) <= clock /\ Last(received) < Head(wire[conn])
  BY <1>1, <1>3, TailRises
<1>5. wire'[conn] = Tail(wire[conn]) /\ \A c \in Conns \ {conn} : wire'[c] = wire[c]
  BY <1>1, <1>2, <1>3
<1>6. ConnInv'
  BY <1>1, FaultsAssumption DEF ConnInv, Reading
<1>7. WireInv'
  <2>1. wire' \in [Conns -> Seq(Nat)]
    BY <1>1, <1>2, <1>3, <1>4
  <2>2. \A c \in Conns : Rising(wire'[c]) /\ UpTo(wire'[c], clock) /\ Above(wire'[c], 0)
    BY <1>4, <1>5 DEF WireInv
  <2>3. \A c \in Conns : c > conn => wire'[c] = << >>
    BY <1>2, <1>5 DEF WireInv, Conns, ConnInv
  <2> QED
    BY <1>1, <1>3, <2>1, <2>2, <2>3 DEF WireInv
<1>8. Last(received)' = Last(received)
  BY <1>1 DEF Last
<1>9. TakenInv'
  BY <1>1, <1>4, <1>5, <1>8 DEF TakenInv
<1> QED
  BY <1>6, <1>7, <1>9

(* The channel: the ticker at hand is later than all taken before it.      *)
LEMMA DeliverKeeps == StreamInv /\ Deliver => StreamInv'
<1> SUFFICES ASSUME StreamInv, Deliver PROVE StreamInv'
  OBVIOUS
<1> USE DEF StreamInv
<1>1. /\ reader = "send" /\ reader' = "read" /\ held' = 0
      /\ received' = Append(received, held)
      /\ UNCHANGED <<clock, subscribed, wire, conn, faults>>
  BY DEF Deliver, exchange
<1>2. /\ received \in Seq(Nat) /\ held \in Nat /\ Rising(received) /\ UpTo(received, Last(received))
      /\ Last(received) \in Nat /\ Last(received) < held /\ Len(received) <= Last(received)
      /\ clock \in Nat /\ held <= clock /\ Above(wire[conn], held)
  BY <1>1 DEF TakenInv, WireInv
<1>3. \A k \in DOMAIN received : received[k] < held
  BY <1>2 DEF UpTo
<1>4. received' \in Seq(Nat) /\ Rising(received') /\ UpTo(received', held)
  BY <1>1, <1>2, <1>3, AppendRises
<1>5. received' # << >> /\ Len(received') = Len(received) + 1 /\ received'[Len(received')] = held
  BY <1>1, <1>2
<1>6. Last(received)' = held
  BY <1>5 DEF Last
<1>7. Len(received') <= held
  BY <1>2, <1>5
<1>8. ConnInv' /\ WireInv'
  BY <1>1 DEF ConnInv, WireInv, Reading
<1>9. TakenInv'
  BY <1>1, <1>2, <1>4, <1>6, <1>7 DEF TakenInv
<1> QED
  BY <1>8, <1>9

(* The end of the process leaves no connection behind.                     *)
LEMMA ProcessEndKeeps == StreamInv /\ (SubscribeFails \/ ReadCandlesPanics) => StreamInv'
<1> SUFFICES ASSUME StreamInv, SubscribeFails \/ ReadCandlesPanics PROVE StreamInv'
  OBVIOUS
<1> USE DEF StreamInv
<1>1. /\ reader' = "exited" /\ held' = 0 /\ conn' = 0 /\ subscribed' = {}
      /\ wire' = [c \in Conns |-> << >>]
      /\ UNCHANGED <<clock, received>>
      /\ faults < MaxFaults /\ faults' = faults + 1
  BY DEF SubscribeFails, ReadCandlesPanics, ProcessEnds, Fault
<1>2. ConnInv'
  BY <1>1, FaultsAssumption DEF ConnInv, Reading
<1>3. wire' \in [Conns -> Seq(Nat)] /\ \A c \in Conns : wire'[c] = << >>
  BY <1>1, EmptyRises
<1>4. WireInv'
  BY <1>1, <1>3, EmptyRises DEF WireInv
<1>5. Last(received)' = Last(received)
  BY <1>1 DEF Last
<1>6. TakenInv'
  BY <1>1, <1>5 DEF TakenInv, WireInv
<1> QED
  BY <1>2, <1>4, <1>6

(* The other goroutines leave the stream alone.                            *)
StreamKept ==
    /\ UNCHANGED <<clock, subscribed, wire, conn, reader, held, received>>
    /\ faults' = faults \/ (faults < MaxFaults /\ faults' = faults + 1)

LEMMA OthersKeep == StreamInv /\ StreamKept => StreamInv'
<1> SUFFICES ASSUME StreamInv, StreamKept PROVE StreamInv'
  OBVIOUS
<1>1. Last(received)' = Last(received)
  BY DEF StreamKept, Last
<1>2. ConnInv'
  BY FaultsAssumption DEF StreamKept, StreamInv, ConnInv, Reading
<1>3. WireInv' /\ TakenInv'
  BY <1>1 DEF StreamKept, StreamInv, WireInv, TakenInv
<1> QED
  BY <1>2, <1>3 DEF StreamInv

LEMMA StreamNext == StreamInv /\ [Next]_vars => StreamInv'
<1> SUFFICES ASSUME StreamInv, [Next]_vars PROVE StreamInv'
  OBVIOUS
<1>1. CASE Publish
  BY <1>1, PublishKeeps
<1>2. CASE ReaderStep
  BY <1>2, ConnectingKeeps, ReadingKeeps, DeliverKeeps DEF ReaderStep
<1>3. CASE NextDuration \/ Assign \/ TraderStep
  <2>1. StreamKept
    BY <1>3 DEF StreamKept, NextDuration, Assign, TraderStep, ReadCandles, Copy, Traded, exchange, stream, ingest
  <2> QED
    BY <2>1, OthersKeep
<1>4. CASE Enter
  <2>1. UNCHANGED <<clock, subscribed, wire, conn, reader, held, received>>
    BY <1>4 DEF Enter, exchange, stream
  <2>2. faults' = faults \/ (faults < MaxFaults /\ faults' = faults + 1)
    BY <1>4 DEF Enter, Fault
  <2> QED
    BY <2>1, <2>2, OthersKeep DEF StreamKept
<1>6. CASE Failure
  BY <1>6, ConnectingKeeps, ReadingKeeps, ProcessEndKeeps DEF Failure
<1>7. CASE Restart
  BY <1>7, ConnectingKeeps
<1>8. CASE UNCHANGED vars
  <2>1. StreamKept
    BY <1>8 DEF StreamKept, vars, exchange, stream, ingest
  <2> QED
    BY <2>1, OthersKeep
<1> QED
  BY <1>1, <1>2, <1>3, <1>4, <1>6, <1>7, <1>8 DEF Next, IngestStep

(* Over reconnects and restarts, and with connections left open that go on *)
(* receiving, no ticker is taken twice or after a later one.               *)
THEOREM ReceivedOrdered == Spec => []ReceivedInOrder
<1>1. StreamInv => ReceivedInOrder
  BY DEF StreamInv, TakenInv, ReceivedInOrder, Rising
<1> QED
  BY <1>1, StreamInit, StreamNext, PTL DEF Spec

-----------------------------------------------------------------------------
(* The stream and the tables together implement Candles.                   *)

(* What Candles sees of a ticker is what was published.                    *)
SeenInv ==
    /\ seen \in Seq([time : Nat, price : Prices]) /\ Len(seen) = Len(received)
    /\ seen # << >> => seen[Len(seen)] = Published[Last(received)]
    /\ todo \subseteq Durations
    /\ losses \in Nat /\ losses <= faults

TablesInv == StreamInv /\ SeenInv

LEMMA ElementOfSeq ==
    ASSUME NEW S, NEW list \in Seq(S), NEW k \in 1 .. Len(list)
    PROVE  list[k] \in S
  OBVIOUS

LEMMA PublishedTicker ==
    ASSUME NEW k \in Tickers
    PROVE  /\ Published[k] \in [time : Nat, price : Prices]
           /\ Published[k].time \in 0 .. IF Published = << >> THEN 0
                                         ELSE Published[Len(Published)].time
<1>1. Published \in Seq([time : Nat, price : Prices]) /\ Len(Published) \in Nat
  BY PublishedAssumption
<1>2. k \in 1 .. Len(Published) /\ DOMAIN Published = 1 .. Len(Published)
  BY <1>1 DEF Tickers
<1>3. Len(Published) \in 1 .. Len(Published) /\ k <= Len(Published) /\ Published # << >>
  BY <1>1, <1>2
<1>4. Published[k] \in [time : Nat, price : Prices]
      /\ Published[Len(Published)] \in [time : Nat, price : Prices]
  BY <1>1, <1>2, <1>3, ElementOfSeq
<1>5. Published[k].time <= Published[Len(Published)].time
  BY <1>2, <1>3, PublishedAssumption
<1>6. Published[k].time \in Nat /\ Published[Len(Published)].time \in Nat
  BY <1>4
<1> QED
  BY <1>3, <1>4, <1>5, <1>6

(* The ticker at hand can be taken: there are as many as the last one's    *)
(* place at most.                                                          *)
LEMMA HeldTicker ==
    ASSUME StreamInv, Deliver
    PROVE  /\ held \in Tickers /\ Len(received) < Len(Published)
           /\ received # << >> => Last(received) \in Tickers /\ Last(received) < held
<1>1. /\ held \in Nat /\ Last(received) \in Nat /\ Last(received) < held
      /\ Len(received) \in Nat /\ Len(received) <= Last(received)
      /\ held <= Len(Published) /\ Len(Published) \in Nat
  BY PublishedAssumption DEF Deliver, StreamInv, TakenInv, WireInv
<1>2. received # << >> => Len(received) > 0
  BY DEF StreamInv, TakenInv
<1> QED
  BY <1>1, <1>2 DEF Tickers

(* Taking a ticker is the Receive of Candles.                              *)
LEMMA DeliverReceives ==
    ASSUME TablesInv, Deliver
    PROVE  Tables!Receive /\ SeenInv'
<1>1. /\ todo = {} /\ received' = Append(received, held)
      /\ seen' = Append(seen, Published[held]) /\ todo' = Durations
      /\ UNCHANGED <<table, losses, faults>>
  BY DEF Deliver, TakesNext
<1>2. /\ held \in Tickers /\ Len(received) < Len(Published)
      /\ received # << >> => Last(received) \in Tickers /\ Last(received) < held
  BY HeldTicker DEF TablesInv
<1>3. /\ seen \in Seq([time : Nat, price : Prices]) /\ Len(seen) = Len(received)
      /\ received \in Seq(Nat) /\ held \in Nat
      /\ seen # << >> => seen[Len(seen)] = Published[Last(received)]
  BY DEF TablesInv, SeenInv, StreamInv, TakenInv
<1>4. Published[held] \in [time : Nat, price : Prices]
  BY <1>2, PublishedTicker
<1>5. seen # << >> => seen[Len(seen)].time <= Published[held].time
  <2> SUFFICES ASSUME seen # << >> PROVE seen[Len(seen)].time <= Published[held].time
    OBVIOUS
  <2>1. received # << >>
    BY <1>3
  <2>2. Last(received) \in DOMAIN Published /\ held \in DOMAIN Published /\ Last(received) <= held
    BY <1>2, <2>1, PublishedAssumption DEF Tickers
  <2> QED
    BY <1>3, <2>2, PublishedAssumption
<1>6. Tables!Receive
  <2> DEFINE time == Published[held].time
             price == Published[held].price
  <2>1. price \in Prices /\ Published[held] = [time |-> time, price |-> price]
    BY <1>4
  <2>2. time \in 0 .. IF Published = << >> THEN 0 ELSE Published[Len(Published)].time
    BY <1>2, PublishedTicker
  <2>3. seen' = Append(seen, [time |-> time, price |-> price])
    BY <1>1, <2>1
  <2>4. Len(seen) < Len(Published)
    BY <1>2, <1>3
  <2> HIDE DEF time, price
  <2>5. seen # << >> => seen[Len(seen)].time <= time
    BY <1>5 DEF time
  <2> QED
    BY <1>1, <2>1, <2>2, <2>3, <2>4, <2>5 DEF Tables!Receive, Tables!ticker
<1>7. SeenInv'
  <2>1. seen' \in Seq([time : Nat, price : Prices]) /\ Len(seen') = Len(seen) + 1
        /\ seen'[Len(seen')] = Published[held]
    BY <1>1, <1>3, <1>4
  <2>2. Len(received') = Len(received) + 1 /\ received'[Len(received')] = held
        /\ received' # << >>
    BY <1>1, <1>3
  <2>3. Last(received)' = held
    BY <2>2 DEF Last
  <2> QED
    BY <1>1, <1>3, <2>1, <2>2, <2>3 DEF TablesInv, SeenInv
<1> QED
  BY <1>6, <1>7

(* A duration entered, or the statement of one failed.                     *)
LEMMA EnterRefines ==
    ASSUME TablesInv, Enter
    PROVE  Tables!Next /\ SeenInv'
<1>1. entering \in Durations /\ entering \in todo /\ UNCHANGED received
  BY DEF Enter, TablesInv, SeenInv
<1>2. losses \in Nat /\ losses <= faults /\ faults \in Nat /\ MaxFaults \in Nat
  BY FaultsAssumption DEF TablesInv, StreamInv, ConnInv, SeenInv
<1>3. CASE Tables!CreateCandleWithDuration(entering) /\ UNCHANGED faults
  <2>1. UNCHANGED <<seen, losses, faults>> /\ todo' = todo \ {entering}
    BY <1>3 DEF Tables!CreateCandleWithDuration
  <2>2. SeenInv'
    BY <1>1, <2>1 DEF TablesInv, SeenInv, Last
  <2> QED
    BY <1>1, <1>3, <2>2 DEF Tables!Next
<1>4. CASE Tables!StatementFails(entering) /\ Fault
  <2>1. UNCHANGED seen /\ todo' = todo \ {entering}
        /\ losses' = losses + 1 /\ faults' = faults + 1
    BY <1>4 DEF Tables!StatementFails, Fault
  <2>2. SeenInv'
    BY <1>1, <1>2, <2>1 DEF TablesInv, SeenInv, Last
  <2> QED
    BY <1>1, <1>4, <2>2 DEF Tables!Next
<1> QED
  BY <1>3, <1>4 DEF Enter

(* The end of the process is the Restart of Candles if it cuts a ticker    *)
(* short, and leaves the tables alone otherwise.                           *)
LEMMA ProcessEndRefines ==
    ASSUME TablesInv, Fault, ProcessEnds
    PROVE  (Tables!Next \/ UNCHANGED tables) /\ SeenInv'
<1>1. losses \in Nat /\ losses <= faults /\ faults \in Nat
      /\ faults' = faults + 1 /\ UNCHANGED received
  BY DEF TablesInv, StreamInv, ConnInv, SeenInv, Fault, ProcessEnds
<1>2. CASE Tables!Restart
  <2>1. UNCHANGED seen /\ todo' = {} /\ losses' = losses + 1
    BY <1>2 DEF Tables!Restart
  <2>2. SeenInv'
    BY <1>1, <2>1 DEF TablesInv, SeenInv, Last
  <2> QED
    BY <1>2, <2>2 DEF Tables!Next
<1>3. CASE UNCHANGED tables
  <2>1. UNCHANGED <<seen, todo, losses>>
    BY <1>3 DEF tables
  <2>2. SeenInv'
    BY <1>1, <2>1 DEF TablesInv, SeenInv, Last
  <2> QED
    BY <1>3, <2>2
<1> QED
  BY <1>2, <1>3 DEF ProcessEnds

TablesKept ==
    /\ UNCHANGED <<seen, todo, table, losses, received>>
    /\ (faults' = faults \/ Fault)

LEMMA TablesKeptRefines ==
    ASSUME TablesInv, TablesKept
    PROVE  UNCHANGED tables /\ SeenInv'
<1>1. losses \in Nat /\ losses <= faults /\ faults \in Nat
      /\ (faults' = faults \/ faults' = faults + 1)
  BY DEF TablesInv, StreamInv, ConnInv, SeenInv, TablesKept, Fault
<1> QED
  BY <1>1 DEF TablesInv, SeenInv, TablesKept, tables, Last

LEMMA TablesInit == Init => TablesInv /\ Tables!Init
<1> SUFFICES ASSUME Init PROVE TablesInv /\ Tables!Init
  OBVIOUS
<1>1. StreamInv
  BY StreamInit
<1>2. SeenInv /\ Tables!Init
  BY DEF Init, SeenInv, Tables!Init
<1> QED
  BY <1>1, <1>2 DEF TablesInv

LEMMA TablesNext ==
    ASSUME TablesInv, [Next]_vars
    PROVE  TablesInv' /\ [Tables!Next]_(Tables!vars)
<1>1. StreamInv'
  BY StreamNext DEF TablesInv
<1>2. (Tables!Next \/ UNCHANGED tables) /\ SeenInv'
  <2>1. CASE Deliver
    BY <2>1, DeliverReceives DEF Tables!Next
  <2>2. CASE Enter
    BY <2>2, EnterRefines
  <2>3. CASE SubscribeFails \/ ReadCandlesPanics
    BY <2>3, ProcessEndRefines DEF SubscribeFails, ReadCandlesPanics
  <2>4. CASE \/ Publish \/ Dial \/ Subscribe \/ Read \/ NextDuration \/ Assign
             \/ TraderStep \/ Restart
    <3>1. TablesKept
      BY <2>4
      DEF TablesKept, Publish, Dial, Subscribe, Read, NextDuration, Assign, TraderStep,
          ReadCandles, Copy, Traded, Restart, ingest, tables
    <3> QED
      BY <3>1, TablesKeptRefines
  <2>5. CASE SilentLoss \/ DialFails \/ ReadOther \/ ReadFails
    <3>1. TablesKept
      BY <2>5 DEF TablesKept, SilentLoss, DialFails, ReadOther, ReadFails, ingest, tables
    <3> QED
      BY <3>1, TablesKeptRefines
  <2>6. CASE UNCHANGED vars
    <3>1. TablesKept
      BY <2>6 DEF TablesKept, vars, ingest, tables
    <3> QED
      BY <3>1, TablesKeptRefines
  <2> QED
    BY <2>1, <2>2, <2>3, <2>4, <2>5, <2>6 DEF Next, ReaderStep, IngestStep, Failure
<1> QED
  BY <1>1, <1>2 DEF TablesInv, tables, Tables!vars

(* bitflyerController.go: whatever fails in the stream, the tables are fed *)
(* as Candles demands, so that what is proved of Candles holds of them.    *)
THEOREM FeedImplementsCandles == Spec => ImplementsCandles
  BY TablesInit, TablesNext, PTL DEF Spec, ImplementsCandles, Tables!Spec

-----------------------------------------------------------------------------
(* Nothing is skipped, as long as nothing fails.                           *)

(* Without failures the wire holds the tickers published last, and before  *)
(* them came the one at hand, and those taken.                             *)
Latest == IF held # 0 THEN held ELSE Last(received)

Consecutive(list) == \A k \in 1 .. Len(list) - 1 : list[k + 1] = list[k] + 1
UpToNewest(list, n) == \A k \in 1 .. Len(list) : list[k] = n - Len(list) + k

NoGap ==
    /\ Consecutive(received)
    /\ reader \in {"dial", "subscribe"} =>
        /\ subscribed = {} /\ received = << >> /\ held = 0
        /\ \A c \in Conns : wire[c] = << >>
    /\ reader \in {"read", "send"} =>
        /\ conn \in subscribed /\ UpToNewest(wire[conn], clock)
        /\ Latest # 0 => Latest = clock - Len(wire[conn])
    /\ reader = "send" /\ received # << >> => held = Last(received) + 1
    /\ reader = "read" => held = 0
    /\ reader # "exited"

GapInv == faults = 0 => NoGap

LEMMA AppendNewest ==
    ASSUME NEW list \in Seq(Nat), NEW n \in Nat, UpToNewest(list, n)
    PROVE  /\ UpToNewest(Append(list, n + 1), n + 1)
           /\ (n + 1) - Len(Append(list, n + 1)) = n - Len(list)
<1>1. /\ Len(list) \in Nat /\ Len(Append(list, n + 1)) = Len(list) + 1
      /\ Append(list, n + 1)[Len(list) + 1] = n + 1
      /\ \A k \in 1 .. Len(list) : Append(list, n + 1)[k] = list[k]
  OBVIOUS
<1>2. \A k \in 1 .. Len(list) + 1 : k \in 1 .. Len(list) \/ k = Len(list) + 1
  BY <1>1
<1>3. \A k \in 1 .. Len(list) : list[k] = n - Len(list) + k
  BY DEF UpToNewest
<1>4. \A k \in 1 .. Len(list) + 1 : Append(list, n + 1)[k] = (n + 1) - (Len(list) + 1) + k
  BY <1>1, <1>2, <1>3
<1>5. UpToNewest(Append(list, n + 1), n + 1)
  BY <1>1, <1>4 DEF UpToNewest
<1> QED
  BY <1>1, <1>5

LEMMA TailNewest ==
    ASSUME NEW list \in Seq(Nat), NEW n \in Nat, UpToNewest(list, n), list # << >>
    PROVE  /\ UpToNewest(Tail(list), n)
           /\ n - Len(Tail(list)) = Head(list)
           /\ n - Len(list) = Head(list) - 1
<1>1. Len(list) \in Nat \ {0} /\ Head(list) = list[1] /\ Head(list) \in Nat
  OBVIOUS
<1>2. /\ Tail(list) \in Seq(Nat) /\ Len(Tail(list)) = Len(list) - 1
      /\ \A k \in 1 .. Len(list) - 1 : Tail(list)[k] = list[k + 1] /\ k + 1 \in 1 .. Len(list)
  BY <1>1
<1>3. \A k \in 1 .. Len(list) : list[k] = n - Len(list) + k
  BY DEF UpToNewest
<1>4. \A k \in 1 .. Len(list) - 1 : Tail(list)[k] = n - (Len(list) - 1) + k
  BY <1>1, <1>2, <1>3
<1>5. UpToNewest(Tail(list), n)
  BY <1>2, <1>4 DEF UpToNewest
<1>6. Head(list) = n - Len(list) + 1
  BY <1>1, <1>3
<1> QED
  BY <1>1, <1>2, <1>5, <1>6

LEMMA GapInit == Init => GapInv
  BY DEF Init, GapInv, NoGap, Consecutive

(* A ticker more on the wire.                                              *)
LEMMA GapPublish == StreamInv /\ GapInv /\ Publish => GapInv'
<1> SUFFICES ASSUME StreamInv, NoGap, Publish PROVE NoGap'
  BY DEF GapInv, Publish
<1>1. /\ UNCHANGED <<subscribed, conn, reader, held, received>> /\ clock' = clock + 1
      /\ wire' = [c \in Conns |-> IF c \in subscribed THEN Append(wire[c], clock + 1)
                                                      ELSE wire[c]]
  BY DEF Publish, stream, ingest
<1>2. clock \in Nat /\ wire \in [Conns -> Seq(Nat)]
  BY DEF StreamInv, WireInv
<1>3. Last(received)' = Last(received) /\ Latest' = Latest /\ Consecutive(received)'
  BY <1>1 DEF Last, Latest, NoGap, Consecutive
<1>4. ASSUME reader \in {"read", "send"}
      PROVE  UpToNewest(wire'[conn], clock') /\ (Latest # 0 => Latest = clock' - Len(wire'[conn]))
  <2>1. conn \in Conns /\ conn \in subscribed
    BY <1>4, ReaderHasConn DEF StreamInv, NoGap, Reading
  <2>2. wire'[conn] = Append(wire[conn], clock + 1) /\ wire[conn] \in Seq(Nat)
    BY <1>1, <1>2, <2>1
  <2>3. UpToNewest(wire[conn], clock)
    BY <1>4 DEF NoGap
  <2>4. /\ UpToNewest(wire'[conn], clock')
        /\ clock' - Len(wire'[conn]) = clock - Len(wire[conn])
    BY <1>1, <1>2, <2>2, <2>3, AppendNewest
  <2> QED
    BY <1>4, <2>4 DEF NoGap
<1>5. reader \in {"dial", "subscribe"} => \A c \in Conns : wire'[c] = wire[c]
  BY <1>1 DEF NoGap
<1> QED
  BY <1>1, <1>3, <1>4, <1>5 DEF NoGap

(* The oldest ticker on the wire is read: the one after the latest.        *)
LEMMA GapRead == StreamInv /\ GapInv /\ Read => GapInv'
<1> SUFFICES ASSUME StreamInv, NoGap, Read PROVE NoGap'
  BY DEF GapInv, Read
<1>1. /\ reader = "read" /\ reader' = "send" /\ wire[conn] # << >>
      /\ held' = Head(wire[conn]) /\ wire' = [wire EXCEPT ![conn] = Tail(@)]
      /\ UNCHANGED <<clock, subscribed, conn, received>>
  BY DEF Read, OnWire, ingest
<1>2. conn \in Conns /\ conn \in subscribed /\ held = 0
  BY <1>1, ReaderHasConn DEF StreamInv, NoGap, Reading
<1>3. clock \in Nat /\ wire[conn] \in Seq(Nat) /\ wire'[conn] = Tail(wire[conn])
  BY <1>1, <1>2 DEF StreamInv, WireInv
<1>4. UpToNewest(wire[conn], clock)
  BY <1>1 DEF NoGap
<1>5. /\ UpToNewest(wire'[conn], clock')
      /\ clock' - Len(wire'[conn]) = held'
      /\ clock - Len(wire[conn]) = held' - 1
  BY <1>1, <1>3, <1>4, TailNewest
<1>6. held' \in Nat \ {0}
  BY <1>1, <1>2, <1>3, TailRises DEF StreamInv, WireInv
<1>7. Last(received)' = Last(received) /\ Consecutive(received)'
  BY <1>1 DEF Last, NoGap, Consecutive
<1>8. received # << >> => held' = Last(received) + 1
  <2> SUFFICES ASSUME received # << >> PROVE held' = Last(received) + 1
    OBVIOUS
  <2>1. Last(received) # 0
    BY DEF StreamInv, TakenInv
  <2>2. Last(received) = clock - Len(wire[conn])
    BY <1>1, <1>2, <2>1 DEF NoGap, Latest
  <2> QED
    BY <1>5, <1>6, <2>2
<1>9. Latest' = held'
  BY <1>6 DEF Latest
<1> QED
  BY <1>1, <1>2, <1>5, <1>7, <1>8, <1>9 DEF NoGap

(* The ticker at hand is taken.                                            *)
LEMMA GapDeliver == StreamInv /\ GapInv /\ Deliver => GapInv'
<1> SUFFICES ASSUME StreamInv, NoGap, Deliver PROVE NoGap'
  BY DEF GapInv, Deliver
<1>1. /\ reader = "send" /\ reader' = "read" /\ held' = 0
      /\ received' = Append(received, held)
      /\ UNCHANGED <<clock, subscribed, wire, conn>>
  BY DEF Deliver, exchange
<1>2. received \in Seq(Nat) /\ held \in Nat \ {0}
  BY <1>1 DEF StreamInv, TakenInv
<1>3. /\ Len(received) \in Nat /\ Len(received') = Len(received) + 1 /\ received' # << >>
      /\ received'[Len(received) + 1] = held
      /\ \A k \in 1 .. Len(received) : received'[k] = received[k]
  BY <1>1, <1>2
<1>4. Last(received)' = held /\ Latest' = held /\ Latest = held
  BY <1>1, <1>2, <1>3 DEF Last, Latest
<1>5. Consecutive(received)'
  <2> SUFFICES ASSUME NEW k \in 1 .. Len(received) PROVE received'[k + 1] = received'[k] + 1
    BY <1>3 DEF Consecutive
  <2>1. CASE k = Len(received)
    <3>1. received # << >> /\ Last(received) = received[k]
      BY <1>2, <2>1 DEF Last
    <3> QED
      BY <1>1, <1>3, <2>1, <3>1 DEF NoGap
  <2>2. CASE k # Len(received)
    <3>1. k \in 1 .. Len(received) - 1 /\ k + 1 \in 1 .. Len(received)
      BY <1>3, <2>2
    <3> QED
      BY <1>3, <3>1 DEF NoGap, Consecutive
  <2> QED
    BY <2>1, <2>2
<1>6. conn \in subscribed /\ UpToNewest(wire[conn], clock) /\ held = clock - Len(wire[conn])
  BY <1>1, <1>2, <1>4 DEF NoGap
<1>7. UpToNewest(wire'[conn], clock')
  BY <1>1, <1>6 DEF UpToNewest
<1> QED
  BY <1>1, <1>4, <1>5, <1>6, <1>7 DEF NoGap

LEMMA GapNext == StreamInv /\ GapInv /\ [Next]_vars => GapInv'
<1> SUFFICES ASSUME StreamInv, GapInv, [Next]_vars PROVE GapInv'
  OBVIOUS
<1>1. ASSUME StreamKept PROVE GapInv'
  <2> SUFFICES ASSUME faults' = 0 PROVE NoGap'
    BY DEF GapInv
  <2>1. faults = 0 /\ Last(received)' = Last(received) /\ Latest' = Latest
    BY <1>1 DEF StreamKept, StreamInv, ConnInv, Last, Latest
  <2> QED
    BY <1>1, <2>1 DEF StreamKept, GapInv, NoGap, Consecutive, UpToNewest
<1>2. CASE Publish
  BY <1>2, GapPublish
<1>3. CASE Read
  BY <1>3, GapRead
<1>4. CASE Deliver
  BY <1>4, GapDeliver
<1>5. CASE Dial
  <2> SUFFICES ASSUME NoGap PROVE NoGap'
    BY <1>5 DEF GapInv, Dial
  <2>1. /\ reader = "dial" /\ reader' = "subscribe"
        /\ UNCHANGED <<clock, subscribed, wire, held, received>>
    BY <1>5 DEF Dial, exchange, ingest
  <2> QED
    BY <2>1 DEF NoGap, Consecutive
<1>6. CASE Subscribe
  <2> SUFFICES ASSUME NoGap PROVE NoGap'
    BY <1>6 DEF GapInv, Subscribe
  <2>1. /\ reader = "subscribe" /\ reader' = "read" /\ subscribed' = subscribed \union {conn}
        /\ UNCHANGED <<clock, wire, conn, held, received>>
    BY <1>6 DEF Subscribe, ingest
  <2>2. conn \in Conns
    BY <2>1, ReaderHasConn DEF StreamInv, Reading
  <2>3. wire[conn] = << >> /\ held = 0 /\ received = << >>
    BY <2>1, <2>2 DEF NoGap
  <2>4. Latest' = 0 /\ UpToNewest(wire'[conn], clock')
    BY <2>1, <2>3 DEF Latest, Last, UpToNewest
  <2> QED
    BY <2>1, <2>3, <2>4 DEF NoGap, Consecutive
<1>7. CASE NextDuration \/ Assign \/ Enter \/ TraderStep
  <2>1. /\ UNCHANGED <<clock, subscribed, wire, conn, reader, held, received>>
        /\ UNCHANGED faults \/ Fault
    BY <1>7 DEF NextDuration, Assign, Enter, TraderStep, ReadCandles, Copy, Traded, exchange,
                stream, ingest
  <2> QED
    BY <1>1, <2>1 DEF StreamKept, Fault
<1>8. CASE Failure
  <2>1. faults' = faults + 1 /\ faults \in Nat
    BY <1>8 DEF Failure, SilentLoss, DialFails, SubscribeFails, ReadOther, ReadFails,
                ReadCandlesPanics, Fault, StreamInv, ConnInv
  <2> QED
    BY <2>1 DEF GapInv
<1>9. CASE Restart
  BY <1>9 DEF Restart, Exited, GapInv, NoGap
<1>10. CASE UNCHANGED vars
  <2>1. StreamKept
    BY <1>10 DEF StreamKept, vars, exchange, stream, ingest
  <2> QED
    BY <1>1, <2>1
<1> QED
  BY <1>2, <1>3, <1>4, <1>5, <1>6, <1>7, <1>8, <1>9, <1>10 DEF Next, ReaderStep, IngestStep

(* As long as nothing fails, no ticker is lost between the exchange and    *)
(* the tables, however far the loop that enters them is behind             *)
(* (ticker.go, GetRealTimeTicker; the channel without a buffer).           *)
THEOREM NothingSkippedTheorem == Spec => []NothingSkipped
<1>1. GapInv => NothingSkipped
  BY DEF GapInv, NoGap, Consecutive, NothingSkipped
<1>2. Init => StreamInv /\ GapInv
  BY StreamInit, GapInit
<1>3. StreamInv /\ GapInv /\ [Next]_vars => (StreamInv /\ GapInv)'
  BY StreamNext, GapNext
<1> QED
  BY <1>1, <1>2, <1>3, PTL DEF Spec

-----------------------------------------------------------------------------
(* The ticker Trade is called with is as new as the tables.                *)

(* Where the loop that enters tickers is.                                  *)
EnteringInv ==
    /\ todo \subseteq Durations /\ unwritten \subseteq Word
    /\ entering # 0 => entering \in todo
    /\ entering = 0 => unwritten = {}

(* No table is ahead of tradeTicker, which is assigned before the ticker   *)
(* is entered; nor is what was copied of it behind the tables at that time. *)
FreshInv ==
    /\ tradeTicker \in [Word -> Nat] /\ inTables \in Nat
    /\ \A w \in Word : inTables <= tradeTicker[w] /\ tradeTicker[w] <= Last(received)
    /\ entering # 0 => \A w \in Word \ unwritten : tradeTicker[w] = Last(received)
    /\ floor \in Nat /\ copy \in [Word -> Nat] /\ uncopied \subseteq Word
    /\ trader = "copy" => floor <= inTables /\ \A w \in Word \ uncopied : floor <= copy[w]

CopyInv == StreamInv /\ EnteringInv /\ FreshInv

LEMMA CopyInit == Init => CopyInv
<1> SUFFICES ASSUME Init PROVE CopyInv
  OBVIOUS
<1>1. StreamInv /\ EnteringInv
  BY StreamInit DEF Init, EnteringInv
<1>2. FreshInv
  BY DEF Init, FreshInv, NoTicker, Last
<1> QED
  BY <1>1, <1>2 DEF CopyInv

(* The ticker taken is later than all before it.                           *)
LEMMA CopyDeliver == CopyInv /\ Deliver => EnteringInv' /\ FreshInv'
<1> SUFFICES ASSUME CopyInv, Deliver PROVE EnteringInv' /\ FreshInv'
  OBVIOUS
<1>1. /\ todo = {} /\ todo' = Durations /\ received' = Append(received, held)
      /\ UNCHANGED <<entering, unwritten, tradeTicker, inTables, trader, copy, uncopied, floor>>
  BY DEF Deliver, TakesNext, trading
<1>2. received \in Seq(Nat) /\ held \in Nat /\ Last(received) \in Nat /\ Last(received) < held
  BY DEF CopyInv, StreamInv, TakenInv, Deliver
<1>3. Last(received)' = held
  BY <1>1, <1>2 DEF Last
<1>4. entering = 0 /\ EnteringInv'
  BY <1>1 DEF CopyInv, EnteringInv
<1>5. \A w \in Word : tradeTicker[w] \in Nat /\ tradeTicker[w] <= held
  BY <1>2 DEF CopyInv, FreshInv
<1>6. FreshInv'
  BY <1>1, <1>3, <1>4, <1>5 DEF CopyInv, FreshInv
<1> QED
  BY <1>4, <1>6

(* The ticker taken last is assigned, and then entered.                    *)
LEMMA CopyIngest == CopyInv /\ IngestStep => EnteringInv' /\ FreshInv'
<1> SUFFICES ASSUME CopyInv, IngestStep PROVE EnteringInv' /\ FreshInv'
  OBVIOUS
<1>1. /\ UNCHANGED <<received, trader, copy, uncopied, floor>>
      /\ Last(received) \in Nat
  BY DEF IngestStep, NextDuration, Assign, Enter, trading, CopyInv, StreamInv, TakenInv
<1>2. Last(received)' = Last(received)
  BY <1>1 DEF Last
<1>3. CASE NextDuration
  <2>1. /\ entering = 0 /\ entering' \in todo /\ unwritten' = Word
        /\ UNCHANGED <<todo, tradeTicker, inTables>>
    BY <1>3 DEF NextDuration, tables
  <2>2. EnteringInv' /\ FreshInv'
    BY <1>1, <1>2, <2>1, DurationAssumption DEF CopyInv, EnteringInv, FreshInv
  <2> QED
    BY <2>2
<1>4. CASE Assign
  <2>1. PICK w \in unwritten :
            /\ tradeTicker' = [tradeTicker EXCEPT ![w] = Last(received)]
            /\ unwritten' = unwritten \ {w}
            /\ UNCHANGED <<todo, entering, inTables>>
    BY <1>4 DEF Assign, tables
  <2>2. EnteringInv' /\ entering # 0 /\ w \in Word
    BY <2>1 DEF CopyInv, EnteringInv
  <2>3. \A v \in Word : inTables <= tradeTicker[v] /\ tradeTicker[v] <= Last(received)
                        /\ tradeTicker[v] \in Nat /\ inTables \in Nat
    BY DEF CopyInv, FreshInv
  <2>4. \A v \in Word : tradeTicker'[v] = IF v = w THEN Last(received) ELSE tradeTicker[v]
    BY <2>1, <2>2 DEF CopyInv, FreshInv
  <2>5. \A v \in Word : inTables <= tradeTicker'[v] /\ tradeTicker'[v] <= Last(received)
    BY <1>1, <2>3, <2>4
  <2>6. \A v \in Word \ unwritten' : tradeTicker'[v] = Last(received)
    BY <2>1, <2>2, <2>4 DEF CopyInv, FreshInv
  <2>7. tradeTicker' \in [Word -> Nat]
    BY <1>1, <2>1, <2>2 DEF CopyInv, FreshInv
  <2>8. FreshInv'
    BY <1>1, <1>2, <2>1, <2>5, <2>6, <2>7 DEF CopyInv, FreshInv
  <2> QED
    BY <2>2, <2>8
<1>5. CASE Enter
  <2>1. /\ entering \in todo /\ unwritten = {} /\ entering' = 0 /\ inTables' = Last(received)
        /\ UNCHANGED <<unwritten, tradeTicker>>
        /\ todo' = todo \ {entering}
    BY <1>5 DEF Enter, Tables!CreateCandleWithDuration, Tables!StatementFails
  <2>2. entering # 0 /\ EnteringInv'
    BY <2>1, DurationAssumption DEF CopyInv, EnteringInv
  <2>3. \A w \in Word : tradeTicker[w] = Last(received)
    BY <2>1, <2>2 DEF CopyInv, FreshInv
  <2>4. inTables <= Last(received)
    <3>1. "bid" \in Word
      BY DEF Word
    <3> QED
      BY <2>3, <3>1 DEF CopyInv, FreshInv
  <2>5. trader = "copy" => floor <= inTables'
    BY <1>1, <2>1, <2>4 DEF CopyInv, FreshInv
  <2>6. FreshInv'
    BY <1>1, <1>2, <2>1, <2>3, <2>5 DEF CopyInv, FreshInv
  <2> QED
    BY <2>2, <2>6
<1> QED
  BY <1>3, <1>4, <1>5 DEF IngestStep

(* The copy, a word after the other.                                       *)
LEMMA CopyTrader == CopyInv /\ TraderStep => EnteringInv' /\ FreshInv'
<1> SUFFICES ASSUME CopyInv, TraderStep PROVE EnteringInv' /\ FreshInv'
  OBVIOUS
<1>1. UNCHANGED <<received, todo, entering, unwritten, tradeTicker, inTables>>
  BY DEF TraderStep, ReadCandles, Copy, Traded, ingest, tables
<1>2. Last(received)' = Last(received) /\ EnteringInv'
  BY <1>1 DEF Last, CopyInv, EnteringInv
<1>3. NoTicker \in [Word -> Nat]
  BY DEF NoTicker
<1>4. CASE ReadCandles
  <2>1. uncopied' = Word /\ copy' = NoTicker /\ floor' = inTables
    BY <1>4 DEF ReadCandles
  <2> QED
    BY <1>1, <1>2, <1>3, <2>1 DEF CopyInv, FreshInv
<1>5. CASE Copy
  <2>1. PICK w \in uncopied :
            /\ copy' = [copy EXCEPT ![w] = tradeTicker[w]]
            /\ uncopied' = uncopied \ {w}
            /\ trader = "copy" /\ UNCHANGED <<trader, floor>>
    BY <1>5 DEF Copy
  <2>2. w \in Word /\ copy \in [Word -> Nat] /\ tradeTicker[w] \in Nat
        /\ floor <= tradeTicker[w]
    BY <2>1 DEF CopyInv, FreshInv
  <2>3. copy' \in [Word -> Nat] /\ \A v \in Word \ uncopied' : floor <= copy'[v]
    BY <2>1, <2>2 DEF CopyInv, FreshInv
  <2> QED
    BY <1>1, <1>2, <2>1, <2>3 DEF CopyInv, FreshInv
<1>6. CASE Traded
  <2>1. trader' = "idle" /\ copy' = NoTicker /\ floor' = 0 /\ UNCHANGED uncopied
    BY <1>6 DEF Traded
  <2> QED
    BY <1>1, <1>2, <1>3, <2>1 DEF CopyInv, FreshInv
<1> QED
  BY <1>4, <1>5, <1>6 DEF TraderStep

(* The process ends: no table is known, and no copy is under way.          *)
LEMMA CopyEnd == CopyInv /\ ProcessEnds => EnteringInv' /\ FreshInv'
<1> SUFFICES ASSUME CopyInv, ProcessEnds PROVE EnteringInv' /\ FreshInv'
  OBVIOUS
<1>1. /\ entering' = 0 /\ unwritten' = {} /\ tradeTicker' = NoTicker /\ inTables' = 0
      /\ trader' = "idle" /\ copy' = NoTicker /\ uncopied' = {} /\ floor' = 0
      /\ UNCHANGED received /\ todo' = {}
  BY DEF ProcessEnds, tables, Tables!Restart
<1>2. NoTicker \in [Word -> Nat] /\ \A w \in Word : NoTicker[w] = 0
  BY DEF NoTicker
<1>3. Last(received)' \in Nat
  BY <1>1 DEF CopyInv, StreamInv, TakenInv, Last
<1> QED
  BY <1>1, <1>2, <1>3 DEF EnteringInv, FreshInv

LEMMA CopyNext == CopyInv /\ [Next]_vars => CopyInv'
<1> SUFFICES ASSUME CopyInv, [Next]_vars PROVE EnteringInv' /\ FreshInv'
  BY StreamNext DEF CopyInv
<1>1. CASE Deliver
  BY <1>1, CopyDeliver
<1>2. CASE IngestStep
  BY <1>2, CopyIngest
<1>3. CASE TraderStep
  BY <1>3, CopyTrader
<1>4. CASE SubscribeFails \/ ReadCandlesPanics
  BY <1>4, CopyEnd DEF SubscribeFails, ReadCandlesPanics
<1>5. ASSUME UNCHANGED <<ingest, trading>> PROVE EnteringInv' /\ FreshInv'
  <2>1. UNCHANGED <<received, todo, entering, unwritten, tradeTicker, inTables, trader, copy,
                    uncopied, floor>>
    BY <1>5 DEF ingest, tables, trading
  <2>2. Last(received)' = Last(received)
    BY <2>1 DEF Last
  <2> QED
    BY <2>1, <2>2 DEF CopyInv, EnteringInv, FreshInv
<1>6. CASE Publish \/ Dial \/ Subscribe \/ Read \/ Restart
  BY <1>5, <1>6 DEF Publish, Dial, Subscribe, Read, Restart
<1>7. CASE SilentLoss \/ DialFails \/ ReadOther \/ ReadFails
  BY <1>5, <1>7 DEF SilentLoss, DialFails, ReadOther, ReadFails
<1>8. CASE UNCHANGED vars
  BY <1>5, <1>8 DEF vars
<1> QED
  BY <1>1, <1>2, <1>3, <1>4, <1>6, <1>7, <1>8 DEF Next, ReaderStep, Failure

(* Each word of the ticker that Trade is called with is as new as every    *)
(* table was when the call began, though no lock holds the two goroutines  *)
(* apart (bitflyerController.go, tradeTicker).                             *)
THEOREM CopyTheorem == Spec => []CopyNotStale
<1>1. CopyInv => CopyNotStale
  BY DEF CopyInv, FreshInv, CopyNotStale
<1> QED
  BY <1>1, CopyInit, CopyNext, PTL DEF Spec

=============================================================================
