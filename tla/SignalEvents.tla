---------------------------- MODULE SignalEvents ----------------------------
(***************************************************************************)
(* domain/model/events.go: the list of trades ("signal events") that the   *)
(* trader keeps in memory and in the table SIGNAL_EVENTS.  A signal is the *)
(* part of a row that decisions are made from: side, time and the re_open  *)
(* flag; prices, sizes and indicator values are left out.                  *)
(***************************************************************************)
EXTENDS Integers, Sequences

Side == {"BUY", "SELL"}

Other(side) == IF side = "BUY" THEN "SELL" ELSE "BUY"

(* The change of the signed exchange position that one lot of side makes.  *)
Sign(side) == IF side = "BUY" THEN 1 ELSE -1

Signal == [side : Side, time : Int, reOpen : BOOLEAN]

LastSignal(signals) == signals[Len(signals)]

IsEven(n) == n % 2 = 0

(* events.go CanBuy: the two clauses differ only in the side they name.    *)
CanBuy(signals, time, reOpen) ==
    IF signals = << >> THEN TRUE
    ELSE LET last == LastSignal(signals) IN
         \/ reOpen
         \/ (last.side = "SELL" \/ IsEven(Len(signals))) /\ last.time <= time
         \/ (last.side = "BUY" \/ IsEven(Len(signals))) /\ last.time <= time

(* events.go CanSell.                                                      *)
CanSell(signals, time, reOpen) ==
    IF signals = << >> THEN TRUE
    ELSE LET last == LastSignal(signals) IN
         \/ reOpen
         \/ (last.side = "BUY" \/ IsEven(Len(signals))) /\ last.time <= time
         \/ (last.side = "SELL" \/ IsEven(Len(signals))) /\ last.time <= time

(* Two variants that a slip could make of the gate: always open, and with the
   comparison of the times turned round. *)
CanTradeAlways(side, signals, time, reOpen) == TRUE
CanTradeReversed(side, signals, time, reOpen) ==
    signals = << >> \/ reOpen \/ LastSignal(signals).time >= time

CanTrade(side, signals, time, reOpen) ==
    IF side = "BUY" THEN CanBuy(signals, time, reOpen)
                    ELSE CanSell(signals, time, reOpen)

(* GetSignalEventsByCount(1): what NewAI loads when the process starts.    *)
LoadLast(rows) == IF rows = << >> THEN << >> ELSE << LastSignal(rows) >>

(* OpenStatus: which position the table says is open, by parity and the    *)
(* side of the last row.  The function of the source has no caller.        *)
OpenStatus(rows) ==
    [s \in Side |-> IF IsEven(Len(rows)) THEN FALSE
                                        ELSE LastSignal(rows).side = s]

(* The signed position a table of alternating opens and closes stands for. *)
LedgerPosition(rows) ==
    IF IsEven(Len(rows)) THEN 0 ELSE Sign(LastSignal(rows).side)

=============================================================================
