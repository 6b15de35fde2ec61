------------------------------ MODULE PaperTrade ------------------------------
(***************************************************************************)
(* application/controllers/aiTrade.go with back_test set in config.ini:    *)
(* Trade decides as always, but Buy and Sell ask nothing of the exchange   *)
(* and record the trade at once, in memory and in SIGNAL_EVENTS.           *)
(***************************************************************************)
EXTENDS Trade

NoExchange == UNCHANGED <<pos, book, startTrade, isNoPosition, crashes>>

(* Trade, after an opening: the price is the one Trade was called with.    *)
PaperOpening(p) ==
    FinishOpening(p) /\ stopLimit' = StopLevel(p, t.price)

(* Variant: the position still marked as open.                             *)
PaperClosingMarked(p) ==
    /\ isProfit' = [isProfit EXCEPT ![p] = @ \/ TookProfit(p)]
    /\ isStopLimit' = (isStopLimit \/ StoppedOut(p))
    /\ profit' = 0 /\ stopLimit' = 0
    /\ NextBranch(p, TRUE)
    /\ UNCHANGED <<reOpen, isOpen>>

(* Trade, after a closing: no reopen flag is armed.                        *)
PaperClosing(p) ==
    /\ isProfit' = [isProfit EXCEPT ![p] = @ \/ TookProfit(p)]
    /\ isStopLimit' = (isStopLimit \/ StoppedOut(p))
    /\ isOpen' = [isOpen EXCEPT ![p] = FALSE]
    /\ profit' = 0 /\ stopLimit' = 0
    /\ NextBranch(p, TRUE)
    /\ UNCHANGED reOpen

(* The else branch of Buy and Sell. The trade is later than the start of its
   candle and than the trade before it: a unit of time stands for that. *)
PaperOrder ==
    /\ pc = "quote"
    /\ now' = now + 1
    /\ IF ~Recordable
       THEN NextIteration /\ UNCHANGED <<rows, signals, flags, faults>>
       ELSE /\ RecordSignal
            /\ IF call.closing THEN PaperClosing(Other(call.side))
                               ELSE PaperOpening(call.side)
    /\ NoExchange

PaperInTrade == Skip \/ Load \/ Loop \/ PaperOrder
PaperNext == Begin \/ PaperInTrade \/ Tick \/ Restart \/ Horizon

PaperSpec == Init /\ [][PaperNext]_vars

-----------------------------------------------------------------------------
(* Every second row closes the one before it, across restarts, until a failure:
   the table of BackTest mode is a list of round trips, though no order was ever
   sent. Whatever fails, no two trades are recorded in one candle, unless the first
   has the very time its candle starts: nothing is reopened in this mode, and none
   takes the time of an order. *)
PaperRoundTrips ==
    /\ faults = 0 =>
          \A k \in 1 .. Len(rows) : IsEven(k) => rows[k].side = Other(rows[k - 1].side)
    /\ \A k \in 1 .. Len(rows) - 1 : rows[k].time <= CandleStart(rows[k + 1].time)
=============================================================================
