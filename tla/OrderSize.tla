----------------------------- MODULE OrderSize -----------------------------
(***************************************************************************)
(* The size of an order: the first half of Buy and Sell in                 *)
(* application/controllers/aiTrade.go, from GetAvailableBalance to         *)
(* SendOrder, and the REST calls of bitflyer/ it is computed from.         *)
(*                                                                         *)
(* Sizes are counted in a unit finer than the 0.0001 that sizes are        *)
(* rounded to.  A reply with an HTTP error is an object that names the     *)
(* error; the status is not looked at, and the object is decoded like any  *)
(* other reply: into a struct of zeros, or, where an array is expected,    *)
(* into a failure.  What Trade does with the order is the module Trade.    *)
(***************************************************************************)
EXTENDS SignalEvents

CONSTANTS
    Step,          \* fine units in 0.0001
    MinSize,       \* the smallest order the exchange accepts
    Collaterals,   \* what the account may hold
    UsePercent,    \* config.Config.UsePercent
    Asks,          \* best ask, per fine unit
    MaxPos,        \* bound: no order that may exceed it is begun
    MaxFaults      \* bound: calls that fail

ASSUME StepAssumption == Step \in Nat /\ Step > 2
ASSUME SizeAssumption == MinSize \in Nat \ {0} /\ MinSize % Step = 0
ASSUME MoneyAssumption == Collaterals \subseteq Nat /\ UsePercent \in Nat
ASSUME AskAssumption == Asks \subseteq Nat \ {0}
ASSUME OrderBoundAssumption == MaxPos \in Nat /\ MaxFaults \in Nat

VARIABLES
    posSide, parts,   \* exchange: side of the position, sizes it consists of
    pc, side,         \* where the routine is, and which of the two it is
    use,              \* useCurrency
    ask,              \* ticker.BestAsk
    size, settling,   \* size of the order; it was summed over positions
    accepted,         \* the last order the exchange accepted, or NoOrder
    faults

exchange == <<posSide, parts, accepted>>
order == <<exchange, pc, side, use, ask, size, settling, faults>>

-----------------------------------------------------------------------------
Fault == faults < MaxFaults /\ faults' = faults + 1
NoOrder == [size |-> 0, settling |-> FALSE, closing |-> FALSE, use |-> 0, ask |-> 1]

Total(list) ==
    LET Sum[k \in 0 .. Len(list)] == IF k = 0 THEN 0 ELSE Sum[k - 1] + list[k]
    IN Sum[Len(list)]

(* Floats that are no sizes.                                               *)
NaN == -1
Inf == -2

(* math.Floor and math.Round to four decimals.                             *)
AdjustSize(s) == (s \div Step) * Step
RoundSize(s) == ((s + Step \div 2) \div Step) * Step

(* Variant: a new order rounded like a settling one.                       *)
NewSizeRounded(money, price) ==
    IF price = 0 THEN (IF money = 0 THEN NaN ELSE Inf)
    ELSE RoundSize(money \div price)

(* 1.0 / (BestAsk / useCurrency), rounded down. A price of 0, from a reply that
   was an error, gives an infinity, or with no money to use not a number. *)
NewSize(money, price) ==
    IF price = 0 THEN (IF money = 0 THEN NaN ELSE Inf)
    ELSE AdjustSize(money \div price)

(* Variants: the sum not rounded; and added to the size of a new order.    *)
SettlingSizeRaw(sum) == sum
SettlingSizeAdded(sum) == RoundSize(sum) + NewSize(use, ask)

(* The sum of floats may be off a little, to either side.                  *)
SettlingSize(sum) == RoundSize(sum)
Sums(list) == IF Len(list) = 1 THEN {Total(list)}
                               ELSE {Total(list) + e : e \in {-1, 0, 1}}

-----------------------------------------------------------------------------
(* The exchange: a net position, in the parts the executions made of it.   *)

Splits(s) == {<<s>>} \union {<<a, s - a>> : a \in {1, Step} \cap 1 .. s - 1}

Executed(s) ==
    LET held == Total(parts) IN
    IF parts = << >> \/ posSide = side
    THEN posSide' = side /\ \E split \in Splits(s) : parts' = parts \o split
    ELSE IF s <= held
    THEN /\ posSide' = posSide
         /\ parts' = IF s = held THEN << >> ELSE << held - s >>
    ELSE posSide' = side /\ parts' = << s - held >>

Closing == parts # << >> /\ posSide # side

(* Orders too small are refused.                                           *)
Acceptable(s) == s >= MinSize

-----------------------------------------------------------------------------
(* Buy (side "BUY") and Sell.                                              *)

Return == pc' = "idle" /\ use' = 0 /\ ask' = 0 /\ size' = 0 /\ settling' = FALSE

(* GetAvailableBalance: an error, or a reply that was one, gives 0.        *)
GetCollateral ==
    /\ pc = "idle" /\ Total(parts) * 2 <= MaxPos
    /\ pc' = "ticker" /\ side' \in Side
    /\ \/ \E c \in Collaterals : use' = c * UsePercent /\ UNCHANGED faults
       \/ Fault /\ use' = 0
    /\ UNCHANGED <<exchange, ask, size, settling>>

GetTicker ==
    /\ pc = "ticker" /\ pc' = "positions"
    /\ \/ ask' \in Asks /\ UNCHANGED faults
       \/ Fault /\ ask' = 0
    /\ UNCHANGED <<exchange, side, use, size, settling>>

GetTickerFails ==
    /\ pc = "ticker" /\ Fault /\ Return
    /\ UNCHANGED <<exchange, side>>

(* An error is dropped: no positions, a new order.                         *)
GetPositions ==
    /\ pc = "positions" /\ pc' = "send"
    /\ \/ UNCHANGED faults /\ settling' = (parts # << >>)
       \/ Fault /\ settling' = FALSE
    /\ IF settling' THEN \E sum \in Sums(parts) : size' = SettlingSize(sum)
                    ELSE size' = NewSize(use, ask)
    /\ UNCHANGED <<exchange, side, use, ask>>

(* IsNaN returns, and json.Marshal fails on an infinity.                   *)
NotSent ==
    /\ pc = "send" /\ size \in {NaN, Inf} /\ Return
    /\ UNCHANGED <<exchange, side, faults>>

(* SendOrder: accepted; whether the reply arrives makes no difference here. *)
SendOrder ==
    /\ pc = "send" /\ size \notin {NaN, Inf} /\ Acceptable(size)
    /\ Executed(size)
    /\ accepted' = [size |-> size, settling |-> settling, closing |-> Closing,
                    use |-> use, ask |-> ask]
    /\ Return
    /\ UNCHANGED <<side, faults>>

(* Refused, with an empty child_order_acceptance_id, for its size or for want
   of funds; or lost on the way. *)
SendOrderRefused ==
    /\ pc = "send" /\ size \notin {NaN, Inf} /\ Return
    /\ UNCHANGED <<exchange, side, faults>>

-----------------------------------------------------------------------------
OrderInit ==
    /\ posSide = "BUY" /\ parts = << >> /\ accepted = NoOrder
    /\ pc = "idle" /\ side = "BUY" /\ use = 0 /\ ask = 0 /\ size = 0
    /\ settling = FALSE /\ faults = 0

Horizon == pc = "idle" /\ Total(parts) * 2 > MaxPos /\ UNCHANGED order

OrderNext ==
    \/ GetCollateral \/ GetTicker \/ GetTickerFails \/ GetPositions
    \/ NotSent \/ SendOrder \/ SendOrderRefused \/ Horizon

-----------------------------------------------------------------------------
(* Properties.                                                             *)

(* Whatever calls failed, the exchange never gets an order made from a price or
   an amount that is not there: an order is of the size of the positions, or
   no larger than the money to use pays for. *)
OrderIsCovered ==
    accepted.settling \/ (accepted.ask > 0 /\ accepted.size * accepted.ask <= accepted.use)

(* A position is a whole number of 0.0001, through partial executions, float
   sums and failures, so that rounding the sum of its parts gives it back; and
   without failures it is never too small for the exchange to take an order of. *)
PositionIsTradable ==
    /\ Total(parts) % Step = 0
    /\ faults = 0 => Total(parts) = 0 \/ Total(parts) >= MinSize

(* Without failures an order of the other side closes all of the position. *)
ClosedFlat ==
    [][accepted' # accepted /\ accepted'.closing /\ faults' = 0 => parts' = << >>]_order
=============================================================================
