------------------------------ MODULE Ichimoku ------------------------------
(***************************************************************************)
(* domain/tradingalgo/algo.go: IchimokuCloud, which AddIchimoku and the    *)
(* back test recompute from all closes each time a candle has been added.  *)
(*                                                                         *)
(* Indexes are those of the source, from 0: close i is closes[i + 1].  A   *)
(* line is kept as four times its value, which makes its halves and        *)
(* quarters integers.                                                      *)
(***************************************************************************)
EXTENDS Integers, Sequences, FiniteSetsExt

CONSTANTS
    TenkanN, KijunN, SenkouN,   \* 9, 26 and 52 in the source
    PastPeriod,                 \* the newest candles that are read
    MaxPrice                    \* bound: prices

ASSUME WindowAssumption ==
    /\ TenkanN \in Nat \ {0} /\ KijunN \in Nat /\ SenkouN \in Nat
    /\ TenkanN <= KijunN /\ KijunN <= SenkouN
    /\ PastPeriod \in Nat \ {0}

VARIABLES closes, lines

cloud == <<closes, lines>>

Prices == 1 .. MaxPrice
Lines == {"tenkan", "kijun", "senkouA", "senkouB", "chikou"}

-----------------------------------------------------------------------------
minMax(inReal) ==
    LET Found[k \in 0 .. Len(inReal)] ==
            IF k = 0 THEN [min |-> inReal[1], max |-> inReal[1]]
            ELSE [min |-> IF Found[k - 1].min > inReal[k] THEN inReal[k] ELSE Found[k - 1].min,
                  max |-> IF Found[k - 1].max < inReal[k] THEN inReal[k] ELSE Found[k - 1].max]
    IN Found[Len(inReal)]

Zeros(n, length) == [k \in 1 .. Min({n, length}) |-> 0]

(* Variants: one close short, and the newest closes whatever i is.         *)
WindowShort(inReal, i, n) == SubSeq(inReal, i - n + 2, i)
WindowNewest(inReal, i, n) == SubSeq(inReal, Len(inReal) - n + 1, Len(inReal))

(* inReal[i-n : i]: the n closes before close i.                           *)
Window(inReal, i, n) == SubSeq(inReal, i - n + 1, i)

(* (min + max) / 2                                                         *)
Middle(window) == LET m == minMax(window) IN 2 * (m.min + m.max)

SpanA(tenkan, kijun) == (tenkan + kijun) \div 2

(* One pass of the loop.                                                   *)
Extended(l, inReal, i) ==
    LET tenkan == IF i < TenkanN THEN l.tenkan
                  ELSE Append(l.tenkan, Middle(Window(inReal, i, TenkanN)))
        kijun == IF i < KijunN THEN l.kijun
                 ELSE Append(l.kijun, Middle(Window(inReal, i, KijunN)))
    IN [tenkan  |-> tenkan,
        kijun   |-> kijun,
        senkouA |-> IF i < KijunN THEN l.senkouA
                    ELSE Append(l.senkouA, SpanA(tenkan[i + 1], kijun[i + 1])),
        chikou  |-> IF i < KijunN THEN l.chikou
                    ELSE Append(l.chikou, 4 * inReal[i - KijunN + 1]),
        senkouB |-> IF i < SenkouN THEN l.senkouB
                    ELSE Append(l.senkouB, Middle(Window(inReal, i, SenkouN)))]

IchimokuCloud(inReal) ==
    LET length == Len(inReal)
        After[k \in 0 .. length] ==
            IF k = 0 THEN [tenkan  |-> Zeros(TenkanN, length),
                           kijun   |-> Zeros(KijunN, length),
                           senkouA |-> Zeros(KijunN, length),
                           senkouB |-> Zeros(SenkouN, length),
                           chikou  |-> Zeros(KijunN, length)]
            ELSE Extended(After[k - 1], inReal, k - 1)
    IN After[length]

-----------------------------------------------------------------------------
CloudInit ==
    /\ closes = << >>
    /\ lines = IchimokuCloud(closes)

(* SelectAll reads the newest PastPeriod rows: once there are as many, the oldest
   candle drops out with each new one. *)
NewCandle(close) ==
    /\ closes' = IF Len(closes) < PastPeriod THEN Append(closes, close)
                 ELSE Append(Tail(closes), close)
    /\ lines' = IchimokuCloud(closes')

CloudNext == \E close \in Prices : NewCandle(close)

-----------------------------------------------------------------------------
(* What the loop and its slices add up to, said of the closes alone.       *)
Before(i, n) == {closes[j] : j \in i - n + 1 .. i}
MiddleOf(S) == 2 * (Max(S) + Min(S))

ValueIsDefined(i) ==
    /\ lines.tenkan[i + 1] = IF i < TenkanN THEN 0 ELSE MiddleOf(Before(i, TenkanN))
    /\ lines.kijun[i + 1] = IF i < KijunN THEN 0 ELSE MiddleOf(Before(i, KijunN))
    /\ lines.senkouB[i + 1] = IF i < SenkouN THEN 0 ELSE MiddleOf(Before(i, SenkouN))
    /\ 2 * lines.senkouA[i + 1] =
           IF i < KijunN THEN 0 ELSE lines.tenkan[i + 1] + lines.kijun[i + 1]
    /\ lines.chikou[i + 1] = IF i < KijunN THEN 0 ELSE 4 * closes[i - KijunN + 1]

(* Value i of every line belongs to candle i, zeros standing for the values *)
(* that are missing: the back test and the chart index the lines by candle  *)
(* without asking.  It is the value the formulas at algo.go:33-36 give for  *)
(* the candles before it, with the closes for highs and lows; that of the   *)
(* chikou is the close of KijunN candles before, as in algo.go:56, where    *)
(* the comment at algo.go:37 plots it the other way.                        *)
LinesAsDefined ==
    /\ \A l \in Lines : Len(lines[l]) = Len(closes)
    /\ \A i \in 0 .. Len(closes) - 1 : ValueIsDefined(i)

(* The candles read that are not read again when the next one comes in.     *)
Dropped == Len(closes) + 1 - Len(closes')

(* Candles at the start of those read have no value in the line.            *)
Delay == [tenkan |-> TenkanN, kijun |-> KijunN, senkouA |-> KijunN,
          senkouB |-> SenkouN, chikou |-> KijunN]

(* The value of a candle does not change when later candles come in, though *)
(* it is computed anew from the candles then read: what a back test reads   *)
(* there is what trading has read, until the candle has come too close to   *)
(* the start of those read to have one.                                     *)
PastKept ==
    [][\A l \in Lines : \A k \in 1 .. Len(closes) - Dropped :
          lines'[l][k] = IF k <= Delay[l] THEN 0 ELSE lines[l][k + Dropped]]_cloud
=============================================================================
