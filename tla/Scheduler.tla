----------------------------- MODULE Scheduler -----------------------------
(***************************************************************************)
(* application/controllers/bitflyerController.go: the goroutine that wakes *)
(* up once a second, queries the database twice, and calls Trade in second *)
(* 0 of a minute; and the daily upload of the log (utils/logging.go) that  *)
(* it runs on the way.  Trade itself is the module Trade; here a call only *)
(* lasts, and may open or close the position.                              *)
(*                                                                         *)
(* The clock is cyclic, a day long, in instants.  Every time.Now() of the  *)
(* source reads it afresh, in a step of its own.                           *)
(***************************************************************************)
EXTENDS Integers

CONSTANTS
    Sub,         \* instants in a second
    Seconds,     \* seconds in a minute
    Minutes,     \* minutes in an hour
    Hours,       \* hours in a day
    ClosedHour,  \* hour of the maintenance, by config.Config.IsProduction
    UploadSecond,   \* the second in which the log is uploaded
    Latency,     \* instants from a tick until the loop body is through
    CallTimes,   \* instants that a call of Trade, or an upload, may last, by database
    MaxFaults    \* bound: failed queries and uploads

Day == Hours * Minutes * Seconds * Sub

ASSUME ClockAssumption ==
    /\ Sub \in Nat \ {0} /\ Seconds \in Nat \ {0}
    /\ Minutes \in Nat \ {0} /\ Hours \in Nat \ {0}
ASSUME HourAssumption == ClosedHour \in [BOOLEAN -> 0 .. Hours - 1]
ASSUME UploadAssumption == UploadSecond \in 1 .. Seconds - 1
ASSUME BoundAssumption == Latency \in Nat /\ CallTimes \subseteq Nat /\ MaxFaults \in Nat

VARIABLES
    production,  \* config.Config.IsProduction
    callTime,    \* which of CallTimes holds
    now,         \* time.Now()
    phase,       \* instant of a second at which time.Tick fires
    due,         \* the channel of time.Tick, which holds one tick
    pc,          \* where the loop is; "down" when the process has ended
    lag,         \* instants the loop has spent where the clock is bounded
    eventOdd,    \* eventLength%2 == 1
    enough,      \* the table holds CandleLengthMin candles
    open,        \* the number of rows in SIGNAL_EVENTS is odd
    faults,
    calls, uploads,   \* calls of Trade and uploads in this minute, up to 2
    punctual,    \* this iteration began at its tick, and in this second
    regular,     \* what this minute counts was done by punctual iterations
    ready        \* this minute began with the loop waiting and candles enough

loop == <<pc, eventOdd>>
history == <<calls, uploads, punctual, regular, ready>>
vars == <<production, callTime, now, phase, due, lag, loop, enough, open, faults, history>>

-----------------------------------------------------------------------------
Second == (now \div Sub) % Seconds
Minute == (now \div (Sub * Seconds)) % Minutes
Hour == now \div (Sub * Seconds * Minutes)

LastOf(n) == n - 1
StartsSecond(time) == time % Sub = 0
StartsMinute(time) == time % (Sub * Seconds) = 0

(* The hour and the minute can be read with the second: it is not the first of
   a minute. *)
UploadIsDue == Hour = LastOf(Hours) /\ Minute = LastOf(Minutes) /\ Second = UploadSecond

(* Variant: from the hour of the maintenance on.                           *)
FromClosedHour == Hour >= ClosedHour[production]
AtClosedHour == Hour = ClosedHour[production]

(* Variant: every other second, as the commented-out loop had it.          *)
AtEvenSecond == Second % 2 = 0
AtSecondZero == Second = 0

Least(a, b) == IF a <= b THEN a ELSE b

-----------------------------------------------------------------------------
(* The clock and time.Tick.                                                *)

Body == {"count", "candles", "upload?", "hour", "second", "closedHour", "closedSecond"}
Working == pc \in Body \/ (pc = "wait" /\ due)
Away == pc \in {"trade", "upload"}

(* The tick that comes with the next instant: kept if the channel is empty,
   dropped otherwise. *)
Tick == (now + 1) % Sub = phase /\ pc # "down"

Clock ==
    /\ Working => lag < Latency
    /\ Away => lag < callTime
    /\ now' = (now + 1) % Day
    /\ due' = (due \/ Tick)
    /\ lag' = IF Working \/ Away THEN lag + 1 ELSE 0
    /\ IF StartsMinute(now')
       THEN /\ calls' = 0 /\ uploads' = 0 /\ regular' = TRUE
            /\ ready' = (pc = "wait" /\ ~due /\ enough)
       ELSE UNCHANGED <<calls, uploads, regular, ready>>
    /\ punctual' = (punctual /\ ~StartsSecond(now'))
    /\ UNCHANGED <<production, callTime, phase, loop, enough, open, faults>>

(* The other goroutine enters candles until there are enough of them.      *)
MoreCandles ==
    /\ ~enough /\ enough' = TRUE
    /\ UNCHANGED <<production, callTime, now, phase, due, lag, loop, open, faults, history>>

-----------------------------------------------------------------------------
(* The loop.                                                               *)

environment == <<production, callTime, now, phase, enough, open>>

Goto(label) == pc' = label
Wait == pc' = "wait" /\ lag' = 0 /\ due' = due

Take ==
    /\ pc = "wait" /\ due
    /\ due' = FALSE /\ Goto("count")
    /\ punctual' = (lag = 0 /\ now % Sub = phase)
    /\ UNCHANGED <<environment, lag, eventOdd, faults, calls, uploads, regular, ready>>

(* GetAllSignalEventsCount: a failed query is read as 0.                   *)
ReadCount ==
    /\ pc = "count" /\ Goto("candles")
    /\ \/ eventOdd' = open /\ UNCHANGED faults
       \/ faults < MaxFaults /\ faults' = faults + 1 /\ eventOdd' = FALSE
    /\ UNCHANGED <<environment, due, lag, history>>

(* GetAllCandle; with too few candles the iteration is over.               *)
ReadCandles ==
    /\ pc = "candles"
    /\ IF enough THEN Goto(IF production THEN "upload?" ELSE "hour") /\ UNCHANGED <<due, lag>>
                 ELSE Wait
    /\ UNCHANGED <<environment, eventOdd, faults, history>>

(* A failed query of candles panics in the deferred rows.Close().          *)
ReadCandlesPanic ==
    /\ pc = "candles" /\ faults < MaxFaults
    /\ faults' = faults + 1 /\ Goto("down") /\ ready' = FALSE
    /\ UNCHANGED <<environment, due, lag, eventOdd, calls, uploads, punctual, regular>>

UploadCheck ==
    /\ pc = "upload?"
    /\ IF UploadIsDue
       THEN /\ Goto("upload") /\ lag' = 0
            /\ uploads' = Least(uploads + 1, 2) /\ regular' = (regular /\ punctual)
       ELSE Goto("hour") /\ UNCHANGED <<lag, uploads, regular>>
    /\ UNCHANGED <<environment, due, eventOdd, faults, calls, punctual, ready>>

(* UploadLogFile: a failed upload ends the process (log.Fatal).            *)
Upload ==
    /\ pc = "upload" /\ Goto("hour") /\ lag' = 0
    /\ UNCHANGED <<environment, due, eventOdd, faults, history>>
UploadFatal ==
    /\ pc = "upload" /\ faults < MaxFaults
    /\ faults' = faults + 1 /\ Goto("down") /\ ready' = FALSE
    /\ UNCHANGED <<environment, due, lag, eventOdd, calls, uploads, punctual, regular>>

(* Variant: nothing done in the hour of the maintenance.                   *)
ReadHourClosed ==
    /\ pc = "hour"
    /\ IF AtClosedHour THEN Wait ELSE Goto("second") /\ UNCHANGED <<due, lag>>
    /\ UNCHANGED <<environment, eventOdd, faults, history>>

(* The condition of the call is two clauses joined by "or", each of which
   reads the hour and then the second. *)
ReadHour ==
    /\ pc = "hour"
    /\ Goto(IF AtClosedHour THEN "closedHour" ELSE "second")
    /\ UNCHANGED <<environment, due, lag, eventOdd, faults, history>>

CallTrade ==
    /\ Goto("trade") /\ lag' = 0 /\ due' = due
    /\ calls' = Least(calls + 1, 2)
    /\ regular' = (regular /\ punctual)

ReadSecond ==
    /\ pc = "second"
    /\ IF AtSecondZero THEN CallTrade
       ELSE Goto("closedHour") /\ UNCHANGED <<due, lag, calls, regular>>
    /\ UNCHANGED <<environment, eventOdd, faults, uploads, punctual, ready>>

(* Variant: the position not asked for.                                    *)
ReadClosedHourOnly ==
    /\ pc = "closedHour"
    /\ IF AtClosedHour THEN Goto("closedSecond") /\ UNCHANGED <<due, lag>> ELSE Wait
    /\ UNCHANGED <<environment, eventOdd, faults, history>>

ReadClosedHour ==
    /\ pc = "closedHour"
    /\ IF AtClosedHour /\ eventOdd
       THEN Goto("closedSecond") /\ UNCHANGED <<due, lag>>
       ELSE Wait
    /\ UNCHANGED <<environment, eventOdd, faults, history>>

ReadClosedSecond ==
    /\ pc = "closedSecond"
    /\ IF AtSecondZero THEN CallTrade ELSE Wait /\ UNCHANGED <<calls, regular>>
    /\ UNCHANGED <<environment, eventOdd, faults, uploads, punctual, ready>>

(* Trade returns, having opened, closed or left the position.              *)
TradeReturns ==
    /\ pc = "trade" /\ Wait
    /\ open' \in BOOLEAN
    /\ UNCHANGED <<production, callTime, now, phase, enough, eventOdd, faults, history>>

(* The process is started again: time.Tick counts from there.              *)
Restart ==
    /\ pc = "down" /\ pc' = "wait" /\ due' = FALSE /\ lag' = 0
    /\ phase' = now % Sub
    /\ UNCHANGED <<production, callTime, now, enough, open, eventOdd, faults, history>>

-----------------------------------------------------------------------------
Init ==
    /\ production \in BOOLEAN /\ callTime \in CallTimes
    /\ now \in 0 .. Sub - 1 /\ phase = now
    /\ due = FALSE /\ pc = "wait" /\ lag = 0 /\ eventOdd = FALSE
    /\ enough \in BOOLEAN /\ open \in BOOLEAN /\ faults = 0
    /\ calls = 0 /\ uploads = 0 /\ punctual = TRUE /\ regular = TRUE /\ ready = FALSE

Step ==
    \/ Take \/ ReadCount \/ ReadCandles \/ UploadCheck \/ Upload
    \/ ReadHour \/ ReadSecond \/ ReadClosedHour \/ ReadClosedSecond
    \/ TradeReturns

Next == Clock \/ MoreCandles \/ Step \/ ReadCandlesPanic \/ UploadFatal \/ Restart

Spec == Init /\ [][Next]_vars

(* Time passes, and the goroutine and Trade go on.                         *)
FairSpec == Spec /\ WF_vars(Clock) /\ WF_vars(Step)

-----------------------------------------------------------------------------
(* Properties.                                                             *)

(* Trade is called twice in a minute, or the log uploaded twice in its second,
   only if one of the two iterations started from a tick that had waited in the
   channel, or had passed into another second before it compared: never by
   iterations that are in time. *)
TwiceOnlyIfLate == calls = 2 \/ uploads = 2 => ~regular

(* In the hour of the maintenance Trade is called only with a position open, if
   the iteration is in time: the hour and the second are read apart. *)
ClosedHourOnlyCloses == pc = "trade" /\ AtClosedHour /\ punctual => open

(* The loop body is through within the second of its tick.                 *)
InTime == phase + Latency < Sub

(* If the loop is waiting when a minute begins, and its body is quick enough,
   then Trade has been called before second 0 is over; in the hour of the
   maintenance, if a position was found open. *)
MinuteServed ==
    [][Second = 0 /\ Second' # 0 /\ ready /\ InTime /\ (AtClosedHour => eventOdd)
       => calls > 0]_vars

(* A call of Trade is through before the next minute begins.               *)
QuickCalls == callTime + Latency < Seconds * Sub

(* Trade opens positions in the first minute of an hour only: that minute keeps
   being served, in every hour but the maintenance and the one in whose place an
   upload may run, as long as the process stays up and body and calls are quick. *)
OpeningsKeepComing ==
    <>[](enough /\ pc # "down" /\ InTime /\ QuickCalls) =>
        \A h \in 1 .. Hours - 1 :
            [](h = ClosedHour[production] \/ <>(Hour = h /\ Minute = 0 /\ calls > 0))
=============================================================================
