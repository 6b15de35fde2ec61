-------------------------- MODULE Scheduler_proofs --------------------------
(***************************************************************************)
(* Proofs about Scheduler, for every length of an instant, a minute, an    *)
(* hour and a day, every hour of maintenance and second of the upload, any *)
(* duration of the calls and any number of failures.                       *)
(***************************************************************************)
EXTENDS Scheduler, TLAPS

-----------------------------------------------------------------------------
(* The clock.                                                              *)

(* Quotient and remainder, and that there is no other pair of them.        *)
LEMMA Division ==
    ASSUME NEW n \in Nat, NEW k \in Nat \ {0}
    PROVE  n \div k \in Nat /\ n % k \in 0 .. k - 1 /\ n = k * (n \div k) + (n % k)
  OBVIOUS

LEMMA MultipleBelow ==
    ASSUME NEW k \in Nat \ {0}, NEW x \in Nat, NEW y \in Nat, NEW r \in Nat,
           NEW s \in 0 .. k - 1, k * x + r = k * y + s
    PROVE  x <= y
<1> SUFFICES ASSUME y + 1 <= x PROVE FALSE
  OBVIOUS
<1>1. k * x \in Nat /\ k * y \in Nat
  OBVIOUS
<1>2. k * (y + 1) <= k * x
  OBVIOUS
<1>3. k * (y + 1) = k * y + k
  OBVIOUS
<1> QED
  BY <1>1, <1>2, <1>3

LEMMA DivisionUnique ==
    ASSUME NEW n \in Nat, NEW k \in Nat \ {0}, NEW y \in Nat, NEW s \in 0 .. k - 1,
           n = k * y + s
    PROVE  n \div k = y /\ n % k = s
<1> DEFINE x == n \div k
           r == n % k
<1>1. x \in Nat /\ r \in 0 .. k - 1 /\ n = k * x + r
  BY Division
<1> HIDE DEF x, r
<1>2. x <= y /\ y <= x
  BY <1>1, MultipleBelow
<1>3. x = y
  BY <1>1, <1>2
<1>4. k * x = k * y /\ k * y \in Nat
  BY <1>3
<1>5. r = s
  BY <1>1, <1>4
<1> QED
  BY <1>3, <1>5 DEF x, r

LEMMA ProductPositive ==
    ASSUME NEW k \in Nat \ {0}, NEW m \in Nat \ {0}
    PROVE  k * m \in Nat \ {0}
<1>1. k * m \in Nat
  OBVIOUS
<1>2. k * m >= k
  OBVIOUS
<1> QED
  BY <1>1, <1>2

(* Dividing by a product.                                                  *)
LEMMA DivisionTwice ==
    ASSUME NEW n \in Nat, NEW k \in Nat \ {0}, NEW m \in Nat \ {0}
    PROVE  /\ n \div (k * m) = (n \div k) \div m
           /\ n % (k * m) = k * ((n \div k) % m) + (n % k)
<1> DEFINE x == n \div k
           r == n % k
           y == x \div m
           s == x % m
<1>1. x \in Nat /\ r \in 0 .. k - 1 /\ n = k * x + r
  BY Division
<1>2. y \in Nat /\ s \in 0 .. m - 1 /\ x = m * y + s
  BY <1>1, Division
<1> HIDE DEF x, r, y, s
<1>3. k * m \in Nat \ {0}
  BY ProductPositive
<1>4. k * s \in Nat /\ k * (s + 1) <= k * m /\ k * (s + 1) = k * s + k
  BY <1>2
<1>5. k * s + r \in 0 .. k * m - 1
  BY <1>1, <1>3, <1>4
<1>6. k * x = (k * m) * y + k * s
  <2>1. k * (m * y + s) = k * (m * y) + k * s
    BY <1>2
  <2>2. k * (m * y) = (k * m) * y
    BY <1>2
  <2> QED
    BY <1>2, <2>1, <2>2
<1>7. n = (k * m) * y + (k * s + r)
  BY <1>1, <1>2, <1>3, <1>4, <1>6
<1>8. n \div (k * m) = y /\ n % (k * m) = k * s + r
  BY <1>2, <1>3, <1>5, <1>7, DivisionUnique
<1> QED
  BY <1>8 DEF x, r, y, s

(* Counting on: within the quotient, or to the next one.                   *)
LEMMA DivisionNext ==
    ASSUME NEW n \in Nat, NEW k \in Nat \ {0}
    PROVE  \/ /\ (n + 1) \div k = n \div k
              /\ (n + 1) % k = (n % k) + 1 /\ (n % k) + 1 < k
           \/ /\ (n + 1) \div k = (n \div k) + 1
              /\ (n + 1) % k = 0 /\ (n % k) + 1 = k
<1> DEFINE x == n \div k
           r == n % k
<1>1. x \in Nat /\ r \in 0 .. k - 1 /\ n = k * x + r
  BY Division
<1> HIDE DEF x, r
<1>2. CASE r + 1 < k
  <2>1. k * x \in Nat /\ n + 1 = k * x + (r + 1) /\ r + 1 \in 0 .. k - 1
    BY <1>1, <1>2
  <2>2. (n + 1) \div k = x /\ (n + 1) % k = r + 1
    BY <1>1, <2>1, DivisionUnique
  <2> QED
    BY <1>2, <2>2 DEF x, r
<1>3. CASE r + 1 = k
  <2>1. k * (x + 1) = k * x + k /\ k * x \in Nat
    BY <1>1
  <2>2. n + 1 = k * (x + 1) + 0 /\ x + 1 \in Nat /\ 0 \in 0 .. k - 1
    BY <1>1, <1>3, <2>1
  <2>3. (n + 1) \div k = x + 1 /\ (n + 1) % k = 0
    BY <2>2, DivisionUnique
  <2> QED
    BY <1>3, <2>3 DEF x, r
<1> QED
  BY <1>1, <1>2, <1>3

Instant == now % Sub

(* The units of the clock.                                                 *)
LEMMA Units ==
    /\ Sub \in Nat \ {0} /\ Seconds \in Nat \ {0}
    /\ Sub * Seconds \in Nat \ {0} /\ Seconds * Minutes \in Nat \ {0}
    /\ Hours * Minutes * Seconds \in Nat \ {0}
    /\ Day \in Nat \ {0} /\ Day = Sub * (Hours * Minutes * Seconds)
    /\ Day = (Sub * Seconds) * (Hours * Minutes)
<1>1. /\ Sub \in Nat \ {0} /\ Seconds \in Nat \ {0}
      /\ Minutes \in Nat \ {0} /\ Hours \in Nat \ {0}
  BY ClockAssumption
<1>2. Sub * Seconds \in Nat \ {0} /\ Seconds * Minutes \in Nat \ {0}
      /\ Hours * Minutes \in Nat \ {0}
  BY <1>1, ProductPositive
<1>3. Hours * Minutes * Seconds \in Nat \ {0}
  BY <1>1, <1>2, ProductPositive
<1>4. Day \in Nat \ {0}
  BY <1>1, <1>3, ProductPositive DEF Day
<1>5. Day = Sub * (Hours * Minutes * Seconds)
  BY <1>1, <1>3 DEF Day
<1>6. Hours * Minutes * Seconds * Sub = (Hours * Minutes) * (Sub * Seconds)
  <2> DEFINE x == Hours * Minutes
  <2>1. x \in Nat
    BY <1>2
  <2> HIDE DEF x
  <2>2. x * Seconds * Sub = x * (Seconds * Sub) /\ Seconds * Sub = Sub * Seconds
    BY <1>1, <2>1
  <2> QED
    BY <2>2 DEF x
<1>7. (Hours * Minutes) * (Sub * Seconds) = (Sub * Seconds) * (Hours * Minutes)
  BY <1>2
<1> QED
  BY <1>1, <1>2, <1>3, <1>4, <1>5, <1>6, <1>7 DEF Day

(* What a time tells of the second and the hour.                           *)
LEMMA TimeRead ==
    ASSUME NEW n \in Nat
    PROVE  /\ n \div Sub \in Nat /\ n % Sub \in 0 .. Sub - 1
           /\ (n \div Sub) % Seconds \in 0 .. Seconds - 1
           /\ n \div (Sub * Seconds * Minutes) = (n \div Sub) \div (Seconds * Minutes)
           /\ StartsMinute(n) <=> (n \div Sub) % Seconds = 0 /\ n % Sub = 0
<1> DEFINE s == (n \div Sub) % Seconds
           q == n % Sub
<1>1. n \div Sub \in Nat /\ q \in 0 .. Sub - 1 /\ s \in 0 .. Seconds - 1
  BY Units, Division
<1>2. Sub * Seconds * Minutes = Sub * (Seconds * Minutes)
  BY ClockAssumption
<1>3. n \div (Sub * Seconds * Minutes) = (n \div Sub) \div (Seconds * Minutes)
  <2> DEFINE m == Seconds * Minutes
  <2>1. m \in Nat \ {0}
    BY Units
  <2> HIDE DEF m
  <2>2. n \div (Sub * m) = (n \div Sub) \div m
    BY <2>1, Units, DivisionTwice
  <2>3. n \div (Sub * m) = n \div (Sub * Seconds * Minutes)
    BY <1>2 DEF m
  <2> QED
    BY <2>2, <2>3 DEF m
<1>4. n % (Sub * Seconds) = Sub * s + q
  BY Units, DivisionTwice
<1> HIDE DEF s, q
<1>5. s = 0 /\ q = 0 => Sub * s + q = 0
  BY Units
<1>6. s # 0 => Sub * s >= Sub
  BY <1>1, Units
<1>7. Sub * s \in Nat
  BY <1>1, Units
<1>8. Sub * s + q = 0 <=> s = 0 /\ q = 0
  BY <1>1, <1>5, <1>6, <1>7, Units
<1> QED
  BY <1>1, <1>3, <1>4, <1>8 DEF StartsMinute, s, q

(* One instant: in the same second, into another of the minute, or into    *)
(* the next minute.                                                        *)
LEMMA OneInstant ==
    ASSUME now \in 0 .. Day - 1, now' = (now + 1) % Day
    PROVE  /\ now' \in 0 .. Day - 1 /\ (now + 1) % Sub = Instant'
           /\ Instant \in 0 .. Sub - 1 /\ Instant' \in 0 .. Sub - 1
           /\ Second \in 0 .. Seconds - 1 /\ Second' \in 0 .. Seconds - 1
           /\ StartsSecond(now') <=> Instant' = 0
           /\ \/ /\ Instant' = Instant + 1 /\ ~StartsMinute(now')
                 /\ Second' = Second /\ Hour' = Hour
              \/ /\ Instant = Sub - 1 /\ Instant' = 0 /\ ~StartsMinute(now')
                 /\ Second' = Second + 1
              \/ Instant' = 0 /\ StartsMinute(now') /\ Second' = 0
<1>1. now \in Nat /\ now + 1 \in Nat /\ now' \in 0 .. Day - 1
  <2>1. Day \in Nat \ {0} /\ now \in Nat /\ now + 1 \in Nat
    BY Units
  <2>2. (now + 1) % Day \in 0 .. Day - 1
    BY <2>1, Division
  <2> QED
    BY <2>1, <2>2
<1>2. CASE now + 1 = Day
  <2>1. now' = 0
    BY <1>2, Units
  <2>2. Day = Sub * (Hours * Minutes * Seconds) + 0
    BY Units
  <2>3. (now + 1) % Sub = 0
    BY <1>1, <1>2, <2>2, Units, DivisionUnique
  <2>4. 0 = Sub * 0 + 0 /\ 0 = Seconds * 0 + 0
    BY Units
  <2>5. 0 \div Sub = 0 /\ 0 % Sub = 0 /\ 0 % Seconds = 0
    BY <2>4, Units, DivisionUnique
  <2> QED
    BY <1>1, <2>1, <2>3, <2>5, TimeRead, Units DEF Instant, Second, StartsSecond
<1>3. CASE now + 1 # Day
  <2>1. now' = now + 1
    BY <1>1, <1>3, Units
  <2>2. \/ now' \div Sub = now \div Sub /\ now' % Sub = (now % Sub) + 1
        \/ /\ now' \div Sub = (now \div Sub) + 1
           /\ now' % Sub = 0 /\ (now % Sub) + 1 = Sub
    <3>1. \/ /\ (now + 1) \div Sub = now \div Sub
             /\ (now + 1) % Sub = (now % Sub) + 1
          \/ /\ (now + 1) \div Sub = (now \div Sub) + 1
             /\ (now + 1) % Sub = 0 /\ (now % Sub) + 1 = Sub
      <4>1. now \in Nat /\ Sub \in Nat \ {0}
        BY <1>1, Units
      <4> QED
        BY <4>1, DivisionNext
    <3> QED
      BY <2>1, <3>1
  <2>3. CASE now' \div Sub = now \div Sub /\ now' % Sub = (now % Sub) + 1
    <3>1. Instant' # 0
      BY <1>1, <2>3, TimeRead DEF Instant
    <3> QED
      BY <1>1, <2>1, <2>3, <3>1, TimeRead DEF Instant, Second, Hour, StartsSecond
  <2>4. CASE /\ now' \div Sub = (now \div Sub) + 1
             /\ now' % Sub = 0 /\ (now % Sub) + 1 = Sub
    <3>1. \/ ((now \div Sub) + 1) % Seconds = ((now \div Sub) % Seconds) + 1
          \/ ((now \div Sub) + 1) % Seconds = 0
      BY <1>1, TimeRead, DivisionNext, Units
    <3>2. Second' = Second + 1 \/ Second' = 0
      BY <2>4, <3>1 DEF Second
    <3>3. now' \in Nat /\ Second' = (now' \div Sub) % Seconds
      BY <1>1, <2>1 DEF Second
    <3>4. StartsMinute(now') <=> Second' = 0
      BY <2>4, <3>3, TimeRead
    <3>5. Second \in 0 .. Seconds - 1 /\ Second' \in 0 .. Seconds - 1
      BY <1>1, <3>3, TimeRead DEF Second
    <3>6. /\ (now + 1) % Sub = Instant' /\ Instant' = 0
          /\ Instant \in 0 .. Sub - 1 /\ Instant = Sub - 1
      BY <1>1, <2>1, <2>4, TimeRead DEF Instant
    <3> QED
      BY <1>1, <3>2, <3>4, <3>5, <3>6, Units DEF StartsSecond
  <2> QED
    BY <2>2, <2>3, <2>4
<1> QED
  BY <1>2, <1>3

(* While the clock stands.                                                 *)
LEMMA ClockStands ==
    ASSUME UNCHANGED <<now, production>>
    PROVE  /\ Instant' = Instant /\ Second' = Second /\ Hour' = Hour
           /\ (AtClosedHour' <=> AtClosedHour)
  BY DEF Instant, Second, Hour, AtClosedHour

-----------------------------------------------------------------------------
(* The inductive invariant.                                                *)

TypeInv ==
    /\ now \in 0 .. Day - 1 /\ phase \in 0 .. Sub - 1 /\ lag \in Nat
    /\ pc \in Body \union {"wait", "trade", "upload", "down"} /\ production \in BOOLEAN
    /\ due \in BOOLEAN /\ eventOdd \in BOOLEAN /\ enough \in BOOLEAN /\ open \in BOOLEAN
    /\ calls \in 0 .. 2 /\ uploads \in 0 .. 2
    /\ punctual \in BOOLEAN /\ regular \in BOOLEAN /\ ready \in BOOLEAN

(* An iteration in time has used up the tick of its second.                *)
InSecond == punctual /\ pc \in Body \union {"trade", "upload"} => ~due /\ phase <= Instant

(* ... so that second 0 has no other tick once an iteration in time called *)
(* Trade in it, nor the second of the upload.                              *)
CalledOnce ==
    calls # 0 /\ regular /\ Second = 0 =>
        calls = 1 /\ ~due /\ pc \in {"trade", "wait"} /\ phase <= Instant

UploadedOnce ==
    /\ uploads # 0 => UploadSecond <= Second
    /\ uploads # 0 /\ regular /\ Second = UploadSecond =>
        /\ uploads = 1 /\ ~due /\ phase <= Instant
        /\ pc \notin {"count", "candles", "upload?"}

NotTwice == regular => calls # 2 /\ uploads # 2

(* The position changes only while Trade runs: what was counted holds.     *)
Counted == pc \notin {"wait", "count", "down"} /\ eventOdd => open

(* Which of the two clauses the hour has led to.                           *)
HourRead ==
    /\ pc = "closedSecond" => eventOdd
    /\ punctual /\ pc = "second" => ~AtClosedHour
    /\ punctual /\ pc = "trade" /\ AtClosedHour => eventOdd

(* In second 0 of a minute that found the loop waiting: the tick is to     *)
(* come, or the iteration began with it and has not been long, or Trade    *)
(* was called, or there was nothing to close.                              *)
Served ==
    /\ pc = "down" => ~ready
    /\ ready /\ InTime /\ Second = 0 =>
        /\ enough
        /\ \/ pc = "wait" /\ ~due /\ Instant < phase
           \/ /\ Working /\ Instant = phase + lag
              /\ pc \in Body => ~due
              /\ pc = "second" => ~AtClosedHour
              /\ pc \in {"closedHour", "closedSecond"} => AtClosedHour
           \/ calls > 0
           \/ AtClosedHour /\ ~eventOdd /\ pc = "wait" /\ ~due

SchedulerInv ==
    /\ TypeInv /\ InSecond /\ CalledOnce /\ UploadedOnce /\ NotTwice
    /\ Counted /\ HourRead /\ Served

LEMMA SchedulerInit == Init => SchedulerInv
<1> SUFFICES ASSUME Init PROVE SchedulerInv
  OBVIOUS
<1>1. now \in 0 .. Sub - 1 /\ Sub <= Day
  <2>1. Sub * 1 <= Sub * (Hours * Minutes * Seconds)
    BY Units
  <2> QED
    BY <2>1, Units DEF Init
<1>2. TypeInv
  <2>1. now \in 0 .. Day - 1 /\ phase \in 0 .. Sub - 1 /\ lag \in Nat
    BY <1>1, Units DEF Init
  <2>2. calls \in 0 .. 2 /\ uploads \in 0 .. 2 /\ pc = "wait"
    BY DEF Init
  <2>3. /\ due \in BOOLEAN /\ eventOdd \in BOOLEAN /\ punctual \in BOOLEAN
        /\ regular \in BOOLEAN /\ ready \in BOOLEAN
    BY DEF Init
  <2>4. production \in BOOLEAN /\ enough \in BOOLEAN /\ open \in BOOLEAN
    BY DEF Init
  <2> QED
    BY <2>1, <2>2, <2>3, <2>4 DEF TypeInv
<1>3. InSecond /\ CalledOnce /\ UploadedOnce /\ NotTwice /\ Counted /\ HourRead /\ Served
  BY DEF Init, InSecond, CalledOnce, UploadedOnce, NotTwice, Counted, HourRead, Served, Body
<1> QED
  BY <1>2, <1>3 DEF SchedulerInv

(* The clock.                                                              *)
LEMMA ClockTypes == SchedulerInv /\ Clock => TypeInv'
<1> SUFFICES ASSUME TypeInv, Clock PROVE TypeInv'
  BY DEF SchedulerInv
<1>1. now' \in 0 .. Day - 1
  BY OneInstant DEF TypeInv, Clock
<1>2. lag' \in Nat /\ due' \in BOOLEAN /\ punctual' \in BOOLEAN
  BY DEF TypeInv, Clock, Tick
<1>3. /\ calls' \in 0 .. 2 /\ uploads' \in 0 .. 2 /\ regular' \in BOOLEAN
      /\ ready' \in BOOLEAN
  <2>1. CASE StartsMinute(now')
    BY <2>1 DEF Clock
  <2>2. CASE ~StartsMinute(now')
    BY <2>2 DEF TypeInv, Clock
  <2> QED
    BY <2>1, <2>2
<1>4. UNCHANGED <<production, phase, pc, eventOdd, enough, open>>
  BY DEF Clock, loop
<1> QED
  BY <1>1, <1>2, <1>3, <1>4 DEF TypeInv

LEMMA ClockKeeps == SchedulerInv /\ Clock => SchedulerInv'
<1> SUFFICES ASSUME SchedulerInv, Clock PROVE SchedulerInv'
  OBVIOUS
<1>1. TypeInv'
  BY ClockTypes
<1>2. /\ UNCHANGED <<production, phase, pc, eventOdd, enough, open>>
      /\ Working => lag < Latency
      /\ lag' = IF Working \/ Away THEN lag + 1 ELSE 0
      /\ lag \in Nat /\ phase \in 0 .. Sub - 1
      /\ Working <=> pc \in Body \/ (pc = "wait" /\ due)
      /\ Working' <=> pc \in Body \/ (pc = "wait" /\ due')
  BY DEF Clock, loop, SchedulerInv, TypeInv, Working
<1>3. /\ Instant \in 0 .. Sub - 1 /\ Instant' \in 0 .. Sub - 1
      /\ Second \in 0 .. Seconds - 1 /\ Second' \in 0 .. Seconds - 1
      /\ due' <=> due \/ (Instant' = phase /\ pc # "down")
      /\ punctual' <=> punctual /\ Instant' # 0
  BY OneInstant DEF Clock, SchedulerInv, TypeInv, Tick
<1>4. pc \in Body => pc \notin {"wait", "trade", "upload", "down"}
  BY DEF Body
<1>5. CASE /\ Instant' = Instant + 1 /\ ~StartsMinute(now')
           /\ Second' = Second /\ Hour' = Hour
  <2>1. UNCHANGED <<calls, uploads, regular, ready>>
    BY <1>5 DEF Clock
  <2>2. AtClosedHour' <=> AtClosedHour
    BY <1>2, <1>5 DEF AtClosedHour
  <2>3. phase <= Instant /\ ~due => phase <= Instant' /\ ~due'
    BY <1>2, <1>3, <1>5
  <2>4. InSecond'
    BY <1>2, <1>3, <2>3 DEF SchedulerInv, InSecond
  <2>5. CalledOnce' /\ UploadedOnce' /\ NotTwice' /\ Counted'
    BY <1>2, <1>5, <2>1, <2>3
    DEF SchedulerInv, CalledOnce, UploadedOnce, NotTwice, Counted
  <2>6. HourRead'
    BY <1>2, <1>3, <2>2 DEF SchedulerInv, HourRead
  <2>7. Served'
    <3> SUFFICES ASSUME ready', InTime', Second' = 0
                 PROVE  /\ enough'
                        /\ \/ pc' = "wait" /\ ~due' /\ Instant' < phase'
                           \/ /\ Working' /\ Instant' = phase' + lag'
                              /\ pc' \in Body => ~due'
                              /\ pc' = "second" => ~AtClosedHour'
                              /\ pc' \in {"closedHour", "closedSecond"} => AtClosedHour'
                           \/ calls' > 0
                           \/ AtClosedHour' /\ ~eventOdd' /\ pc' = "wait" /\ ~due'
      BY <1>2, <2>1 DEF SchedulerInv, Served
    <3>1. ready /\ InTime /\ Second = 0
      BY <1>2, <1>5, <2>1 DEF InTime
    <3>2. CASE pc = "wait" /\ ~due /\ Instant < phase
      <4>1. ~Working /\ ~Away /\ lag' = 0
        BY <1>2, <1>4, <3>2 DEF Away
      <4> QED
        BY <1>2, <1>3, <1>4, <1>5, <3>1, <3>2, <4>1 DEF SchedulerInv, Served
    <3>3. CASE /\ Working /\ Instant = phase + lag
               /\ pc \in Body => ~due
               /\ pc = "second" => ~AtClosedHour
               /\ pc \in {"closedHour", "closedSecond"} => AtClosedHour
      <4>1. lag' = lag + 1 /\ Instant' = phase + lag' /\ Instant' # phase
        BY <1>2, <1>5, <3>3
      <4>2. due' <=> due
        BY <1>3, <4>1
      <4> QED
        BY <1>2, <2>2, <3>1, <3>3, <4>1, <4>2 DEF SchedulerInv, Served
    <3>4. CASE calls > 0
      BY <1>2, <2>1, <3>1, <3>4 DEF SchedulerInv, Served
    <3>5. CASE AtClosedHour /\ ~eventOdd /\ pc = "wait" /\ ~due
      <4>1. ~Working /\ ~Away /\ lag' = 0
        BY <1>2, <1>4, <3>5 DEF Away
      <4> QED
        BY <1>2, <1>3, <1>4, <2>2, <3>1, <3>5, <4>1 DEF SchedulerInv, Served
    <3> QED
      BY <3>1, <3>2, <3>3, <3>4, <3>5 DEF SchedulerInv, Served
  <2> QED
    BY <1>1, <2>4, <2>5, <2>6, <2>7 DEF SchedulerInv
<1>6. CASE Instant' = 0 /\ ~StartsMinute(now') /\ Second' = Second + 1
  <2>1. UNCHANGED <<calls, uploads, regular, ready>> /\ ~punctual'
    BY <1>3, <1>6 DEF Clock
  <2>2. InSecond' /\ CalledOnce' /\ NotTwice' /\ Counted'
    BY <1>2, <1>3, <1>6, <2>1 DEF SchedulerInv, InSecond, CalledOnce, NotTwice, Counted
  <2>3. UploadedOnce'
    BY <1>3, <1>6, <2>1, UploadAssumption DEF SchedulerInv, UploadedOnce
  <2>4. HourRead' /\ Served'
    BY <1>2, <1>3, <1>6, <2>1 DEF SchedulerInv, HourRead, Served
  <2> QED
    BY <1>1, <2>2, <2>3, <2>4 DEF SchedulerInv
<1>7. CASE Instant' = 0 /\ StartsMinute(now') /\ Second' = 0
  <2>1. /\ calls' = 0 /\ uploads' = 0 /\ regular' = TRUE /\ ~punctual'
        /\ ready' <=> pc = "wait" /\ ~due /\ enough
    BY <1>3, <1>7 DEF Clock
  <2>2. InSecond' /\ CalledOnce' /\ UploadedOnce' /\ NotTwice' /\ Counted'
    BY <1>2, <2>1
    DEF SchedulerInv, InSecond, CalledOnce, UploadedOnce, NotTwice, Counted
  <2>3. HourRead'
    BY <1>2, <2>1 DEF SchedulerInv, HourRead
  <2>4. ready' => pc = "wait" /\ enough /\ lag' = 0 /\ (due' <=> phase = 0)
    BY <1>2, <1>3, <1>4, <1>7, <2>1 DEF Away
  <2>5. Served'
    BY <1>2, <1>4, <1>7, <2>1, <2>4 DEF Served
  <2> QED
    BY <1>1, <2>2, <2>3, <2>5 DEF SchedulerInv
<1>8. /\ now \in 0 .. Day - 1 /\ now' = (now + 1) % Day
  BY DEF Clock, SchedulerInv, TypeInv
<1> QED
  BY <1>5, <1>6, <1>7, <1>8, OneInstant

(* The loop takes the tick: in time if the tick has just come.             *)
LEMMA TakeKeeps == SchedulerInv /\ Take => SchedulerInv'
<1> SUFFICES ASSUME SchedulerInv, Take PROVE SchedulerInv'
  OBVIOUS
<1>1. /\ pc = "wait" /\ due /\ pc' = "count" /\ due' = FALSE
      /\ punctual' <=> lag = 0 /\ Instant = phase
      /\ UNCHANGED <<production, now, phase, enough, open, lag, eventOdd, calls, uploads,
                     regular, ready>>
  BY DEF Take, Goto, environment, Instant
<1>2. Instant' = Instant /\ Second' = Second /\ (AtClosedHour' <=> AtClosedHour)
  BY <1>1, ClockStands
<1>3. punctual' \in BOOLEAN
  BY DEF Take
<1>4. TypeInv'
  BY <1>1, <1>3 DEF SchedulerInv, TypeInv, Body
<1>5. InSecond' /\ CalledOnce' /\ UploadedOnce' /\ NotTwice' /\ Counted' /\ HourRead'
  BY <1>1, <1>2
  DEF SchedulerInv, TypeInv, InSecond, CalledOnce, UploadedOnce, NotTwice, Counted, HourRead
<1>6. Served'
  BY <1>1, <1>2 DEF SchedulerInv, TypeInv, Served, Working, InTime, Body
<1> QED
  BY <1>4, <1>5, <1>6 DEF SchedulerInv

(* The steps of the body that read: what they read and where they go.      *)
LEMMA ReadingKeeps ==
    SchedulerInv /\ (ReadCount \/ ReadCandles \/ ReadHour \/ ReadClosedHour) => SchedulerInv'
<1> SUFFICES ASSUME SchedulerInv, ReadCount \/ ReadCandles \/ ReadHour \/ ReadClosedHour
             PROVE SchedulerInv'
  OBVIOUS
<1>1. /\ UNCHANGED <<production, now, phase, enough, open, due, calls, uploads, punctual,
                     regular, ready>>
      /\ pc \in Body /\ pc' \in (Body \ {"count"}) \union {"wait"}
      /\ pc = "count" \/ eventOdd' = eventOdd
      /\ pc' # "wait" => lag' = lag
      /\ lag' = lag \/ lag' = 0
  BY DEF ReadCount, ReadCandles, ReadHour, ReadClosedHour, Goto, Wait, environment, history,
         Body
<1>2. Instant' = Instant /\ Second' = Second /\ (AtClosedHour' <=> AtClosedHour)
  BY <1>1, ClockStands
<1>3. \/ pc = "count" /\ pc' = "candles" /\ (eventOdd' = open \/ eventOdd' = FALSE)
      \/ pc = "candles" /\ pc' = IF enough THEN IF production THEN "upload?" ELSE "hour"
                                           ELSE "wait"
      \/ pc = "hour" /\ pc' = IF AtClosedHour THEN "closedHour" ELSE "second"
      \/ pc = "closedHour" /\ pc' = IF AtClosedHour /\ eventOdd THEN "closedSecond" ELSE "wait"
  BY DEF ReadCount, ReadCandles, ReadHour, ReadClosedHour, Goto, Wait
<1>4. TypeInv'
  <2>1. eventOdd' \in BOOLEAN
    BY <1>1, <1>3 DEF SchedulerInv, TypeInv
  <2>2. lag' \in Nat
    BY <1>1 DEF SchedulerInv, TypeInv
  <2> QED
    BY <1>1, <2>1, <2>2 DEF SchedulerInv, TypeInv
<1>5. InSecond'
  BY <1>1, <1>2 DEF SchedulerInv, InSecond, Body
<1>6. CalledOnce' /\ UploadedOnce' /\ NotTwice'
  BY <1>1, <1>2, <1>3 DEF SchedulerInv, CalledOnce, UploadedOnce, NotTwice, Body
<1>7. Counted'
  BY <1>1, <1>3 DEF SchedulerInv, TypeInv, Counted, Body
<1>8. HourRead'
  BY <1>1, <1>2, <1>3 DEF SchedulerInv, HourRead, Body
<1>9. Served'
  <2> SUFFICES ASSUME ready, InTime, Second = 0, calls <= 0
               PROVE  /\ enough
                      /\ \/ /\ pc' \in Body /\ Instant = phase + lag' /\ ~due
                            /\ pc' = "second" => ~AtClosedHour
                            /\ pc' \in {"closedHour", "closedSecond"} => AtClosedHour
                         \/ AtClosedHour /\ ~eventOdd' /\ pc' = "wait" /\ ~due
    BY <1>1, <1>2 DEF SchedulerInv, TypeInv, Served, Working, InTime, Body
  <2>1. /\ enough /\ Instant = phase + lag /\ ~due
        /\ pc = "closedHour" => AtClosedHour
    BY <1>1 DEF SchedulerInv, TypeInv, Served, Body
  <2>2. CASE pc' = "wait"
    BY <1>1, <1>3, <2>1, <2>2 DEF Body
  <2>3. CASE pc' # "wait"
    BY <1>1, <1>3, <2>1, <2>3 DEF Body
  <2> QED
    BY <2>2, <2>3
<1> QED
  BY <1>4, <1>5, <1>6, <1>7, <1>8, <1>9 DEF SchedulerInv

(* A call of Trade begins: the only one of an iteration in time.           *)
LEMMA CallKeeps == SchedulerInv /\ (ReadSecond \/ ReadClosedSecond) => SchedulerInv'
<1> SUFFICES ASSUME SchedulerInv, ReadSecond \/ ReadClosedSecond PROVE SchedulerInv'
  OBVIOUS
<1>1. /\ UNCHANGED <<production, now, phase, enough, open, due, eventOdd, uploads, punctual,
                     ready>>
      /\ pc \in {"second", "closedSecond"}
  BY DEF ReadSecond, ReadClosedSecond, CallTrade, Goto, Wait, environment
<1>2. Instant' = Instant /\ Second' = Second /\ (AtClosedHour' <=> AtClosedHour)
  BY <1>1, ClockStands
<1>3. CASE AtSecondZero
  <2>1. /\ pc' = "trade" /\ lag' = 0 /\ calls' = IF calls + 1 <= 2 THEN calls + 1 ELSE 2
        /\ regular' <=> regular /\ punctual
        /\ Second = 0
    BY <1>3 DEF ReadSecond, ReadClosedSecond, CallTrade, Goto, Least, AtSecondZero
  <2>2. regular' \in BOOLEAN
    BY <1>3 DEF SchedulerInv, TypeInv, ReadSecond, ReadClosedSecond, CallTrade
  <2>3. calls \in 0 .. 2 /\ calls' \in 1 .. 2
    BY <2>1 DEF SchedulerInv, TypeInv
  <2>4. TypeInv'
    BY <1>1, <2>1, <2>2, <2>3 DEF SchedulerInv, TypeInv
  <2>5. InSecond' /\ Counted' /\ Served'
    BY <1>1, <1>2, <2>1, <2>3
    DEF SchedulerInv, InSecond, Counted, Served, Body, InTime
  <2>6. regular' => calls = 0 /\ calls' = 1 /\ ~due /\ phase <= Instant
    BY <1>1, <2>1, <2>3 DEF SchedulerInv, InSecond, CalledOnce, Body
  <2>7. CalledOnce' /\ NotTwice'
    BY <1>1, <1>2, <2>1, <2>6 DEF SchedulerInv, CalledOnce, NotTwice
  <2>8. UploadedOnce'
    BY <1>1, <1>2, <2>1, UploadAssumption DEF SchedulerInv, UploadedOnce
  <2>9. HourRead'
    BY <1>1, <1>2, <2>1 DEF SchedulerInv, HourRead
  <2> QED
    BY <2>4, <2>5, <2>7, <2>8, <2>9 DEF SchedulerInv
<1>4. CASE ~AtSecondZero
  <2>1. /\ UNCHANGED <<calls, regular>> /\ pc' \in {"closedHour", "wait"}
        /\ lag' = lag \/ lag' = 0
        /\ Second # 0
    BY <1>4 DEF ReadSecond, ReadClosedSecond, Goto, Wait, AtSecondZero
  <2>2. TypeInv'
    BY <1>1, <2>1 DEF SchedulerInv, TypeInv, Body
  <2>3. InSecond' /\ CalledOnce' /\ UploadedOnce' /\ NotTwice'
    BY <1>1, <1>2, <2>1
    DEF SchedulerInv, InSecond, CalledOnce, UploadedOnce, NotTwice, Body
  <2>4. Counted' /\ HourRead' /\ Served'
    BY <1>1, <1>2, <2>1 DEF SchedulerInv, Counted, HourRead, Served
  <2> QED
    BY <2>2, <2>3, <2>4 DEF SchedulerInv
<1> QED
  BY <1>3, <1>4

(* The upload.                                                             *)
LEMMA UploadKeeps == SchedulerInv /\ (UploadCheck \/ Upload) => SchedulerInv'
<1> SUFFICES ASSUME SchedulerInv, UploadCheck \/ Upload PROVE SchedulerInv'
  OBVIOUS
<1>1. /\ UNCHANGED <<production, now, phase, enough, open, due, eventOdd, calls, punctual,
                     ready>>
      /\ pc' \in {"hour", "upload"}
  BY DEF UploadCheck, Upload, Goto, environment, history
<1>2. Instant' = Instant /\ Second' = Second /\ (AtClosedHour' <=> AtClosedHour)
  BY <1>1, ClockStands
<1>3. CASE UploadCheck /\ UploadIsDue
  <2>1. /\ pc = "upload?" /\ pc' = "upload" /\ lag' = 0
        /\ uploads' = IF uploads + 1 <= 2 THEN uploads + 1 ELSE 2
        /\ Second = UploadSecond
    BY <1>3 DEF UploadCheck, UploadIsDue, Goto, Least
  <2>2. regular' \in BOOLEAN /\ (regular' => regular /\ punctual)
    BY <1>3 DEF SchedulerInv, TypeInv, UploadCheck
  <2>3. uploads \in 0 .. 2 /\ uploads' \in 1 .. 2 /\ Second # 0
    BY <2>1, UploadAssumption DEF SchedulerInv, TypeInv
  <2>4. TypeInv'
    BY <1>1, <2>1, <2>2, <2>3 DEF SchedulerInv, TypeInv
  <2>5. InSecond' /\ Counted' /\ HourRead' /\ Served' /\ CalledOnce'
    BY <1>1, <1>2, <2>1, <2>2, <2>3
    DEF SchedulerInv, InSecond, Counted, HourRead, Served, CalledOnce, Body
  <2>6. regular' => uploads = 0 /\ uploads' = 1 /\ ~due /\ phase <= Instant
    BY <1>1, <2>1, <2>2, <2>3 DEF SchedulerInv, InSecond, UploadedOnce, Body
  <2>7. UploadedOnce' /\ NotTwice'
    <3>1. UploadSecond \in Int
      BY UploadAssumption
    <3> QED
      BY <1>1, <1>2, <2>1, <2>2, <2>6, <3>1 DEF SchedulerInv, UploadedOnce, NotTwice
  <2> QED
    BY <2>4, <2>5, <2>7 DEF SchedulerInv
<1>4. CASE Upload \/ (UploadCheck /\ ~UploadIsDue)
  <2>1. /\ UNCHANGED <<uploads, regular>> /\ pc' = "hour"
        /\ \/ pc = "upload?" /\ lag' = lag
           \/ pc = "upload" /\ lag' = 0
    BY <1>4 DEF UploadCheck, Upload, Goto, history
  <2>2. TypeInv'
    BY <1>1, <2>1 DEF SchedulerInv, TypeInv, Body
  <2>3. InSecond' /\ CalledOnce' /\ UploadedOnce' /\ NotTwice'
    BY <1>1, <1>2, <2>1
    DEF SchedulerInv, InSecond, CalledOnce, UploadedOnce, NotTwice, Body
  <2>4. Counted' /\ HourRead'
    BY <1>1, <1>2, <2>1 DEF SchedulerInv, Counted, HourRead
  <2>5. Served'
    BY <1>1, <1>2, <2>1 DEF SchedulerInv, Served, Working, Body, InTime
  <2> QED
    BY <2>2, <2>3, <2>4, <2>5 DEF SchedulerInv
<1> QED
  BY <1>3, <1>4

(* Trade returns, the process ends and is started again, candles come.     *)
LEMMA RestKeeps ==
    SchedulerInv /\ (TradeReturns \/ ReadCandlesPanic \/ UploadFatal \/ Restart \/ MoreCandles)
        => SchedulerInv'
<1> SUFFICES ASSUME SchedulerInv,
                    TradeReturns \/ ReadCandlesPanic \/ UploadFatal \/ Restart \/ MoreCandles
             PROVE SchedulerInv'
  OBVIOUS
<1>1. UNCHANGED <<production, now, eventOdd, calls, uploads, punctual, regular>>
  BY DEF TradeReturns, ReadCandlesPanic, UploadFatal, Restart, MoreCandles, environment,
         history, loop
<1>2. /\ Instant' = Instant /\ Second' = Second /\ (AtClosedHour' <=> AtClosedHour)
      /\ Instant \in 0 .. Sub - 1
  BY <1>1, ClockStands, TimeRead DEF SchedulerInv, TypeInv, Instant
<1>3. CASE TradeReturns
  <2>1. /\ pc = "trade" /\ pc' = "wait" /\ lag' = 0 /\ open' \in BOOLEAN
        /\ UNCHANGED <<due, phase, enough, ready>>
    BY <1>3 DEF TradeReturns, Wait, history
  <2>2. TypeInv' /\ InSecond' /\ CalledOnce' /\ UploadedOnce' /\ NotTwice'
    BY <1>1, <1>2, <2>1
    DEF SchedulerInv, TypeInv, InSecond, CalledOnce, UploadedOnce, NotTwice, Body
  <2>3. Counted' /\ HourRead' /\ Served'
    BY <1>1, <1>2, <2>1 DEF SchedulerInv, Counted, HourRead, Served, Working, Body, InTime
  <2> QED
    BY <2>2, <2>3 DEF SchedulerInv
<1>4. CASE ReadCandlesPanic \/ UploadFatal
  <2>1. /\ pc \in {"candles", "upload"} /\ pc' = "down" /\ ready' = FALSE
        /\ UNCHANGED <<due, phase, enough, open, lag>>
    BY <1>4 DEF ReadCandlesPanic, UploadFatal, Goto, environment
  <2>2. TypeInv' /\ InSecond' /\ CalledOnce' /\ UploadedOnce' /\ NotTwice'
    BY <1>1, <1>2, <2>1
    DEF SchedulerInv, TypeInv, InSecond, CalledOnce, UploadedOnce, NotTwice, Body
  <2>3. Counted' /\ HourRead' /\ Served'
    BY <1>1, <1>2, <2>1 DEF SchedulerInv, Counted, HourRead, Served
  <2> QED
    BY <2>2, <2>3 DEF SchedulerInv
<1>5. CASE Restart
  <2>1. /\ pc = "down" /\ pc' = "wait" /\ due' = FALSE /\ lag' = 0 /\ phase' = Instant
        /\ UNCHANGED <<enough, open, ready>>
    BY <1>5 DEF Restart, Instant, history
  <2>2. TypeInv'
    <3>1. due' \in BOOLEAN
      BY <2>1
    <3> QED
      BY <1>1, <1>2, <2>1, <3>1 DEF SchedulerInv, TypeInv
  <2>3. InSecond' /\ CalledOnce' /\ UploadedOnce' /\ NotTwice'
    BY <1>1, <1>2, <2>1
    DEF SchedulerInv, TypeInv, InSecond, CalledOnce, UploadedOnce, NotTwice, Body
  <2>4. Counted' /\ HourRead' /\ Served'
    BY <1>1, <1>2, <2>1 DEF SchedulerInv, Counted, HourRead, Served
  <2> QED
    BY <2>2, <2>3, <2>4 DEF SchedulerInv
<1>6. CASE MoreCandles
  <2>1. enough' = TRUE /\ UNCHANGED <<pc, due, phase, open, lag, ready>>
    BY <1>6 DEF MoreCandles, loop, history
  <2>2. TypeInv' /\ InSecond' /\ CalledOnce' /\ UploadedOnce' /\ NotTwice'
    BY <1>1, <1>2, <2>1
    DEF SchedulerInv, TypeInv, InSecond, CalledOnce, UploadedOnce, NotTwice
  <2>3. Counted' /\ HourRead' /\ Served'
    BY <1>1, <1>2, <2>1 DEF SchedulerInv, Counted, HourRead, Served, Working, InTime
  <2> QED
    BY <2>2, <2>3 DEF SchedulerInv
<1> QED
  BY <1>3, <1>4, <1>5, <1>6

LEMMA SchedulerNext == SchedulerInv /\ [Next]_vars => SchedulerInv'
<1> SUFFICES ASSUME SchedulerInv, [Next]_vars PROVE SchedulerInv'
  OBVIOUS
<1>1. CASE UNCHANGED vars
  <2>1. UNCHANGED <<now, production>>
    BY <1>1 DEF vars
  <2> QED
    BY <1>1, <2>1, ClockStands
    DEF vars, loop, history, SchedulerInv, TypeInv, InSecond, CalledOnce, UploadedOnce,
        NotTwice, Counted, HourRead, Served, Working, InTime
<1>2. CASE Next
  BY <1>2, ClockKeeps, TakeKeeps, ReadingKeeps, CallKeeps, UploadKeeps, RestKeeps
  DEF Next, Step
<1> QED
  BY <1>1, <1>2

LEMMA SchedulerInvariant == Spec => []SchedulerInv
  BY SchedulerInit, SchedulerNext, PTL DEF Spec

-----------------------------------------------------------------------------
(* Two calls of Trade in a minute, or two uploads in their second, take an *)
(* iteration that began from a tick kept in the channel or ran over the    *)
(* second (bitflyerController.go, the loop over time.Tick).                *)
THEOREM TwiceTheorem == Spec => []TwiceOnlyIfLate
<1>1. SchedulerInv => TwiceOnlyIfLate
  BY DEF SchedulerInv, NotTwice, TwiceOnlyIfLate
<1> QED
  BY <1>1, SchedulerInvariant, PTL

(* In the hour of the maintenance an iteration in time calls Trade only    *)
(* with a position open, though that hour, the count and the second are    *)
(* read one after the other (bitflyerController.go, the condition of the   *)
(* call).                                                                  *)
THEOREM ClosedHourTheorem == Spec => []ClosedHourOnlyCloses
<1>1. SchedulerInv => ClosedHourOnlyCloses
  BY DEF SchedulerInv, HourRead, Counted, ClosedHourOnlyCloses
<1> QED
  BY <1>1, SchedulerInvariant, PTL

(* A minute that finds the loop waiting is served before its second 0 is   *)
(* over, wherever in the second the ticks come, if the body is through     *)
(* within the second (bitflyerController.go, time.Tick and time.Now).      *)
THEOREM MinuteTheorem == Spec => MinuteServed
<1> DEFINE Kept == Second = 0 /\ Second' # 0 /\ ready /\ InTime /\ (AtClosedHour => eventOdd)
                   => calls > 0
<1>1. SchedulerInv /\ [Next]_vars => [Kept]_vars
  <2> SUFFICES ASSUME SchedulerInv, [Next]_vars, Second = 0, Second' # 0, ready, InTime,
                      AtClosedHour => eventOdd
               PROVE  calls > 0
    BY DEF vars
  <2>1. CASE Clock
    <3>1. now \in 0 .. Day - 1 /\ now' = (now + 1) % Day
      BY <2>1 DEF Clock, SchedulerInv, TypeInv
    <3>2. Instant = Sub - 1
      BY <3>1, OneInstant
    <3>3. phase \in 0 .. Sub - 1 /\ lag \in Nat /\ phase + Latency < Sub
          /\ Latency \in Nat /\ Sub \in Nat /\ (Working => lag < Latency)
      BY <2>1, Units, BoundAssumption DEF Clock, SchedulerInv, TypeInv, InTime
    <3> QED
      BY <3>2, <3>3 DEF SchedulerInv, Served
  <2>2. CASE UNCHANGED <<now, production>>
    BY <2>2, ClockStands
  <2>3. Next \/ UNCHANGED vars => Clock \/ UNCHANGED <<now, production>>
    BY DEF Next, Step, MoreCandles, Take, ReadCount, ReadCandles, UploadCheck, Upload, ReadHour,
           ReadSecond, ReadClosedHour, ReadClosedSecond, TradeReturns, ReadCandlesPanic,
           UploadFatal, Restart, environment, vars
  <2> QED
    BY <2>1, <2>2, <2>3
<1>2. Spec => [][Kept]_vars
  BY <1>1, SchedulerInvariant, PTL DEF Spec
<1> QED
  BY <1>2 DEF MinuteServed

=============================================================================
