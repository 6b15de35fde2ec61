------------------------- MODULE Computation_proofs -------------------------
(***************************************************************************)
(* Proofs about what is computed apart from the tables: the sizes of       *)
(* orders, the lists of trades of the back tests, the choice of the        *)
(* indicators, and the lines of the cloud; for every account, every        *)
(* value of an indicator, every result of the back tests, every series of  *)
(* closes, and any number of failures.                                     *)
(***************************************************************************)
EXTENDS Computation, Induction, FunctionTheorems

-----------------------------------------------------------------------------
(* The total of a list.                                                    *)

IsSum(g, list) ==
    /\ g \in [0 .. Len(list) -> Int] /\ g[0] = 0
    /\ \A k \in 1 .. Len(list) : g[k] = g[k - 1] + list[k]

(* Two sums agree as far as their lists do.                                *)
LEMMA SumsAgree ==
    ASSUME NEW a \in Seq(Int), NEW b \in Seq(Int), Len(a) <= Len(b),
           \A k \in 1 .. Len(a) : a[k] = b[k],
           NEW g, IsSum(g, a), NEW h, IsSum(h, b)
    PROVE  g[Len(a)] = h[Len(a)]
<1> DEFINE S == {m \in Nat : m <= Len(a) => g[m] = h[m]}
<1>1. 0 \in S
  BY DEF IsSum
<1>2. ASSUME NEW m \in Nat, m \in S PROVE m + 1 \in S
  <2> SUFFICES ASSUME m + 1 <= Len(a) PROVE g[m + 1] = h[m + 1]
    OBVIOUS
  <2>1. m + 1 \in 1 .. Len(a) /\ m + 1 \in 1 .. Len(b) /\ (m + 1) - 1 = m /\ g[m] = h[m]
    BY <1>2
  <2> QED
    BY <2>1 DEF IsSum
<1> HIDE DEF S
<1>3. \A m \in Nat : m \in S
  BY <1>1, <1>2, SetInduction
<1> QED
  BY <1>3 DEF S

LEMMA SumExists ==
    ASSUME NEW list \in Seq(Int)
    PROVE  \E g : IsSum(g, list)
<1> DEFINE n == Len(list)
           step == [k \in 1 .. n |-> [v \in Int |-> v + list[k]]]
<1>1. n \in Nat /\ 0 \in Int /\ \A k \in 1 .. n : list[k] \in Int
  OBVIOUS
<1>2. step \in [1 .. n -> [Int -> Int]]
  BY <1>1
<1>3. \A k \in 1 .. n, v \in Int : step[k][v] = v + list[k]
  OBVIOUS
<1> HIDE DEF step
<1>4. PICK g : Recurses(g, n, Int, 0, step)
  <2> HIDE DEF n
  <2> QED
    BY <1>1, <1>2, Recursion
<1>5. \A k \in 1 .. n : k - 1 \in 0 .. n
  BY <1>1
<1>6. \A k \in 1 .. n : g[k] = g[k - 1] + list[k]
  BY <1>3, <1>4, <1>5 DEF Recurses
<1> QED
  BY <1>4, <1>6 DEF IsSum, Recurses

LEMMA TotalIsSum ==
    ASSUME NEW list \in Seq(Int)
    PROVE  \E g : IsSum(g, list) /\ Total(list) = g[Len(list)]
<1> DEFINE Whole(g) == g = [k \in 0 .. Len(list) |-> IF k = 0 THEN 0 ELSE g[k - 1] + list[k]]
           sum == CHOOSE g : Whole(g)
<1>1. PICK g : IsSum(g, list)
  BY SumExists
<1>2. Whole(g)
  BY <1>1 DEF IsSum
<1>3. Whole(sum)
  BY <1>2
<1>4. Total(list) = sum[Len(list)]
  BY DEF Total
<1> HIDE DEF sum
<1>5. IsSum(sum, list)
  <2> DEFINE S == {m \in Nat : m <= Len(list) => sum[m] \in Int}
  <2>1. 0 \in S
    BY <1>3
  <2>2. ASSUME NEW m \in Nat, m \in S PROVE m + 1 \in S
    BY <1>3, <2>2
  <2> HIDE DEF S
  <2>3. \A m \in Nat : m \in S
    BY <2>1, <2>2, SetInduction
  <2>4. \A m \in 0 .. Len(list) : sum[m] \in Int
    BY <2>3 DEF S
  <2>5. sum \in [0 .. Len(list) -> Int]
    BY <1>3, <2>4
  <2>6. sum[0] = 0
    BY <1>3
  <2>7. \A k \in 1 .. Len(list) : sum[k] = sum[k - 1] + list[k]
    BY <1>3
  <2> QED
    BY <2>5, <2>6, <2>7 DEF IsSum
<1> QED
  BY <1>4, <1>5

(* What one part more adds to a position.                                  *)
LEMMA TotalAppend ==
    ASSUME NEW list \in Seq(Int), NEW x \in Int
    PROVE  /\ Total(list) \in Int
           /\ Total(Append(list, x)) = Total(list) + x
<1> DEFINE longer == Append(list, x)
<1>1. /\ longer \in Seq(Int) /\ Len(longer) = Len(list) + 1 /\ Len(list) \in Nat
      /\ longer[Len(list) + 1] = x
      /\ \A k \in 1 .. Len(list) : list[k] = longer[k]
  OBVIOUS
<1> HIDE DEF longer
<1>2. PICK g : IsSum(g, list) /\ Total(list) = g[Len(list)]
  BY TotalIsSum
<1>3. PICK h : IsSum(h, longer) /\ Total(longer) = h[Len(longer)]
  BY <1>1, TotalIsSum
<1>4. Len(list) <= Len(longer)
  BY <1>1
<1>5. g[Len(list)] = h[Len(list)]
  BY <1>1, <1>2, <1>3, <1>4, SumsAgree
<1>6. h[Len(list) + 1] = h[Len(list)] + x
  <2>1. Len(list) + 1 \in 1 .. Len(longer) /\ (Len(list) + 1) - 1 = Len(list)
    BY <1>1
  <2> QED
    BY <1>1, <1>3, <2>1 DEF IsSum
<1>7. g[Len(list)] \in Int
  BY <1>1, <1>2 DEF IsSum
<1> QED
  BY <1>1, <1>2, <1>3, <1>5, <1>6, <1>7 DEF longer

LEMMA TotalOfFew ==
    /\ Total(<< >>) = 0
    /\ \A x \in Int : Total(<< x >>) = x
<1>1. << >> \in Seq(Int) /\ Len(<< >>) = 0
  OBVIOUS
<1>2. Total(<< >>) = 0
  BY <1>1, TotalIsSum DEF IsSum
<1>3. \A x \in Int : << x >> = Append(<< >>, x)
  OBVIOUS
<1>4. \A x \in Int : Total(<< x >>) = 0 + x
  BY <1>1, <1>2, <1>3, TotalAppend
<1> QED
  BY <1>2, <1>4

-----------------------------------------------------------------------------
(* Division, and the whole numbers of 0.0001.                              *)

LEMMA Division ==
    ASSUME NEW n \in Nat, NEW k \in Nat \ {0}
    PROVE  n \div k \in Nat /\ n % k \in 0 .. k - 1 /\ n = k * (n \div k) + (n % k)
  OBVIOUS

LEMMA MultipleBelow ==
    ASSUME NEW k \in Nat \ {0}, NEW x \in Nat, NEW y \in Nat, NEW r \in Nat,
           NEW s \in 0 .. k - 1, k * x + r = k * y + s
    PROVE  x <= y
<1> SUFFICES ASSUME y + 1 <= x PROVE FALSE
  OBVIOUS
<1>1. k * x \in Nat /\ k * y \in Nat
  OBVIOUS
<1>2. k * (y + 1) <= k * x
  OBVIOUS
<1>3. k * (y + 1) = k * y + k
  OBVIOUS
<1> QED
  BY <1>1, <1>2, <1>3

LEMMA DivisionUnique ==
    ASSUME NEW n \in Nat, NEW k \in Nat \ {0}, NEW y \in Nat, NEW s \in 0 .. k - 1,
           n = k * y + s
    PROVE  n \div k = y /\ n % k = s
<1> DEFINE x == n \div k
           r == n % k
<1>1. x \in Nat /\ r \in 0 .. k - 1 /\ n = k * x + r
  BY Division
<1> HIDE DEF x, r
<1>2. x <= y /\ y <= x
  BY <1>1, MultipleBelow
<1>3. x = y
  BY <1>1, <1>2
<1>4. k * x = k * y /\ k * y \in Nat
  BY <1>3
<1>5. r = s
  BY <1>1, <1>4
<1> QED
  BY <1>3, <1>5 DEF x, r

(* A size that rounding leaves as it is.                                   *)
Whole(x) == x \in Nat /\ x % Step = 0

LEMMA WholeIsMultiple ==
    \A x : Whole(x) <=> \E q \in Nat : x = Step * q
<1>1. Step \in Nat \ {0} /\ 0 \in 0 .. Step - 1
  BY StepAssumption
<1>2. ASSUME NEW x, Whole(x) PROVE \E q \in Nat : x = Step * q
  <2>1. x \div Step \in Nat /\ x = Step * (x \div Step) + (x % Step) /\ x % Step = 0
    BY <1>1, <1>2, Division DEF Whole
  <2> DEFINE q == x \div Step
  <2> HIDE DEF q
  <2>2. Step * q \in Nat /\ q \in Nat
    BY <1>1, <2>1 DEF q
  <2>3. x = Step * q
    BY <2>1, <2>2 DEF q
  <2> QED
    BY <2>2, <2>3
<1>3. ASSUME NEW q \in Nat PROVE Whole(Step * q)
  <2> DEFINE x == Step * q
  <2>1. x \in Nat /\ x = Step * q + 0
    BY <1>1
  <2> HIDE DEF x
  <2>2. x % Step = 0
    BY <1>1, <2>1, DivisionUnique
  <2> QED
    BY <2>1, <2>2 DEF x, Whole
<1> QED
  BY <1>2, <1>3

LEMMA WholeSum ==
    ASSUME NEW x, NEW y, Whole(x), Whole(y)
    PROVE  Whole(x + y) /\ (y <= x => Whole(x - y))
<1>1. PICK p \in Nat : x = Step * p
  BY WholeIsMultiple
<1>2. PICK q \in Nat : y = Step * q
  BY WholeIsMultiple
<1>3. Step \in Nat \ {0} /\ x \in Nat /\ y \in Nat
  BY StepAssumption DEF Whole
<1>4. x + y = Step * (p + q) /\ p + q \in Nat
  BY <1>1, <1>2, <1>3
<1>5. Whole(x + y)
  BY <1>4, WholeIsMultiple
<1>6. ASSUME y <= x PROVE Whole(x - y)
  <2>1. q <= p
    <3>1. Step * q + 0 <= Step * p
      BY <1>1, <1>2, <1>3, <1>6
    <3> SUFFICES ASSUME p + 1 <= q PROVE FALSE
      OBVIOUS
    <3>2. Step * (p + 1) <= Step * q /\ Step * (p + 1) = Step * p + Step
      BY <1>3
    <3>3. Step * p \in Nat /\ Step * q \in Nat
      BY <1>3
    <3> QED
      BY <1>3, <3>1, <3>2, <3>3
  <2>2. p - q \in Nat /\ x - y = Step * (p - q)
    BY <1>1, <1>2, <1>3, <2>1
  <2> QED
    BY <2>2, WholeIsMultiple
<1> QED
  BY <1>5, <1>6

(* Rounding down leaves a size to trade; rounding a sum that is off a little
   gives back the size it was a sum of. *)
LEMMA Rounded ==
    /\ \A s \in Nat : Whole(AdjustSize(s)) /\ AdjustSize(s) <= s
    /\ \A s \in Nat, e \in {-1, 0, 1} : Whole(s) => RoundSize(s + e) = s
<1>1. Step \in Nat \ {0} /\ Step > 2
  BY StepAssumption
<1>2. ASSUME NEW s \in Nat PROVE Whole(AdjustSize(s)) /\ AdjustSize(s) <= s
  <2> DEFINE q == s \div Step
             r == s % Step
  <2>1. q \in Nat /\ r \in 0 .. Step - 1 /\ s = Step * q + r
    BY <1>1, Division
  <2>2. AdjustSize(s) = q * Step
    BY DEF AdjustSize
  <2> HIDE DEF q, r
  <2>3. q * Step = Step * q /\ Step * q \in Nat
    BY <1>1, <2>1
  <2> QED
    BY <2>1, <2>2, <2>3, WholeIsMultiple
<1>3. ASSUME NEW s \in Nat, NEW e \in {-1, 0, 1}, Whole(s) PROVE RoundSize(s + e) = s
  <2>1. PICK q \in Nat : s = Step * q
    BY <1>3, WholeIsMultiple
  <2> DEFINE half == Step \div 2
             n == s + e + half
  <2>2. half \in Nat /\ e + half \in 0 .. Step - 1
    BY <1>1
  <2>3. n \in Nat /\ n = Step * q + (e + half)
    BY <2>1, <2>2
  <2>4. RoundSize(s + e) = (n \div Step) * Step
    BY DEF RoundSize
  <2> HIDE DEF n, half
  <2>5. n \div Step = q
    BY <1>1, <2>2, <2>3, DivisionUnique
  <2>6. q * Step = Step * q
    BY <1>1
  <2> QED
    BY <2>1, <2>4, <2>5, <2>6
<1> QED
  BY <1>2, <1>3

(* A new order is not a size, or a size the money pays for.                *)
LEMMA NewSizeIsCovered ==
    ASSUME NEW money \in Nat, NEW price \in Nat
    PROVE  \/ NewSize(money, price) \in {NaN, Inf}
           \/ /\ Whole(NewSize(money, price))
              /\ price > 0 /\ NewSize(money, price) * price <= money
<1>1. CASE price = 0
  BY <1>1 DEF NewSize
<1>2. CASE price # 0
  <2> DEFINE q == money \div price
             s == AdjustSize(q)
  <2>1. q \in Nat /\ money % price \in Nat /\ money = price * q + (money % price)
    BY <1>2, Division
  <2>2. NewSize(money, price) = s
    BY <1>2 DEF NewSize
  <2> HIDE DEF q
  <2>3. Whole(s) /\ s <= q
    BY <2>1, Rounded
  <2> HIDE DEF s
  <2>4. s \in Nat
    BY <2>3 DEF Whole
  <2>5. price * q \in Nat /\ s * price <= price * q /\ s * price \in Nat
    BY <2>1, <2>3, <2>4
  <2>6. s * price <= money
    <3> DEFINE a == price * q
               b == s * price
               r == money % price
    <3>1. a \in Nat /\ b \in Nat /\ r \in Nat /\ b <= a /\ money = a + r
      BY <2>1, <2>5
    <3> HIDE DEF a, b, r
    <3>2. b <= money
      BY <3>1
    <3> QED
      BY <3>2 DEF b
  <2> QED
    BY <1>2, <2>2, <2>3, <2>6
<1> QED
  BY <1>1, <1>2

-----------------------------------------------------------------------------
(* Orders.                                                                 *)

OrderTypes ==
    /\ pc \in {"idle", "ticker", "positions", "send"} /\ side \in Side /\ posSide \in Side
    /\ parts \in Seq(Nat) /\ use \in Nat /\ ask \in Nat /\ faults \in Nat
    /\ settling \in BOOLEAN

PositionIsWhole ==
    /\ Whole(Total(parts))
    /\ faults = 0 => Total(parts) = 0 \/ Total(parts) >= MinSize

(* The order about to be sent is of the size of the position, or new; and with
   no failure it is the one or the other for a reason. *)
SizeIsRight ==
    pc = "send" =>
        /\ size = IF settling THEN Total(parts) ELSE NewSize(use, ask)
        /\ faults = 0 => (settling <=> parts # << >>)

OrderInv == OrderTypes /\ PositionIsWhole /\ SizeIsRight /\ OrderIsCovered

LEMMA IntsOfNats == \A list \in Seq(Nat) : list \in Seq(Int)
  OBVIOUS

LEMMA TwoParts ==
    ASSUME NEW list \in Seq(Nat), NEW a \in Nat, NEW b \in Nat
    PROVE  /\ Append(list, a) \in Seq(Nat)
           /\ list \o << a, b >> = Append(Append(list, a), b)
<1> DEFINE left == list \o << a, b >>
           right == Append(Append(list, a), b)
<1>1. left \in Seq(Nat) /\ right \in Seq(Nat) /\ Len(left) = Len(list) + 2
      /\ Len(right) = Len(list) + 2 /\ Len(list) \in Nat
  OBVIOUS
<1>2. \A k \in 1 .. Len(list) + 2 : left[k] = right[k]
  OBVIOUS
<1> HIDE DEF left, right
<1>3. left = right
  BY <1>1, <1>2
<1> QED
  BY <1>3 DEF left, right

(* What an execution of an order makes of the position.                    *)
LEMMA ExecutedWhole ==
    ASSUME OrderTypes, Whole(Total(parts)), Whole(size), Executed(size)
    PROVE  /\ parts' \in Seq(Nat) /\ posSide' \in Side
           /\ \/ /\ parts = << >> \/ posSide = side
                 /\ Total(parts') = Total(parts) + size
              \/ /\ Closing /\ size = Total(parts) /\ parts' = << >>
              \/ /\ Closing /\ size # Total(parts) /\ Whole(Total(parts'))
<1>1. parts \in Seq(Nat) /\ parts \in Seq(Int) /\ side \in Side /\ posSide \in Side
  BY IntsOfNats DEF OrderTypes
<1>2. size \in Nat /\ Total(parts) \in Nat
  BY DEF Whole
<1>3. CASE parts = << >> \/ posSide = side
  <2>1. posSide' = side /\ \E split \in Splits(size) : parts' = parts \o split
    BY <1>3 DEF Executed
  <2>2. PICK split \in Splits(size) : parts' = parts \o split
    BY <2>1
  <2>3. CASE split = << size >>
    <3>1. parts' = Append(parts, size)
      BY <1>1, <1>2, <2>2, <2>3
    <3> QED
      BY <1>1, <1>2, <1>3, <2>1, <3>1, TotalAppend
  <2>4. CASE split # << size >>
    <3>1. PICK a \in {1, Step} \cap 1 .. size - 1 : split = << a, size - a >>
      BY <2>4 DEF Splits
    <3>2. a \in Nat /\ size - a \in Nat /\ a + (size - a) = size
      BY <1>2, <3>1
    <3> DEFINE b == size - a
    <3>3. b \in Nat /\ a + b = size /\ split = << a, b >>
      BY <3>1, <3>2
    <3> HIDE DEF b
    <3> DEFINE first == Append(parts, a)
    <3>4. parts' = Append(first, b) /\ first \in Seq(Nat) /\ first \in Seq(Int)
      BY <1>1, <2>2, <3>2, <3>3, TwoParts, IntsOfNats
    <3>5. Total(first) = Total(parts) + a
      BY <1>1, <3>2, TotalAppend
    <3> HIDE DEF first
    <3>6. Total(parts') = Total(first) + b
      BY <3>3, <3>4, TotalAppend
    <3>7. Total(parts') = Total(parts) + size
      BY <1>2, <3>2, <3>3, <3>5, <3>6
    <3>8. parts' \in Seq(Nat)
      BY <3>3, <3>4
    <3> QED
      BY <1>1, <1>3, <2>1, <3>7, <3>8
  <2> QED
    BY <2>3, <2>4
<1>4. CASE ~(parts = << >> \/ posSide = side)
  <2> DEFINE held == Total(parts)
  <2>1. Closing
    BY <1>4 DEF Closing
  <2>2. CASE size = held
    <3>1. posSide' = posSide /\ parts' = << >>
      BY <1>2, <1>4, <2>2 DEF Executed
    <3> QED
      BY <1>1, <2>1, <2>2, <3>1
  <2>3. CASE size < held
    <3>1. posSide' = posSide /\ parts' = << held - size >>
      BY <1>2, <1>4, <2>3 DEF Executed
    <3>2. Whole(held - size)
      BY <1>2, <2>3, WholeSum
    <3> DEFINE b == held - size
    <3>3. b \in Nat /\ parts' = << b >> /\ Whole(b)
      BY <3>1, <3>2 DEF Whole
    <3> HIDE DEF b
    <3>4. parts' \in Seq(Nat) /\ Total(parts') = b
      BY <3>3, TotalOfFew
    <3> QED
      BY <1>1, <1>2, <2>1, <2>3, <3>1, <3>3, <3>4
  <2>4. CASE size > held
    <3>1. posSide' = side /\ parts' = << size - held >>
      BY <1>2, <1>4, <2>4 DEF Executed
    <3>2. Whole(size - held)
      BY <1>2, <2>4, WholeSum
    <3> DEFINE b == size - held
    <3>3. b \in Nat /\ parts' = << b >> /\ Whole(b)
      BY <3>1, <3>2 DEF Whole
    <3> HIDE DEF b
    <3>4. parts' \in Seq(Nat) /\ Total(parts') = b
      BY <3>3, TotalOfFew
    <3> QED
      BY <1>1, <1>2, <2>1, <2>4, <3>1, <3>3, <3>4
  <2> QED
    BY <1>2, <2>2, <2>3, <2>4
<1> QED
  BY <1>3, <1>4

(* What is known of an order that is sent.                                 *)
LEMMA SentSize ==
    ASSUME OrderInv, pc = "send"
    PROVE  /\ size \in {NaN, Inf} \/ Whole(size)
           /\ settling \/ size \in {NaN, Inf} \/ (ask > 0 /\ size * ask <= use)
           /\ faults = 0 /\ Closing => size = Total(parts)
<1>1. use \in Nat /\ ask \in Nat /\ settling \in BOOLEAN /\ Whole(Total(parts))
      /\ size = (IF settling THEN Total(parts) ELSE NewSize(use, ask))
      /\ (faults = 0 => (settling <=> parts # << >>))
  BY DEF OrderInv, OrderTypes, PositionIsWhole, SizeIsRight
<1>2. CASE settling
  BY <1>1, <1>2
<1>3. CASE ~settling
  <2> DEFINE new == NewSize(use, ask)
  <2>1. \/ new \in {NaN, Inf}
        \/ Whole(new) /\ ask > 0 /\ new * ask <= use
    BY <1>1, NewSizeIsCovered
  <2> HIDE DEF new
  <2>2. size = new
    BY <1>1, <1>3 DEF new
  <2>3. ~(faults = 0 /\ Closing)
    BY <1>1, <1>3 DEF Closing
  <2> QED
    BY <2>1, <2>2, <2>3
<1> QED
  BY <1>2, <1>3

LEMMA OrderStart == OrderInit => OrderInv
<1> SUFFICES ASSUME OrderInit PROVE OrderInv
  OBVIOUS
<1>1. OrderTypes
  <2>1. parts \in Seq(Nat) /\ use \in Nat /\ ask \in Nat /\ faults \in Nat
    BY DEF OrderInit
  <2>2. pc \in {"idle", "ticker", "positions", "send"} /\ side \in Side /\ posSide \in Side
    BY DEF OrderInit, Side
  <2>3. settling \in BOOLEAN
    BY DEF OrderInit
  <2> QED
    BY <2>1, <2>2, <2>3 DEF OrderTypes
<1>2. PositionIsWhole
  <2>1. Total(parts) = 0 /\ 0 = Step * 0
    BY TotalOfFew, StepAssumption DEF OrderInit
  <2> QED
    BY <2>1, WholeIsMultiple DEF PositionIsWhole
<1>3. SizeIsRight
  BY DEF OrderInit, SizeIsRight
<1>4. OrderIsCovered
  BY DEF OrderInit, OrderIsCovered, NoOrder
<1> QED
  BY <1>1, <1>2, <1>3, <1>4 DEF OrderInv

(* Steps that leave the position alone.                                    *)
LEMMA PositionKept ==
    ASSUME OrderInv, UNCHANGED exchange, faults' \in Nat, faults' # faults => faults' # 0
    PROVE  PositionIsWhole' /\ OrderIsCovered'
  BY DEF OrderInv, PositionIsWhole, OrderIsCovered, exchange, Whole

ClosesAll == accepted' # accepted /\ accepted'.closing /\ faults' = 0 => parts' = << >>

LEMMA OrderStep == OrderInv /\ OrderNext => OrderInv' /\ ClosesAll
<1> SUFFICES ASSUME OrderInv, OrderNext PROVE OrderInv' /\ ClosesAll
  OBVIOUS
<1>0. /\ pc \in {"idle", "ticker", "positions", "send"} /\ side \in Side /\ posSide \in Side
      /\ parts \in Seq(Nat) /\ use \in Nat /\ ask \in Nat /\ faults \in Nat
      /\ settling \in BOOLEAN
  BY DEF OrderInv, OrderTypes
<1>1. CASE GetCollateral
  <2>1. UNCHANGED exchange /\ pc' = "ticker" /\ side' \in Side
        /\ ask' = ask /\ size' = size /\ settling' = settling
    BY <1>1 DEF GetCollateral
  <2>2. use' \in Nat /\ faults' \in Nat /\ (faults' # faults => faults' # 0)
    BY <1>0, <1>1, MoneyAssumption DEF GetCollateral, Fault
  <2>3. OrderTypes'
    BY <1>0, <2>1, <2>2 DEF OrderTypes, exchange
  <2>4. SizeIsRight'
    BY <2>1 DEF SizeIsRight
  <2>5. PositionIsWhole' /\ OrderIsCovered'
    BY <2>1, <2>2, PositionKept
  <2> QED
    BY <2>1, <2>3, <2>4, <2>5 DEF OrderInv, ClosesAll, exchange
<1>2. CASE GetTicker
  <2>1. UNCHANGED exchange /\ pc' = "positions" /\ side' = side
        /\ use' = use /\ size' = size /\ settling' = settling
    BY <1>2 DEF GetTicker
  <2>2. ask' \in Nat /\ faults' \in Nat /\ (faults' # faults => faults' # 0)
    <3>1. CASE ask' \in Asks /\ UNCHANGED faults
      BY <1>0, <3>1, AskAssumption
    <3>2. CASE Fault /\ ask' = 0
      BY <1>0, <3>2 DEF Fault
    <3> QED
      BY <1>2, <3>1, <3>2 DEF GetTicker
  <2>3. OrderTypes'
    BY <1>0, <2>1, <2>2 DEF OrderTypes, exchange
  <2>4. SizeIsRight'
    BY <2>1 DEF SizeIsRight
  <2>5. PositionIsWhole' /\ OrderIsCovered'
    BY <2>1, <2>2, PositionKept
  <2> QED
    BY <2>1, <2>3, <2>4, <2>5 DEF OrderInv, ClosesAll, exchange
<1>3. ASSUME Return, UNCHANGED exchange, side' = side, faults' \in Nat,
             faults' # faults => faults' # 0
      PROVE  OrderInv' /\ ClosesAll
  <2>1. pc' = "idle" /\ use' = 0 /\ ask' = 0 /\ size' = 0 /\ settling' = FALSE
    BY <1>3 DEF Return
  <2>2. settling' \in BOOLEAN
    BY <2>1
  <2>3. OrderTypes'
    BY <1>0, <1>3, <2>1, <2>2 DEF OrderTypes, exchange
  <2>4. SizeIsRight'
    BY <2>1 DEF SizeIsRight
  <2>5. PositionIsWhole' /\ OrderIsCovered'
    BY <1>3, PositionKept
  <2> QED
    BY <1>3, <2>3, <2>4, <2>5 DEF OrderInv, ClosesAll, exchange
<1>4. CASE GetTickerFails
  <2>1. faults' \in Nat /\ (faults' # faults => faults' # 0)
    BY <1>0, <1>4 DEF GetTickerFails, Fault
  <2> QED
    BY <1>3, <1>4, <2>1 DEF GetTickerFails
<1>5. CASE NotSent
  BY <1>0, <1>3, <1>5 DEF NotSent
<1>6. CASE SendOrderRefused
  BY <1>0, <1>3, <1>6 DEF SendOrderRefused
<1>7. CASE GetPositions
  <2>1. UNCHANGED exchange /\ pc' = "send" /\ side' = side /\ use' = use /\ ask' = ask
    BY <1>7 DEF GetPositions
  <2>2. /\ settling' \in BOOLEAN /\ faults' \in Nat /\ (faults' # faults => faults' # 0)
        /\ settling' => parts # << >>
        /\ faults' = 0 => (settling' <=> parts # << >>)
    <3>1. CASE UNCHANGED faults /\ settling' = (parts # << >>)
      <4>1. settling' <=> parts # << >>
        BY <3>1
      <4>2. settling' \in BOOLEAN
        BY <3>1
      <4> QED
        BY <1>0, <3>1, <4>1, <4>2
    <3>2. CASE Fault /\ settling' = FALSE
      <4>1. faults' \in Nat /\ faults' # 0
        BY <1>0, <3>2 DEF Fault
      <4>2. ~settling' /\ settling' \in BOOLEAN
        BY <3>2
      <4> QED
        BY <4>1, <4>2
    <3> QED
      BY <1>7, <3>1, <3>2 DEF GetPositions
  <2>3. size' = IF settling' THEN Total(parts) ELSE NewSize(use, ask)
    <3>1. CASE settling'
      <4>1. PICK sum \in Sums(parts) : size' = SettlingSize(sum)
        BY <1>7, <3>1 DEF GetPositions
      <4>2. \E e \in {-1, 0, 1} : sum = Total(parts) + e
        <5>1. Total(parts) \in Nat
          BY DEF OrderInv, PositionIsWhole, Whole
        <5> QED
          BY <5>1 DEF Sums
      <4>3. Whole(Total(parts)) /\ Total(parts) \in Nat
        BY DEF OrderInv, PositionIsWhole, Whole
      <4>4. RoundSize(sum) = Total(parts)
        BY <4>2, <4>3, Rounded
      <4> QED
        BY <3>1, <4>1, <4>4 DEF SettlingSize
    <3>2. CASE ~settling'
      BY <1>7, <3>2 DEF GetPositions
    <3> QED
      BY <3>1, <3>2
  <2>4. OrderTypes'
    BY <1>0, <2>1, <2>2 DEF OrderTypes, exchange
  <2>5. SizeIsRight'
    <3>1. parts' = parts
      BY <2>1 DEF exchange
    <3> QED
      BY <2>1, <2>2, <2>3, <3>1 DEF SizeIsRight
  <2>6. PositionIsWhole' /\ OrderIsCovered'
    BY <2>1, <2>2, PositionKept
  <2> QED
    BY <2>1, <2>4, <2>5, <2>6 DEF OrderInv, ClosesAll, exchange
<1>8. CASE SendOrder
  <2>1. pc = "send" /\ size \notin {NaN, Inf} /\ size >= MinSize /\ Executed(size)
        /\ Return /\ side' = side /\ faults' = faults
        /\ accepted' = [size |-> size, settling |-> settling, closing |-> Closing,
                        use |-> use, ask |-> ask]
    BY <1>8 DEF SendOrder, Acceptable
  <2>2. OrderTypes /\ Whole(Total(parts))
    BY DEF OrderInv, PositionIsWhole
  <2>3. /\ Whole(size)
        /\ settling \/ (ask > 0 /\ size * ask <= use)
        /\ faults = 0 /\ Closing => size = Total(parts)
    BY <2>1, SentSize
  <2>4. /\ parts' \in Seq(Nat) /\ posSide' \in Side
        /\ \/ /\ parts = << >> \/ posSide = side
              /\ Total(parts') = Total(parts) + size
           \/ /\ Closing /\ size = Total(parts) /\ parts' = << >>
           \/ /\ Closing /\ size # Total(parts) /\ Whole(Total(parts'))
    BY <2>1, <2>2, <2>3, ExecutedWhole
  <2>5. pc' = "idle" /\ use' = 0 /\ ask' = 0 /\ size' = 0 /\ settling' = FALSE
    BY <2>1 DEF Return
  <2>6. settling' \in BOOLEAN
    BY <2>5
  <2>7. OrderTypes'
    BY <1>0, <2>1, <2>4, <2>5, <2>6 DEF OrderTypes
  <2>8. PositionIsWhole'
    <3>1. CASE Total(parts') = Total(parts) + size
      <4>1. Whole(Total(parts'))
        BY <2>2, <2>3, <3>1, WholeSum
      <4>2. Total(parts') >= MinSize
        BY <2>1, <2>2, <2>3, <3>1, SizeAssumption DEF Whole
      <4> QED
        BY <4>1, <4>2 DEF PositionIsWhole
    <3>2. CASE parts' = << >>
      <4>1. Total(parts') = 0 /\ 0 = Step * 0
        BY <3>2, TotalOfFew, StepAssumption
      <4> QED
        BY <4>1, WholeIsMultiple DEF PositionIsWhole
    <3>3. CASE Closing /\ size # Total(parts) /\ Whole(Total(parts'))
      BY <2>1, <2>3, <3>3 DEF PositionIsWhole
    <3> QED
      BY <2>4, <3>1, <3>2, <3>3
  <2>9. SizeIsRight'
    BY <2>5 DEF SizeIsRight
  <2>10. OrderIsCovered'
    BY <2>1, <2>3 DEF OrderIsCovered
  <2>11. ClosesAll
    <3> SUFFICES ASSUME Closing, faults = 0 PROVE parts' = << >>
      BY <2>1 DEF ClosesAll
    <3>1. size = Total(parts)
      BY <2>3
    <3> QED
      BY <2>4, <3>1 DEF Closing
  <2> QED
    BY <2>7, <2>8, <2>9, <2>10, <2>11 DEF OrderInv
<1>9. CASE Horizon
  <2>1. UNCHANGED order
    BY <1>9 DEF Horizon
  <2>2. OrderInv'
    BY <2>1 DEF order, exchange, OrderInv, OrderTypes, PositionIsWhole, SizeIsRight,
                OrderIsCovered
  <2> QED
    BY <2>1, <2>2 DEF ClosesAll, order, exchange
<1> QED
  BY <1>1, <1>2, <1>4, <1>5, <1>6, <1>7, <1>8, <1>9 DEF OrderNext

LEMMA OrderStands == OrderInv /\ UNCHANGED order => OrderInv'
  BY DEF order, exchange, OrderInv, OrderTypes, PositionIsWhole, SizeIsRight, OrderIsCovered

LEMMA OrderFollowed == OrderInv /\ [Next]_vars => OrderInv' /\ (ClosesAll \/ UNCHANGED order)
<1> SUFFICES ASSUME OrderInv, [Next]_vars
             PROVE  OrderInv' /\ (ClosesAll \/ UNCHANGED order)
  OBVIOUS
<1>1. OrderNext \/ UNCHANGED order
  BY DEF Next, vars
<1> QED
  BY <1>1, OrderStep, OrderStands

LEMMA OrderInvariant == Spec => []OrderInv
<1>1. Init => OrderInv
  BY OrderStart DEF Init
<1> QED
  BY <1>1, OrderFollowed, PTL DEF Spec

(* Whatever call of Buy or Sell failed, a new order that the exchange takes was made
   from a price and an amount that were there, and is no larger than the amount pays
   for. An order that settles positions is not bounded by the money; and a failed
   GetPositions, whose error is dropped, still makes a new order of a closing one
   (aiTrade.go, the replies of bitflyer/). *)
THEOREM OrderCoveredTheorem == Spec => []OrderIsCovered
<1>1. OrderInv => OrderIsCovered
  BY DEF OrderInv
<1> QED
  BY <1>1, OrderInvariant, PTL

(* The position stays a whole number of 0.0001 and, without failures, one that
   an order can be made of (the rounding in Buy and Sell of aiTrade.go). *)
THEOREM PositionTradableTheorem == Spec => []PositionIsTradable
<1>1. OrderInv => PositionIsTradable
  BY DEF OrderInv, PositionIsWhole, PositionIsTradable, Whole
<1> QED
  BY <1>1, OrderInvariant, PTL

(* Without failures an order of the other side closes all of the position: what
   is summed and rounded is the position (aiTrade.go, Buy and Sell). *)
THEOREM ClosedFlatTheorem == Spec => ClosedFlat
<1>1. OrderInv /\ [Next]_vars
      => [accepted' # accepted /\ accepted'.closing /\ faults' = 0 => parts' = << >>]_order
  BY OrderFollowed DEF ClosesAll
<1> QED
  BY <1>1, OrderInvariant, PTL DEF Spec, ClosedFlat

-----------------------------------------------------------------------------
(* Back tests.                                                             *)

Trades == [side : Side, time : Int, reOpen : BOOLEAN, price : Int]

(* A list of trades before a time, no two of them in one candle.           *)
InOrder(list, time) ==
    /\ list \in Seq(Trades)
    /\ \A k \in 1 .. Len(list) : list[k].time < time
    /\ \A k \in 1 .. Len(list) - 1 : list[k].time < list[k + 1].time

BackTestInv ==
    /\ i \in Nat /\ reOpen \in BOOLEAN
    /\ followed = "back test" => strategy \in Strategies /\ prev \in Readings[strategy]
    /\ InOrder(signals, i)

LEMMA ElementsOf ==
    ASSUME NEW S, NEW list \in Seq(S)
    PROVE  /\ Len(list) \in Nat
           /\ \A k \in 1 .. Len(list) : list[k] \in S
           /\ list # << >> => Len(list) \in 1 .. Len(list)
  OBVIOUS

LEMMA AppendInOrder ==
    ASSUME NEW list, NEW t \in Nat, InOrder(list, t), NEW trade \in Trades, trade.time = t
    PROVE  InOrder(list, t + 1) /\ InOrder(Append(list, trade), t + 1)
<1> DEFINE longer == Append(list, trade)
<1>1. /\ list \in Seq(Trades) /\ \A k \in 1 .. Len(list) : list[k].time < t
      /\ \A k \in 1 .. Len(list) - 1 : list[k].time < list[k + 1].time
  BY DEF InOrder
<1>2. \A k \in 1 .. Len(list) : list[k].time \in Int
  <2>1. \A k \in 1 .. Len(list) : list[k] \in Trades
    BY <1>1, ElementsOf
  <2> QED
    BY <2>1 DEF Trades
<1>3. InOrder(list, t + 1)
  BY <1>1, <1>2 DEF InOrder
<1>4. /\ longer \in Seq(Trades) /\ Len(longer) = Len(list) + 1 /\ Len(list) \in Nat
      /\ longer[Len(list) + 1] = trade /\ \A k \in 1 .. Len(list) : longer[k] = list[k]
  BY <1>1
<1> HIDE DEF longer
<1>5. \A k \in 1 .. Len(longer) : longer[k].time < t + 1
  <2> SUFFICES ASSUME NEW k \in 1 .. Len(longer) PROVE longer[k].time < t + 1
    OBVIOUS
  <2>1. CASE k = Len(list) + 1
    BY <1>4, <2>1
  <2>2. CASE k \in 1 .. Len(list)
    BY <1>1, <1>2, <1>4, <2>2
  <2> QED
    BY <1>4, <2>1, <2>2
<1>6. \A k \in 1 .. Len(longer) - 1 : longer[k].time < longer[k + 1].time
  <2> SUFFICES ASSUME NEW k \in 1 .. Len(longer) - 1
               PROVE  longer[k].time < longer[k + 1].time
    OBVIOUS
  <2>1. k \in 1 .. Len(list) /\ longer[k] = list[k]
    BY <1>4
  <2>2. CASE k = Len(list)
    BY <1>1, <1>4, <2>1, <2>2
  <2>3. CASE k # Len(list)
    <3>1. k \in 1 .. Len(list) - 1 /\ k + 1 \in 1 .. Len(list)
      BY <1>4, <2>1, <2>3
    <3> QED
      BY <1>1, <1>4, <2>1, <3>1
  <2> QED
    BY <2>2, <2>3
<1>7. InOrder(longer, t + 1)
  BY <1>4, <1>5, <1>6 DEF InOrder
<1> QED
  BY <1>3, <1>7 DEF longer

(* No candle calls for both sides.                                         *)
LEMMA OneSide ==
    ASSUME strategy \in Strategies, NEW p \in Readings[strategy], NEW r \in Readings[strategy]
    PROVE  r.close \in Int /\ ~("BUY" \in ReadingCalls(p, r) /\ "SELL" \in ReadingCalls(p, r))
<1>1. strategy \in {"ema", "bb", "ichimoku", "macd", "rsi"}
      /\ p \in Shape(strategy) /\ r \in Shape(strategy)
  BY ReadingAssumption
<1>2. \A buys, sells : "BUY" \in Points(buys, sells) /\ "SELL" \in Points(buys, sells)
                       => buys /\ sells
  BY DEF Points, Side
<1>3. CASE strategy = "ema"
  <2>1. /\ p.fast \in Int /\ p.slow \in Int /\ r.close \in Int
        /\ ReadingCalls(p, r) = BackTestEma(p, r)
    BY <1>1, <1>3 DEF Shape, ReadingCalls
  <2>2. ~(EmaBuys(p, r) /\ EmaSells(p, r))
    BY <2>1 DEF EmaBuys, EmaSells
  <2> QED
    BY <1>2, <2>1, <2>2 DEF BackTestEma
<1>4. CASE strategy = "bb"
  <2>1. /\ p.down \in Int /\ p.up \in Int /\ p.close \in Int /\ p.down <= p.up
        /\ r.close \in Int /\ ReadingCalls(p, r) = BackTestBb(p, r)
    BY <1>1, <1>4 DEF Shape, ReadingCalls
  <2>2. ~(BbBuys(p, r) /\ BbSells(p, r))
    BY <2>1 DEF BbBuys, BbSells
  <2> QED
    BY <1>2, <2>1, <2>2 DEF BackTestBb
<1>5. CASE strategy = "ichimoku"
  <2>1. /\ r.low \in Int /\ r.high \in Int /\ r.senkouA \in Int /\ r.low <= r.high
        /\ r.close \in Int /\ ReadingCalls(p, r) = BackTestIchimoku(p, r)
    BY <1>1, <1>5 DEF Shape, ReadingCalls
  <2>2. ~(IchimokuBuys(p, r) /\ IchimokuSells(p, r))
    BY <2>1 DEF IchimokuBuys, IchimokuSells
  <2> QED
    BY <1>2, <2>1, <2>2 DEF BackTestIchimoku
<1>6. CASE strategy = "macd"
  <2>1. /\ r.macd \in Int /\ r.close \in Int /\ ReadingCalls(p, r) = BackTestMacd(p, r)
    BY <1>1, <1>6 DEF Shape, ReadingCalls
  <2>2. ~(MacdBuys(p, r) /\ MacdSells(p, r))
    BY <2>1 DEF MacdBuys, MacdSells
  <2> QED
    BY <1>2, <2>1, <2>2 DEF BackTestMacd
<1>7. CASE strategy = "rsi"
  <2>1. /\ p.rsi \in Int /\ r.close \in Int /\ ReadingCalls(p, r) = BackTestRsi(p, r)
    BY <1>1, <1>7 DEF Shape, ReadingCalls
  <2>2. ~(RsiBuys(p, r) /\ RsiSells(p, r))
    BY <2>1, ThreadAssumption DEF RsiBuys, RsiSells
  <2> QED
    BY <1>2, <2>1, <2>2 DEF BackTestRsi
<1> QED
  BY <1>1, <1>3, <1>4, <1>5, <1>6, <1>7

LEMMA TradedInOrder ==
    ASSUME NEW s \in Side, NEW close \in Int, i \in Nat, reOpen \in BOOLEAN,
           InOrder(signals, i)
    PROVE  InOrder(signals, i + 1) /\ InOrder(Traded(s, signals, close), i + 1)
<1> DEFINE trade == [side |-> s, time |-> i, reOpen |-> reOpen, price |-> close]
<1>1. trade \in Trades /\ trade.time = i
  BY DEF Trades
<1>2. Traded(s, signals, close) = Append(signals, trade) \/ Traded(s, signals, close) = signals
  BY DEF Traded
<1> HIDE DEF trade
<1> QED
  BY <1>1, <1>2, AppendInOrder

LEMMA NextNat == \A n \in Nat : n + 1 \in Nat
  OBVIOUS

LEMMA BackTestStep ==
    ASSUME BackTestInv, followed = "back test", followed' = followed, BackTestNext
    PROVE  BackTestInv'
<1>1. /\ i \in Nat /\ reOpen \in BOOLEAN /\ strategy \in Strategies
      /\ prev \in Readings[strategy] /\ InOrder(signals, i)
  BY DEF BackTestInv
<1>2. CASE Candle
  <2>1. PICK r \in Readings[strategy] :
            /\ prev' = r
            /\ LET points == ReadingCalls(prev, r)
                   bought == IF "BUY" \in points THEN Traded("BUY", signals, r.close)
                                                 ELSE signals
               IN signals' = IF "SELL" \in points THEN Traded("SELL", bought, r.close)
                                                  ELSE bought
    BY <1>2 DEF Candle
  <2>2. i' = i + 1 /\ strategy' = strategy /\ reOpen' = reOpen
    BY <1>2 DEF Candle
  <2>3. r.close \in Int /\ ~("BUY" \in ReadingCalls(prev, r) /\ "SELL" \in ReadingCalls(prev, r))
    BY <1>1, OneSide
  <2>4. \/ signals' = signals
        \/ signals' = Traded("BUY", signals, r.close)
        \/ signals' = Traded("SELL", signals, r.close)
    BY <2>1, <2>3
  <2>5. InOrder(signals', i + 1)
    BY <1>1, <2>3, <2>4, TradedInOrder DEF Side
  <2>6. strategy' \in Strategies /\ prev' \in Readings[strategy']
    BY <1>1, <2>1, <2>2
  <2>7. i' \in Nat
    <3>1. i \in Nat /\ i' = i + 1
      BY <2>2 DEF BackTestInv
    <3> QED
      BY <3>1, NextNat, Zenon
  <2>8. InOrder(signals', i')
    BY <2>2, <2>5
  <2>9. reOpen' \in BOOLEAN
    BY <1>1, <2>2
  <2> QED
    BY <2>6, <2>7, <2>8, <2>9 DEF BackTestInv, InOrder
<1>3. CASE Finished
  <2>1. UNCHANGED backTest
    BY <1>3 DEF Finished
  <2> QED
    BY <2>1 DEF backTest, BackTestInv
<1> QED
  BY <1>2, <1>3 DEF BackTestNext

LEMMA BackTestStart == Init => BackTestInv
<1> SUFFICES ASSUME Init PROVE BackTestInv
  OBVIOUS
<1>1. i = 1 /\ signals = << >>
  BY DEF Init, BackTestInit, BackTestIdle
<1>2. reOpen \in BOOLEAN
  BY DEF Init, BackTestInit, BackTestIdle
<1>3. followed = "back test" => BackTestInit
  BY DEF Init
<1>4. InOrder(signals, i)
  BY <1>1 DEF InOrder
<1> QED
  BY <1>1, <1>2, <1>3, <1>4 DEF BackTestInv, BackTestInit

LEMMA BackTestInvariant == Spec => []BackTestInv
<1>1. BackTestInv /\ [Next]_vars => BackTestInv'
  <2> SUFFICES ASSUME BackTestInv, [Next]_vars PROVE BackTestInv'
    OBVIOUS
  <2>1. \/ followed = "back test" /\ followed' = followed /\ BackTestNext
        \/ UNCHANGED <<followed, backTest>>
    BY DEF Next, vars
  <2>2. CASE UNCHANGED <<followed, backTest>>
    BY <2>2 DEF backTest, BackTestInv
  <2> QED
    BY <2>1, <2>2, BackTestStep
<1> QED
  BY <1>1, BackTestStart, PTL DEF Spec

(* The two conditions of a strategy never hold in one candle: a back test makes
   at most one trade in each (the loops of dfcandle.go). *)
THEOREM OneTradeTheorem == Spec => []OneTradePerCandle
<1>1. BackTestInv => OneTradePerCandle
  BY DEF BackTestInv, InOrder, OneTradePerCandle
<1> QED
  BY <1>1, BackTestInvariant, PTL

(* The gate of events.go lets every signal of a back test through, so that its
   reOpen changes no result. *)
THEOREM GateTheorem == Spec => []GateNeverRefuses
<1>1. BackTestInv => GateNeverRefuses
  <2> SUFFICES ASSUME BackTestInv, NEW s \in Side PROVE CanTrade(s, signals, i, FALSE)
    BY DEF GateNeverRefuses
  <2>1. CASE signals = << >>
    BY <2>1 DEF CanTrade, CanBuy, CanSell
  <2>2. CASE signals # << >>
    <3> DEFINE last == LastSignal(signals)
    <3>1. /\ signals \in Seq(Trades) /\ i \in Nat
          /\ \A k \in 1 .. Len(signals) : signals[k].time < i
      BY DEF BackTestInv, InOrder
    <3>2. last \in Trades /\ last.time < i
      BY <2>2, <3>1, ElementsOf DEF LastSignal
    <3> HIDE DEF last
    <3>3. last.side \in Side /\ last.time <= i
      BY <3>1, <3>2 DEF Trades
    <3>4. CanBuy(signals, i, FALSE) /\ CanSell(signals, i, FALSE)
      BY <2>2, <3>3 DEF CanBuy, CanSell, Side, last
    <3> QED
      BY <3>4 DEF CanTrade
  <2> QED
    BY <2>1, <2>2
<1> QED
  BY <1>1, BackTestInvariant, PTL

-----------------------------------------------------------------------------
(* The profit of a list.                                                   *)

Amount(trade) == Sign(trade.side) * trade.price

LEMMA AmountOf ==
    ASSUME NEW trade \in Trades
    PROVE  /\ Amount(trade) \in Int /\ trade.price \in Int /\ trade.side \in Side
           /\ Amount(trade) = IF trade.side = "BUY" THEN trade.price ELSE -trade.price
<1>1. trade.price \in Int /\ trade.side \in Side
  BY DEF Trades
<1> DEFINE p == trade.price
<1>2. Amount(trade) = Sign(trade.side) * p
  BY DEF Amount
<1>3. CASE trade.side = "BUY"
  BY <1>1, <1>2, <1>3 DEF Sign
<1>4. CASE trade.side = "SELL"
  BY <1>1, <1>2, <1>4 DEF Sign
<1> QED
  BY <1>1, <1>3, <1>4 DEF Side

(* A sum that goes on from each place to the next: it exists, and every function
   that is defined like it has integers for values. *)
LEMMA Summing ==
    ASSUME NEW n \in Nat, NEW d, \A k \in 1 .. n : d[k] \in Int
    PROVE  LET Runs(g) == g = [k \in 0 .. n |-> IF k = 0 THEN 0 ELSE g[k - 1] + d[k]]
           IN /\ \E g : Runs(g)
              /\ \A g : Runs(g) => \A k \in 0 .. n : g[k] \in Int
<1> DEFINE Runs(g) == g = [k \in 0 .. n |-> IF k = 0 THEN 0 ELSE g[k - 1] + d[k]]
           step == [k \in 1 .. n |-> [v \in Int |-> v + d[k]]]
<1>1. step \in [1 .. n -> [Int -> Int]] /\ 0 \in Int
  OBVIOUS
<1>2. \A k \in 1 .. n, v \in Int : step[k][v] = v + d[k]
  OBVIOUS
<1> HIDE DEF step
<1>3. PICK g : Recurses(g, n, Int, 0, step)
  BY <1>1, Recursion
<1>4. \A k \in 1 .. n : k - 1 \in 0 .. n /\ k \in 0 .. n /\ k # 0
  OBVIOUS
<1>5. \A k \in 1 .. n : g[k] = g[k - 1] + d[k]
  BY <1>2, <1>3, <1>4 DEF Recurses
<1>6. Runs(g)
  BY <1>3, <1>5 DEF Recurses
<1>7. ASSUME NEW h, Runs(h) PROVE \A k \in 0 .. n : h[k] \in Int
  <2> DEFINE S == {m \in Nat : m <= n => h[m] \in Int}
  <2>1. 0 \in S
    BY <1>7
  <2>2. ASSUME NEW m \in Nat, m \in S PROVE m + 1 \in S
    BY <1>7, <2>2
  <2> HIDE DEF S
  <2>3. \A m \in Nat : m \in S
    BY <2>1, <2>2, SetInduction
  <2> QED
    BY <2>3 DEF S
<1> QED
  BY <1>6, <1>7

(* The state of the loop of Profit after each signal.                      *)
Loops == [total : Int, beforeSell : Int, isHolding : BOOLEAN]
Entered == [total |-> 0, beforeSell |-> 0, isHolding |-> FALSE]
Passed(v, amount, even) ==
    [total |-> v.total - amount, isHolding |-> ~even,
     beforeSell |-> IF even THEN v.total - amount ELSE v.beforeSell]

LEMMA PassedType ==
    ASSUME NEW v \in Loops, NEW amount \in Int, NEW even \in BOOLEAN
    PROVE  /\ Passed(v, amount, even) \in Loops
           /\ Passed(v, amount, even).total = v.total - amount
           /\ Passed(v, amount, even).isHolding = ~even
           /\ Passed(v, amount, even).beforeSell
                 = IF even THEN v.total - amount ELSE v.beforeSell
  BY DEF Passed, Loops

LEMMA ProfitSums ==
    ASSUME NEW list \in Seq(Trades)
    PROVE  \E t : /\ t[0] = 0 /\ \A k \in 0 .. Len(list) : t[k] \in Int
                  /\ \A k \in 1 .. Len(list) : t[k] = t[k - 1] - Amount(list[k])
                  /\ Profit(list) = IF IsEven(Len(list)) THEN t[Len(list)]
                                                         ELSE t[Len(list) - 1]
<1> DEFINE n == Len(list)
           Adds(g) == g = [k \in 0 .. n |->
               IF k = 0 THEN [total |-> 0, beforeSell |-> 0, isHolding |-> FALSE]
               ELSE LET total == g[k - 1].total - Sign(list[k].side) * list[k].price
                    IN [total |-> total, isHolding |-> ~IsEven(k),
                        beforeSell |-> IF IsEven(k) THEN total ELSE g[k - 1].beforeSell]]
           Goes(g) == g = [k \in 0 .. n |->
               IF k = 0 THEN Entered ELSE Passed(g[k - 1], Amount(list[k]), IsEven(k))]
           after == CHOOSE g : Adds(g)
           step == [k \in 1 .. n |-> [v \in Loops |-> Passed(v, Amount(list[k]), IsEven(k))]]
           t == [k \in 0 .. n |-> after[k].total]
<1>1. n \in Nat /\ \A k \in 1 .. n : list[k] \in Trades
  BY ElementsOf
<1>2. \A k \in 1 .. n : Amount(list[k]) \in Int /\ IsEven(k) \in BOOLEAN
  BY <1>1, AmountOf DEF IsEven
<1>3. Profit(list) = IF after[n].isHolding THEN after[n].beforeSell ELSE after[n].total
  BY DEF Profit
<1> HIDE DEF n
<1>4. Entered \in Loops /\ step \in [1 .. n -> [Loops -> Loops]]
  BY <1>2, PassedType DEF Entered, Loops
<1>5. \A k \in 1 .. n, v \in Loops : step[k][v] = Passed(v, Amount(list[k]), IsEven(k))
  OBVIOUS
<1> HIDE DEF step
<1>6. PICK g : Recurses(g, n, Loops, Entered, step)
  BY <1>1, <1>4, Recursion
<1>7. \A k \in 1 .. n : k - 1 \in 0 .. n /\ k \in 0 .. n /\ k # 0
  BY <1>1
<1>8. \A k \in 1 .. n : g[k] = Passed(g[k - 1], Amount(list[k]), IsEven(k))
  BY <1>5, <1>6, <1>7 DEF Recurses
<1>9. \A h : Goes(h) <=> Adds(h)
  BY Zenon DEF Entered, Passed, Amount
<1>10. Adds(after)
  <2>1. Goes(g)
    BY <1>1, <1>6, <1>8 DEF Recurses
  <2>2. \E h : Adds(h)
    BY <1>9, <2>1
  <2> QED
    BY <2>2
<1>11. Goes(after)
  BY <1>9, <1>10
<1> HIDE DEF after
<1>12. /\ after[0] = Entered
       /\ \A k \in 1 .. n : after[k] = Passed(after[k - 1], Amount(list[k]), IsEven(k))
  BY <1>1, <1>11
<1>13. \A k \in 0 .. n : after[k] \in Loops
  <2> DEFINE S == {m \in Nat : m <= n => after[m] \in Loops}
  <2>1. 0 \in S
    BY <1>4, <1>12
  <2>2. ASSUME NEW m \in Nat, m \in S PROVE m + 1 \in S
    <3> SUFFICES ASSUME m + 1 <= n PROVE after[m + 1] \in Loops
      OBVIOUS
    <3>1. m + 1 \in 1 .. n /\ (m + 1) - 1 = m /\ after[m] \in Loops
      BY <1>1, <2>2
    <3>2. after[m + 1] = Passed(after[m], Amount(list[m + 1]), IsEven(m + 1))
      BY <1>12, <3>1
    <3> QED
      BY <1>2, <3>1, <3>2, PassedType
  <2> HIDE DEF S
  <2>3. \A m \in Nat : m \in S
    BY <2>1, <2>2, SetInduction
  <2> QED
    BY <1>1, <2>3 DEF S
<1>14. \A k \in 1 .. n : /\ after[k].total = after[k - 1].total - Amount(list[k])
                         /\ after[k].isHolding = ~IsEven(k)
                         /\ after[k].beforeSell = IF IsEven(k) THEN after[k].total
                                                              ELSE after[k - 1].beforeSell
  BY <1>2, <1>7, <1>12, <1>13, PassedType
<1>15. t[0] = 0 /\ \A k \in 0 .. n : t[k] = after[k].total /\ t[k] \in Int
  BY <1>1, <1>12, <1>13 DEF Entered, Loops
<1>16. \A k \in 1 .. n : t[k] = t[k - 1] - Amount(list[k])
  BY <1>7, <1>14, <1>15
<1>17. Profit(list) = IF IsEven(n) THEN t[n] ELSE t[n - 1]
  <2>1. CASE n = 0
    BY <1>3, <1>12, <1>15, <2>1 DEF Entered, IsEven
  <2>2. CASE n # 0 /\ IsEven(n)
    BY <1>1, <1>3, <1>14, <1>15, <2>2
  <2>3. CASE n # 0 /\ ~IsEven(n)
    <3>1. n \in 1 .. n
      BY <1>1, <2>3
    <3>2. after[n].isHolding = TRUE /\ after[n].beforeSell = after[n - 1].beforeSell
      BY <1>14, <2>3, <3>1
    <3>3. Profit(list) = after[n - 1].beforeSell
      BY <1>3, <3>2
    <3>4. CASE n = 1
      BY <1>12, <1>15, <3>3, <3>4, <2>3 DEF Entered
    <3>5. CASE n # 1
      <4>1. n - 1 \in 1 .. n /\ n - 1 \in 0 .. n /\ IsEven(n - 1)
        BY <1>1, <2>3, <3>5 DEF IsEven
      <4> QED
        BY <1>14, <1>15, <2>3, <3>3, <4>1
    <3> QED
      BY <3>4, <3>5
  <2> QED
    BY <2>1, <2>2, <2>3
<1> QED
  BY <1>15, <1>16, <1>17 DEF n

LEMMA Halves ==
    ASSUME NEW n \in Nat
    PROVE  /\ n \div 2 \in Nat /\ 2 * (n \div 2) <= n
           /\ IsEven(n) => n = 2 * (n \div 2)
           /\ ~IsEven(n) => n - 1 = 2 * (n \div 2)
  BY DEF IsEven

LEMMA RealizedSums ==
    ASSUME NEW list \in Seq(Trades)
    PROVE  \E s : /\ s[0] = 0 /\ \A k \in 0 .. Len(list) \div 2 : s[k] \in Int
                  /\ \A k \in 1 .. Len(list) \div 2 :
                        s[k] = s[k - 1] + Gain(list[2 * k - 1], list[2 * k])
                  /\ Realized(list) = s[Len(list) \div 2]
<1> DEFINE n == Len(list) \div 2
           d == [k \in 1 .. n |-> Gain(list[2 * k - 1], list[2 * k])]
           Runs(g) == g = [k \in 0 .. n |-> IF k = 0 THEN 0 ELSE g[k - 1] + d[k]]
           Adds(g) == g = [k \in 0 .. n |->
                         IF k = 0 THEN 0 ELSE g[k - 1] + Gain(list[2 * k - 1], list[2 * k])]
           s == CHOOSE g : Adds(g)
<1>1. Len(list) \in Nat /\ \A k \in 1 .. Len(list) : list[k] \in Trades
  BY ElementsOf
<1>2. n \in Nat /\ 2 * n <= Len(list)
  BY <1>1, Halves
<1>3. Realized(list) = s[n]
  BY DEF Realized
<1> HIDE DEF n
<1>4. \A k \in 1 .. n : Gain(list[2 * k - 1], list[2 * k]) \in Int
  <2> SUFFICES ASSUME NEW k \in 1 .. n PROVE Gain(list[2 * k - 1], list[2 * k]) \in Int
    OBVIOUS
  <2>1. 2 * k - 1 \in 1 .. Len(list) /\ 2 * k \in 1 .. Len(list)
    BY <1>1, <1>2
  <2>2. Amount(list[2 * k - 1]) \in Int /\ Amount(list[2 * k]) \in Int
    BY <1>1, <2>1, AmountOf
  <2> QED
    BY <2>2 DEF Gain, Amount
<1>5. \A k \in 1 .. n : d[k] = Gain(list[2 * k - 1], list[2 * k]) /\ d[k] \in Int
  BY <1>4
<1> HIDE DEF d
<1>6. /\ \E g : Runs(g)
      /\ \A g : Runs(g) => \A k \in 0 .. n : g[k] \in Int
  BY <1>2, <1>5, Summing
<1>7. \A g : \A k \in 0 .. n :
          (IF k = 0 THEN 0 ELSE g[k - 1] + d[k])
          = IF k = 0 THEN 0 ELSE g[k - 1] + Gain(list[2 * k - 1], list[2 * k])
  <2>1. \A k \in 0 .. n : k = 0 \/ k \in 1 .. n
    BY <1>2
  <2> QED
    BY <1>5, <2>1
<1>8. \A g : Runs(g) <=> Adds(g)
  BY <1>7, Zenon
<1>9. Adds(s)
  <2>1. \E g : Adds(g)
    BY <1>6, <1>8
  <2> QED
    BY <2>1
<1> HIDE DEF s
<1>10. \A k \in 0 .. n : s[k] \in Int
  BY <1>6, <1>8, <1>9
<1>11. s[0] = 0 /\ \A k \in 1 .. n : s[k] = s[k - 1] + Gain(list[2 * k - 1], list[2 * k])
  BY <1>2, <1>9
<1> QED
  BY <1>3, <1>10, <1>11 DEF n

(* The two are one sum, whatever the sides.                                *)
LEMMA ProfitRealizes ==
    ASSUME NEW list \in Seq(Trades)
    PROVE  Profit(list) = Realized(list)
<1> DEFINE len == Len(list)
           n == len \div 2
<1>1. len \in Nat /\ \A k \in 1 .. len : list[k] \in Trades
  BY ElementsOf
<1>2. n \in Nat /\ 2 * n <= len /\ (IsEven(len) => len = 2 * n)
      /\ (~IsEven(len) => len - 1 = 2 * n)
  BY <1>1, Halves
<1>3. PICK t : /\ t[0] = 0 /\ \A k \in 0 .. len : t[k] \in Int
               /\ \A k \in 1 .. len : t[k] = t[k - 1] - Amount(list[k])
               /\ Profit(list) = IF IsEven(len) THEN t[len] ELSE t[len - 1]
  BY ProfitSums
<1>4. PICK s : /\ s[0] = 0 /\ \A k \in 0 .. n : s[k] \in Int
               /\ \A k \in 1 .. n : s[k] = s[k - 1] + Gain(list[2 * k - 1], list[2 * k])
               /\ Realized(list) = s[n]
  BY RealizedSums
<1> HIDE DEF n, len
<1> DEFINE S == {m \in Nat : m <= n => t[2 * m] = s[m]}
<1>5. 0 \in S
  BY <1>3, <1>4
<1>6. ASSUME NEW m \in Nat, m \in S PROVE m + 1 \in S
  <2> SUFFICES ASSUME m + 1 <= n PROVE t[2 * (m + 1)] = s[m + 1]
    OBVIOUS
  <2> DEFINE j == 2 * m + 1
             open == list[j]
             close == list[j + 1]
  <2>1. /\ j \in 1 .. len /\ j + 1 \in 1 .. len /\ j \in 1 .. len - 1 /\ j - 1 = 2 * m
        /\ (j + 1) - 1 = j /\ 2 * (m + 1) = j + 1 /\ 2 * (m + 1) - 1 = j
        /\ m + 1 \in 1 .. n /\ (m + 1) - 1 = m /\ m \in 0 .. n /\ 2 * m \in 0 .. len
    BY <1>1, <1>2
  <2>2. t[2 * m] = s[m] /\ s[m] \in Int
    BY <1>4, <1>6, <2>1
  <2> HIDE DEF j
  <2>3. open \in Trades /\ close \in Trades
    BY <1>1, <2>1
  <2>4. t[j] = t[2 * m] - Amount(open)
    <3>1. t[j] = t[j - 1] - Amount(list[j])
      BY <1>3, <2>1
    <3> QED
      BY <2>1, <3>1
  <2>5. t[j + 1] = t[j] - Amount(close)
    <3>1. t[j + 1] = t[(j + 1) - 1] - Amount(list[j + 1])
      BY <1>3, <2>1
    <3> QED
      BY <2>1, <3>1
  <2>6. s[m + 1] = s[m] + Gain(open, close)
    <3>1. s[m + 1] = s[(m + 1) - 1] + Gain(list[2 * (m + 1) - 1], list[2 * (m + 1)])
      BY <1>4, <2>1
    <3> QED
      BY <2>1, <3>1
  <2> HIDE DEF open, close
  <2>7. /\ Amount(open) \in Int /\ Amount(close) \in Int
        /\ Gain(open, close) = -Amount(open) - Amount(close)
    <3>1. Amount(open) \in Int /\ Amount(close) \in Int
      BY <2>3, AmountOf
    <3> QED
      BY <3>1 DEF Gain, Amount
  <2>8. t[j + 1] = s[m + 1]
    BY <2>2, <2>4, <2>5, <2>6, <2>7
  <2> QED
    BY <2>1, <2>8
<1> HIDE DEF S
<1>7. \A m \in Nat : m \in S
  BY <1>5, <1>6, SetInduction
<1>8. t[2 * n] = s[n]
  BY <1>2, <1>7 DEF S
<1> QED
  BY <1>2, <1>3, <1>4, <1>8 DEF len

(* The number by which the optimizer ranks a list is what its pairs of signals
   left in hand, whatever their sides, and a signal without a pair counts for
   nothing (Profit of events.go). *)
THEOREM ProfitTheorem == Spec => []ProfitIsRealized
<1>1. BackTestInv => ProfitIsRealized
  BY ProfitRealizes DEF BackTestInv, InOrder, ProfitIsRealized
<1> QED
  BY <1>1, BackTestInvariant, PTL

-----------------------------------------------------------------------------
(* The choice of indicators.                                               *)

ParamsOfAI == [enable : SUBSET Indicators, bbN : Nat, rsiPeriod : Nat]

(* What was chosen last was the best.                                      *)
OptimizerInv ==
    /\ params \in ParamsOfAI /\ optimizers \in Nat
    /\ followed = "optimizer" => numRanking \in 0 .. 5 /\ BestEnabled /\ BestParameters
    /\ followed # "optimizer" => trader = "start"

Outcomes == Int \union {Nil}

(* What a candidate made; the default parameters, and too few candles, nothing. *)
Made(profits, k) == IF k = 0 \/ profits[k] = Nil THEN 0 ELSE profits[k]

LEMMA MadeInt ==
    ASSUME NEW profits \in Seq(Outcomes)
    PROVE  \A k \in 0 .. Len(profits) : Made(profits, k) \in Int
<1> SUFFICES ASSUME NEW k \in 0 .. Len(profits) PROVE Made(profits, k) \in Int
  OBVIOUS
<1>1. Len(profits) \in Nat /\ (k # 0 => profits[k] \in Outcomes)
  BY ElementsOf
<1> QED
  BY <1>1 DEF Made, Outcomes

(* A search holds on to the first of the best: it is so after each candidate. *)
BestSoFar(found, profits, k) ==
    /\ found \in [performance : Int, best : Nat]
    /\ found.best <= k /\ found.performance = Made(profits, found.best)
    /\ \A j \in 0 .. k : /\ Made(profits, j) <= found.performance
                         /\ j < found.best => Made(profits, j) < found.performance

LEMMA BestGoesOn ==
    ASSUME NEW profits \in Seq(Outcomes), NEW k \in 1 .. Len(profits), NEW found,
           BestSoFar(found, profits, k - 1)
    PROVE  BestSoFar(IF profits[k] # Nil /\ found.performance < profits[k]
                     THEN [performance |-> profits[k], best |-> k] ELSE found,
                     profits, k)
<1>1. Len(profits) \in Nat /\ profits[k] \in Outcomes /\ k \in Nat /\ k # 0
  BY ElementsOf
<1>2. \A j \in 0 .. Len(profits) : Made(profits, j) \in Int
  BY MadeInt
<1>3. /\ found.performance \in Int /\ found.best \in Nat /\ found.best <= k - 1
      /\ found \in [performance : Int, best : Nat]
      /\ found.performance = Made(profits, found.best)
      /\ \A j \in 0 .. k - 1 : /\ Made(profits, j) <= found.performance
                               /\ j < found.best => Made(profits, j) < found.performance
  BY DEF BestSoFar
<1>4. 0 <= found.performance
  <2>1. Made(profits, 0) = 0 /\ 0 \in 0 .. k - 1
    BY <1>1 DEF Made
  <2> QED
    BY <1>3, <2>1
<1>5. CASE profits[k] # Nil /\ found.performance < profits[k]
  <2> DEFINE new == [performance |-> profits[k], best |-> k]
  <2>1. profits[k] \in Int /\ Made(profits, k) = profits[k]
    BY <1>1, <1>5 DEF Made, Outcomes
  <2>2. new \in [performance : Int, best : Nat] /\ new.best = k /\ new.performance = profits[k]
    BY <1>1, <2>1
  <2> HIDE DEF new
  <2>3. ASSUME NEW j \in 0 .. k
        PROVE  /\ Made(profits, j) <= new.performance
               /\ j < new.best => Made(profits, j) < new.performance
    <3>1. CASE j = k
      BY <1>1, <2>1, <2>2, <3>1
    <3>2. CASE j # k
      <4>1. j \in 0 .. k - 1 /\ j \in 0 .. Len(profits)
        BY <1>1, <3>2
      <4>2. Made(profits, j) <= found.performance /\ Made(profits, j) \in Int
        BY <1>2, <1>3, <4>1
      <4> QED
        BY <1>3, <1>5, <2>1, <2>2, <4>2
    <3> QED
      BY <3>1, <3>2
  <2> QED
    BY <1>1, <1>5, <2>1, <2>2, <2>3 DEF BestSoFar, new
<1>6. CASE ~(profits[k] # Nil /\ found.performance < profits[k])
  <2>1. Made(profits, k) <= found.performance
    BY <1>1, <1>3, <1>4, <1>6 DEF Made, Outcomes
  <2>2. ASSUME NEW j \in 0 .. k
        PROVE  /\ Made(profits, j) <= found.performance
               /\ j < found.best => Made(profits, j) < found.performance
    <3>1. CASE j = k
      BY <1>1, <1>3, <2>1, <3>1
    <3>2. CASE j # k
      <4>1. j \in 0 .. k - 1
        BY <1>1, <3>2
      <4> QED
        BY <1>3, <4>1
    <3> QED
      BY <3>1, <3>2
  <2>3. found.best <= k
    BY <1>1, <1>3
  <2> QED
    BY <1>3, <1>6, <2>2, <2>3 DEF BestSoFar
<1> QED
  BY <1>5, <1>6

LEMMA SearchFindsBest ==
    ASSUME NEW profits \in Seq(Outcomes)
    PROVE  BestSoFar(Search(profits), profits, Len(profits))
<1> DEFINE n == Len(profits)
           X == [performance : Int, best : Nat]
           base == [performance |-> 0, best |-> 0]
           Next1(v, k) == IF profits[k] # Nil /\ v.performance < profits[k]
                          THEN [performance |-> profits[k], best |-> k] ELSE v
           step == [k \in 1 .. n |-> [v \in X |-> Next1(v, k)]]
           Runs(g) == g = [k \in 0 .. n |->
                             IF k = 0 THEN [performance |-> 0, best |-> 0]
                             ELSE IF profits[k] # Nil /\ g[k - 1].performance < profits[k]
                             THEN [performance |-> profits[k], best |-> k]
                             ELSE g[k - 1]]
           found == CHOOSE g : Runs(g)
<1>1. n \in Nat /\ \A k \in 1 .. n : profits[k] \in Outcomes
  BY ElementsOf
<1>2. Search(profits) = found[n]
  BY DEF Search
<1>3. base \in X
  OBVIOUS
<1> HIDE DEF n
<1>4. \A k \in 1 .. n, v \in X : Next1(v, k) \in X
  BY <1>1 DEF Outcomes
<1> HIDE DEF X, Next1
<1>5. step \in [1 .. n -> [X -> X]]
  BY <1>4
<1>6. \A k \in 1 .. n, v \in X : step[k][v] = Next1(v, k)
  OBVIOUS
<1> HIDE DEF step, base
<1>7. PICK g : Recurses(g, n, X, base, step)
  BY <1>1, <1>3, <1>5, Recursion
<1>8. g \in [0 .. n -> X] /\ g[0] = base /\ \A k \in 1 .. n : g[k] = Next1(g[k - 1], k)
  <2>1. \A k \in 1 .. n : k - 1 \in 0 .. n
    BY <1>1
  <2> QED
    BY <1>6, <1>7, <2>1 DEF Recurses
<1>9. Runs(g)
  <2>1. \A k \in 0 .. n : k = 0 \/ k \in 1 .. n
    BY <1>1
  <2>2. \A k \in 0 .. n : g[k] = IF k = 0 THEN base ELSE Next1(g[k - 1], k)
    BY <1>8, <2>1
  <2> QED
    BY <1>8, <2>2 DEF Next1, base
<1>10. Runs(found)
  BY <1>9
<1> HIDE DEF found
<1>11. found[0] = base /\ \A k \in 1 .. n : found[k] = Next1(found[k - 1], k)
  BY <1>1, <1>10 DEF base, Next1
<1> DEFINE S == {m \in Nat : m <= n => BestSoFar(found[m], profits, m)}
<1>12. 0 \in S
  <2>1. BestSoFar(base, profits, 0)
    BY DEF BestSoFar, base, Made
  <2> QED
    BY <1>11, <2>1
<1>13. ASSUME NEW m \in Nat, m \in S PROVE m + 1 \in S
  <2> SUFFICES ASSUME m + 1 <= n PROVE BestSoFar(found[m + 1], profits, m + 1)
    OBVIOUS
  <2>1. m + 1 \in 1 .. n /\ (m + 1) - 1 = m /\ BestSoFar(found[m], profits, m)
    BY <1>1, <1>13
  <2>2. found[m + 1] = Next1(found[m], m + 1)
    BY <1>11, <2>1
  <2> QED
    BY <2>1, <2>2, BestGoesOn DEF n, Next1
<1> HIDE DEF S
<1>14. \A m \in Nat : m \in S
  BY <1>12, <1>13, SetInduction
<1> QED
  BY <1>1, <1>2, <1>14 DEF S, n

LEMMA SearchIsFirstBest ==
    ASSUME NEW profits \in Seq(Outcomes)
    PROVE  /\ Search(profits).best \in Nat /\ Search(profits).performance \in Int
           /\ IsFirstBest(Search(profits).best, profits)
<1> DEFINE found == Search(profits)
           n == Len(profits)
<1>1. BestSoFar(found, profits, n) /\ n \in Nat
  BY SearchFindsBest, ElementsOf
<1> HIDE DEF found, n
<1>2. /\ found.best \in 0 .. n /\ found.performance \in Int
      /\ \A j \in 0 .. n : /\ Made(profits, j) <= Made(profits, found.best)
                           /\ j < found.best => Made(profits, j) < Made(profits, found.best)
  BY <1>1 DEF BestSoFar
<1>3. IsFirstBest(found.best, profits)
  BY <1>2 DEF IsFirstBest, Made, n
<1> QED
  BY <1>2, <1>3 DEF found

(* The ranking: a place for each indicator.                                *)
LEMMA FiveIndicators == IsFiniteSet(Indicators) /\ Cardinality(Indicators) = 5
<1>1. IsFiniteSet({"ema"}) /\ Cardinality({"ema"}) = 1
  BY FS_Singleton
<1>2. IsFiniteSet({"ema", "bb"}) /\ Cardinality({"ema", "bb"}) = 2
  <2> DEFINE S == {"ema"}
  <2>1. IsFiniteSet(S \union {"bb"}) /\ Cardinality(S \union {"bb"}) = 2
    BY <1>1, FS_AddElement
  <2>2. S \union {"bb"} = {"ema", "bb"}
    OBVIOUS
  <2> QED
    BY <2>1, <2>2
<1>3. IsFiniteSet({"ema", "bb", "macd"}) /\ Cardinality({"ema", "bb", "macd"}) = 3
  <2> DEFINE S == {"ema", "bb"}
  <2>1. IsFiniteSet(S \union {"macd"}) /\ Cardinality(S \union {"macd"}) = 3
    BY <1>2, FS_AddElement
  <2>2. S \union {"macd"} = {"ema", "bb", "macd"}
    OBVIOUS
  <2> QED
    BY <2>1, <2>2
<1>4. IsFiniteSet({"ema", "bb", "macd", "ichimoku"})
      /\ Cardinality({"ema", "bb", "macd", "ichimoku"}) = 4
  <2> DEFINE S == {"ema", "bb", "macd"}
  <2>1. IsFiniteSet(S \union {"ichimoku"}) /\ Cardinality(S \union {"ichimoku"}) = 4
    BY <1>3, FS_AddElement
  <2>2. S \union {"ichimoku"} = {"ema", "bb", "macd", "ichimoku"}
    OBVIOUS
  <2> QED
    BY <2>1, <2>2
<1> DEFINE S == {"ema", "bb", "macd", "ichimoku"}
<1>5. IsFiniteSet(S \union {"rsi"}) /\ Cardinality(S \union {"rsi"}) = 5
  BY <1>4, FS_AddElement
<1>6. S \union {"rsi"} = Indicators
  BY DEF Indicators
<1> QED
  BY <1>5, <1>6

LEMMA UpTo ==
    ASSUME NEW n \in Nat
    PROVE  IsFiniteSet(1 .. n) /\ Cardinality(1 .. n) = n
<1>1. IsFiniteSet(1 .. n) /\ Cardinality(1 .. n) = IF 1 > n THEN 0 ELSE n - 1 + 1
  BY FS_Interval
<1> QED
  BY <1>1

LEMMA EveryoneRanked ==
    ASSUME NEW o \in Orders
    PROVE  /\ Places = 1 .. 5 /\ o \in [Places -> Indicators] /\ o \in Injection(Places, Indicators)
           /\ \A x \in Indicators : \E j \in Places : o[j] = x
<1>1. Places = 1 .. 5
  BY FiveIndicators DEF Places
<1>2. o \in Injection(Places, Indicators)
  BY DEF Orders, Injection, IsInjective
<1>3. IsFiniteSet(Places) /\ Cardinality(Places) = 5
  BY <1>1, UpTo
<1>4. o \in Surjection(Places, Indicators)
  BY <1>2, <1>3, FiveIndicators, FS_Injection
<1> QED
  BY <1>1, <1>2, <1>4 DEF Orders, Surjection

LEMMA PerformanceInt ==
    ASSUME NEW market \in Markets
    PROVE  /\ \A x \in Indicators : Performance(market)[x] \in Int
           /\ Performance(market)["ema"] = 1
<1>1. /\ market.bb \in Seq(Outcomes) /\ market.rsi \in Seq(Outcomes)
      /\ market.ichimoku \in Outcomes
  BY MarketAssumption DEF Outcomes
<1>2. /\ OptimizeBb(market).performance \in Int /\ OptimizeRsi(market).performance \in Int
      /\ OptimizeIchimoku(market.ichimoku) \in Int
  BY <1>1, SearchIsFirstBest DEF OptimizeBb, OptimizeRsi, OptimizeIchimoku, Outcomes
<1> QED
  BY <1>2 DEF Performance, Indicators, OptimizeEma, OptimizeMacd

(* What a ranking enables.                                                 *)
EnabledOf(o, performance, places) ==
    {o[k] : k \in {k \in Places : k <= places /\ performance[o[k]] > 0}}

LEMMA EnabledIsBest ==
    ASSUME NEW p, \A x \in Indicators : p[x] \in Int, NEW o \in Rankings(p),
           NEW places \in 0 .. 5
    PROVE  LET enabled == EnabledOf(o, p, places)
               Rest == Indicators \ enabled
           IN /\ enabled \subseteq Indicators
              /\ \A x \in enabled : p[x] > 0 /\ \A y \in Rest : p[x] >= p[y]
              /\ Cardinality(enabled) <= places
              /\ Cardinality(enabled) < places => \A y \in Rest : p[y] <= 0
              /\ places > 0 /\ p["ema"] > 0 => enabled # {}
<1> DEFINE enabled == EnabledOf(o, p, places)
           Rest == Indicators \ enabled
           P == {k \in Places : k <= places /\ p[o[k]] > 0}
<1>1. /\ o \in Orders /\ Places = 1 .. 5 /\ o \in [Places -> Indicators]
      /\ o \in Injection(Places, Indicators)
      /\ \A x \in Indicators : \E j \in Places : o[j] = x
      /\ \A a, b \in Places : a < b => p[o[a]] >= p[o[b]]
  BY EveryoneRanked DEF Rankings
<1>2. enabled = {o[k] : k \in P} /\ P \subseteq 1 .. places /\ P \subseteq Places
  BY <1>1 DEF EnabledOf
<1>3. \A k \in Places : p[o[k]] \in Int
  BY <1>1
<1>4. enabled \subseteq Indicators
  BY <1>1, <1>2
<1> HIDE DEF enabled
<1>5. ASSUME NEW y \in Rest PROVE \E j \in Places : o[j] = y /\ (j > places \/ p[y] <= 0)
  <2>1. PICK j \in Places : o[j] = y
    BY <1>1
  <2>2. j \notin P
    BY <1>2, <2>1
  <2> QED
    BY <1>1, <1>3, <2>1, <2>2
<1>6. ASSUME NEW x \in enabled PROVE p[x] > 0 /\ \A y \in Rest : p[x] >= p[y]
  <2>1. PICK k \in P : x = o[k]
    BY <1>2
  <2>2. k \in Places /\ k <= places /\ p[x] > 0 /\ p[x] \in Int
    BY <1>3, <2>1
  <2>3. ASSUME NEW y \in Rest PROVE p[x] >= p[y]
    <3>1. PICK j \in Places : o[j] = y /\ (j > places \/ p[y] <= 0)
      BY <1>5
    <3>2. p[y] \in Int
      BY <1>3, <3>1
    <3>3. CASE j > places
      <4>1. k < j
        BY <1>1, <2>2, <3>3
      <4> QED
        BY <1>1, <2>1, <2>2, <3>1, <4>1
    <3>4. CASE p[y] <= 0
      BY <2>2, <3>2, <3>4
    <3> QED
      BY <3>1, <3>3, <3>4
  <2> QED
    BY <2>2, <2>3
<1>7. IsFiniteSet(P) /\ IsFiniteSet(1 .. places) /\ Cardinality(1 .. places) = places
      /\ Cardinality(P) <= places
  <2>1. IsFiniteSet(1 .. places) /\ Cardinality(1 .. places) = places
    BY UpTo
  <2> QED
    BY <1>2, <2>1, FS_Subset
<1>8. Cardinality(enabled) = Cardinality(P)
  <2> DEFINE f == [k \in P |-> o[k]]
  <2>1. f \in Bijection(P, enabled)
    <3> SUFFICES f \in [P -> enabled] /\ (\A a, b \in P : f[a] = f[b] => a = b)
                 /\ \A t \in enabled : \E a \in P : f[a] = t
      BY DEF Bijection, Injection, Surjection, IsInjective
    <3>1. \A a, b \in P : o[a] = o[b] => a = b
      BY <1>1, <1>2 DEF Orders
    <3> QED
      BY <1>2, <3>1
  <2>2. ExistsBijection(P, enabled)
    BY <2>1 DEF ExistsBijection
  <2> QED
    BY <1>7, <2>2, FS_Bijection
<1>9. ASSUME Cardinality(enabled) < places, NEW y \in Rest PROVE p[y] <= 0
  <2> SUFFICES ASSUME ~(p[y] <= 0) PROVE FALSE
    OBVIOUS
  <2>1. PICK j \in Places : o[j] = y /\ j > places
    BY <1>5
  <2>2. p[y] > 0 /\ p[y] \in Int
    BY <1>3, <2>1
  <2>3. 1 .. places \subseteq P
    <3> SUFFICES ASSUME NEW k \in 1 .. places PROVE k \in P
      OBVIOUS
    <3>1. k \in Places /\ k < j /\ k <= places
      BY <1>1, <2>1
    <3>2. p[o[k]] >= p[o[j]] /\ p[o[k]] \in Int
      BY <1>1, <1>3, <2>1, <3>1
    <3> QED
      BY <2>1, <2>2, <3>1, <3>2
  <2>4. P = 1 .. places
    BY <1>2, <2>3
  <2>5. Cardinality(P) = places
    BY <1>7, <2>4
  <2> HIDE DEF P
  <2> QED
    BY <1>8, <1>9, <2>5
<1>10. ASSUME places > 0, p["ema"] > 0 PROVE enabled # {}
  <2>1. PICK j \in Places : o[j] = "ema"
    BY <1>1 DEF Indicators
  <2>2. 1 \in Places /\ p[o[1]] \in Int /\ p[o[j]] \in Int
    BY <1>1, <1>3
  <2>3. p[o[1]] >= p[o[j]]
    BY <1>1, <2>2
  <2>4. 1 \in P
    BY <1>10, <2>1, <2>2, <2>3
  <2> QED
    BY <1>2, <2>4
<1> QED
  BY <1>4, <1>6, <1>7, <1>8, <1>9, <1>10 DEF enabled

LEMMA NoParamsType == NoParams \in ParamsOfAI /\ NoParams.enable = {}
  BY DEF NoParams, ParamsOfAI

(* OptimizeParams: parameters, and the best there are.                     *)
LEMMA UpdateIsBest ==
    ASSUME Update, numRanking \in 0 .. 5, numRanking' = numRanking
    PROVE  params' \in ParamsOfAI /\ BestEnabled' /\ BestParameters'
<1>1. PICK market \in Markets :
          /\ params' \in OptimizeParams(market)
          /\ chosen' = IF params' = NoParams THEN NoChoice
                       ELSE [params |-> params', performance |-> Performance(market),
                             market |-> market]
  BY DEF Update
<1> DEFINE p == Performance(market)
           bb == Search(market.bb)
           rsi == Search(market.rsi)
<1>2. /\ market.bb \in Seq(Outcomes) /\ market.rsi \in Seq(Outcomes)
  BY MarketAssumption DEF Outcomes
<1>3. /\ bb.best \in Nat /\ IsFirstBest(bb.best, market.bb)
      /\ rsi.best \in Nat /\ IsFirstBest(rsi.best, market.rsi)
  BY <1>2, SearchIsFirstBest
<1>4. (\A x \in Indicators : p[x] \in Int) /\ p["ema"] = 1
  BY PerformanceInt
<1>5. PICK o \in Rankings(p) :
          params' = IF EnabledOf(o, p, numRanking) = {} THEN NoParams
                    ELSE [enable |-> EnabledOf(o, p, numRanking), bbN |-> bb.best,
                          rsiPeriod |-> rsi.best]
  BY <1>1 DEF OptimizeParams, EnabledOf, OptimizeBb, OptimizeRsi
<1> DEFINE enabled == EnabledOf(o, p, numRanking)
           Rest == Indicators \ enabled
<1>6. /\ enabled \subseteq Indicators
      /\ \A x \in enabled : p[x] > 0 /\ \A y \in Rest : p[x] >= p[y]
      /\ Cardinality(enabled) <= numRanking
      /\ Cardinality(enabled) < numRanking => \A y \in Rest : p[y] <= 0
  <2> HIDE DEF p
  <2> QED
    BY <1>4, <1>5, EnabledIsBest
<1>7. params' = IF enabled = {} THEN NoParams
                ELSE [enable |-> enabled, bbN |-> bb.best, rsiPeriod |-> rsi.best]
  BY <1>5
<1> HIDE DEF p, bb, rsi, enabled
<1>8. CASE enabled = {}
  <2>1. params' = NoParams /\ chosen' = NoChoice
    BY <1>1, <1>7, <1>8
  <2>2. chosen'.params = NoParams /\ chosen'.params.enable = {}
        /\ \A x \in Indicators : chosen'.performance[x] = 0
    BY <2>1 DEF NoChoice, NoParams
  <2>3. Cardinality({}) = 0
    BY FS_EmptySet
  <2>4. BestEnabled'
    <3>1. Cardinality(chosen'.params.enable) <= numRanking'
      BY <2>2, <2>3
    <3>2. \A y \in Indicators : chosen'.performance[y] <= 0
      BY <2>2
    <3> QED
      BY <2>2, <3>1, <3>2 DEF BestEnabled
  <2>5. BestParameters'
    BY <2>2 DEF BestParameters
  <2> QED
    BY <2>1, <2>4, <2>5, NoParamsType
<1>9. CASE enabled # {}
  <2>1. params' = [enable |-> enabled, bbN |-> bb.best, rsiPeriod |-> rsi.best]
    BY <1>7, <1>9
  <2>2. params'.enable = enabled /\ params'.bbN = bb.best /\ params'.rsiPeriod = rsi.best
        /\ params' \in ParamsOfAI /\ params' # NoParams
    BY <1>3, <1>6, <1>9, <2>1 DEF ParamsOfAI, NoParams
  <2>3. chosen' = [params |-> params', performance |-> p, market |-> market]
    BY <1>1, <2>2 DEF p
  <2>4. /\ chosen'.params = params' /\ chosen'.performance = p
        /\ chosen'.market.bb = market.bb /\ chosen'.market.rsi = market.rsi
    BY <2>3
  <2>5. BestEnabled'
    BY <1>6, <2>2, <2>4 DEF BestEnabled
  <2>6. BestParameters'
    BY <1>3, <2>2, <2>4 DEF BestParameters
  <2> QED
    BY <1>9, <2>2, <2>5, <2>6
<1> QED
  BY <1>8, <1>9

LEMMA OptimizerStep ==
    ASSUME OptimizerInv, followed = "optimizer", followed' = followed, OptimizerNext
    PROVE  OptimizerInv'
<1>1. /\ params \in ParamsOfAI /\ optimizers \in Nat /\ numRanking \in 0 .. 5
      /\ BestEnabled /\ BestParameters
  BY DEF OptimizerInv
<1>2. numRanking' = numRanking
  BY DEF OptimizerNext, NewAI, CallTrade, Acquire, ReturnWithoutParams, TradeWithParams,
         UpdateOptimizeParams
<1>3. ASSUME chosen' = chosen PROVE BestEnabled' /\ BestParameters'
  BY <1>1, <1>2, <1>3 DEF BestEnabled, BestParameters
<1>4. CASE Update
  <2>1. params' \in ParamsOfAI /\ BestEnabled' /\ BestParameters'
    BY <1>1, <1>2, <1>4, UpdateIsBest
  <2>2. \/ optimizers' = optimizers \/ optimizers' = optimizers + 1
        \/ optimizers > 0 /\ optimizers' = optimizers - 1
    BY DEF OptimizerNext, NewAI, CallTrade, Acquire, ReturnWithoutParams,
           TradeWithParams, UpdateOptimizeParams
  <2>3. optimizers' \in Nat
    BY <1>1, <2>2
  <2> QED
    BY <1>1, <1>2, <2>1, <2>3 DEF OptimizerInv
<1>5. CASE CallTrade
  <2>1. params' = params /\ chosen' = chosen
        /\ (optimizers' = optimizers \/ optimizers' = optimizers + 1)
    BY <1>5 DEF CallTrade
  <2>2. optimizers' \in Nat
    BY <1>1, <2>1
  <2> QED
    BY <1>1, <1>2, <1>3, <2>1, <2>2 DEF OptimizerInv
<1>6. CASE Acquire \/ ReturnWithoutParams
  <2>1. params' = params /\ chosen' = chosen /\ optimizers' = optimizers
    BY <1>6 DEF Acquire, ReturnWithoutParams
  <2> QED
    BY <1>1, <1>2, <1>3, <2>1 DEF OptimizerInv
<1>7. CASE TradeWithParams
  <2>1. params' = [params EXCEPT !.enable = @ \union {"ema", "macd", "bb"}]
        /\ chosen' = chosen /\ optimizers' = optimizers
    BY <1>7 DEF TradeWithParams
  <2>2. params' \in ParamsOfAI
    BY <1>1, <2>1 DEF ParamsOfAI, Indicators
  <2> QED
    BY <1>1, <1>2, <1>3, <2>1, <2>2 DEF OptimizerInv
<1> QED
  BY <1>4, <1>5, <1>6, <1>7 DEF OptimizerNext, NewAI, UpdateOptimizeParams

LEMMA OptimizerStart == Init => OptimizerInv
<1> SUFFICES ASSUME Init PROVE OptimizerInv
  OBVIOUS
<1>1. Fresh /\ (followed = "optimizer" => numRanking \in NumRankings)
  BY DEF Init, OptimizerInit, OptimizerIdle
<1>2. params = NoParams /\ optimizers = 0 /\ trader = "start" /\ chosen = NoChoice
  BY <1>1 DEF Fresh
<1>3. ASSUME followed = "optimizer" PROVE numRanking \in 0 .. 5 /\ BestEnabled /\ BestParameters
  <2>1. numRanking \in 0 .. 5
    BY <1>1, <1>3, RankingAssumption
  <2>2. chosen.params = NoParams /\ chosen.params.enable = {}
        /\ \A x \in Indicators : chosen.performance[x] = 0
    BY <1>2 DEF NoChoice, NoParams
  <2>3. Cardinality(chosen.params.enable) <= numRanking
    BY <2>1, <2>2, FS_EmptySet
  <2>4. \A y \in Indicators : chosen.performance[y] <= 0
    BY <2>2
  <2> QED
    BY <2>1, <2>2, <2>3, <2>4 DEF BestEnabled, BestParameters
<1> QED
  BY <1>2, <1>3, NoParamsType DEF OptimizerInv

LEMMA OptimizerInvariant == Spec => []OptimizerInv
<1>1. OptimizerInv /\ [Next]_vars => OptimizerInv'
  <2> SUFFICES ASSUME OptimizerInv, [Next]_vars PROVE OptimizerInv'
    OBVIOUS
  <2>1. \/ followed = "optimizer" /\ followed' = followed /\ OptimizerNext
        \/ UNCHANGED <<followed, optimizer>>
    BY DEF Next, vars
  <2>2. CASE UNCHANGED <<followed, optimizer>>
    BY <2>2 DEF optimizer, OptimizerInv, BestEnabled, BestParameters
  <2> QED
    BY <2>1, <2>2, OptimizerStep
<1> QED
  BY <1>1, OptimizerStart, PTL DEF Spec

(* What OptimizeParams chooses is the best of the market it was given: the
   indicators, and the parameters of each (dfcandle.go). *)
THEOREM ChoiceTheorem == Spec => []ChoiceIsBest
<1>1. OptimizerInv => ChoiceIsBest
  BY DEF OptimizerInv, ChoiceIsBest
<1> QED
  BY <1>1, OptimizerInvariant, PTL

-----------------------------------------------------------------------------
(* The Ichimoku cloud.                                                     *)

(* The least and the greatest of a window.                                 *)
Extremes == [min : Int, max : Int]
IsSpan(m, w, k) ==
    /\ m \in Extremes
    /\ \A j \in 1 .. k : m.min <= w[j] /\ w[j] <= m.max
    /\ k # 0 => \E j \in 1 .. k : m.min = w[j]
    /\ k # 0 => \E j \in 1 .. k : m.max = w[j]
    /\ k = 0 => m.min = w[1] /\ m.max = w[1]

Widened(m, price) ==
    [min |-> IF m.min > price THEN price ELSE m.min,
     max |-> IF m.max < price THEN price ELSE m.max]

LEMMA SpanWidens ==
    ASSUME NEW w \in Seq(Int), NEW k \in Nat, k < Len(w), NEW m, IsSpan(m, w, k)
    PROVE  IsSpan(Widened(m, w[k + 1]), w, k + 1)
<1> DEFINE v == Widened(m, w[k + 1])
<1>1. w[k + 1] \in Int /\ m.min \in Int /\ m.max \in Int
  BY DEF IsSpan, Extremes
<1>2. /\ v.min = (IF m.min > w[k + 1] THEN w[k + 1] ELSE m.min)
      /\ v.max = (IF m.max < w[k + 1] THEN w[k + 1] ELSE m.max)
      /\ v \in Extremes
  BY <1>1 DEF Widened, Extremes
<1> HIDE DEF v
<1>3. \A j \in 1 .. k + 1 : j \in 1 .. k \/ j = k + 1
  OBVIOUS
<1>4. \A j \in 1 .. k + 1 : w[j] \in Int
  OBVIOUS
<1>5. \A j \in 1 .. k + 1 : v.min <= w[j] /\ w[j] <= v.max
  <2>1. \A j \in 1 .. k : m.min <= w[j] /\ w[j] <= m.max
    BY DEF IsSpan
  <2> SUFFICES ASSUME NEW j \in 1 .. k + 1 PROVE v.min <= w[j] /\ w[j] <= v.max
    OBVIOUS
  <2>2. /\ v.min \in Int /\ v.max \in Int /\ v.min <= m.min /\ m.max <= v.max
        /\ v.min <= w[k + 1] /\ w[k + 1] <= v.max
    BY <1>1, <1>2
  <2>3. w[j] \in Int
    BY <1>4
  <2>4. CASE j \in 1 .. k
    <3>1. m.min <= w[j] /\ w[j] <= m.max
      BY <2>1, <2>4
    <3> QED
      BY <1>1, <2>2, <2>3, <3>1
  <2>5. CASE j = k + 1
    BY <2>2, <2>5
  <2> QED
    BY <1>3, <2>4, <2>5
<1>6. (\E j \in 1 .. k + 1 : v.min = w[j]) /\ (\E j \in 1 .. k + 1 : v.max = w[j])
  <2>1. CASE k = 0
    <3>1. k + 1 = 1 /\ 1 \in 1 .. k + 1 /\ m.min = w[1] /\ m.max = w[1]
      BY <2>1 DEF IsSpan
    <3> QED
      BY <3>1, <1>2
  <2>2. CASE k # 0
    <3>1. PICK a \in 1 .. k : m.min = w[a]
      BY <2>2 DEF IsSpan
    <3>2. PICK b \in 1 .. k : m.max = w[b]
      BY <2>2 DEF IsSpan
    <3>3. a \in 1 .. k + 1 /\ b \in 1 .. k + 1 /\ k + 1 \in 1 .. k + 1
      OBVIOUS
    <3> QED
      BY <3>1, <3>2, <3>3, <1>2
  <2> QED
    BY <2>1, <2>2
<1>7. IsSpan(v, w, k + 1)
  <2>1. k + 1 # 0
    OBVIOUS
  <2> QED
    BY <1>2, <1>5, <1>6, <2>1, Zenon DEF IsSpan
<1> QED
  BY <1>7 DEF v

(* So minMax returns the extremes of what it is given.                     *)
LEMMA MinMaxSpans ==
    ASSUME NEW w \in Seq(Int), w # << >>
    PROVE  IsSpan(minMax(w), w, Len(w))
<1> DEFINE n == Len(w)
           base == [min |-> w[1], max |-> w[1]]
           Walks(g) == g = [k \in 0 .. Len(w) |->
               IF k = 0 THEN [min |-> w[1], max |-> w[1]]
               ELSE [min |-> IF g[k - 1].min > w[k] THEN w[k] ELSE g[k - 1].min,
                     max |-> IF g[k - 1].max < w[k] THEN w[k] ELSE g[k - 1].max]]
           found == CHOOSE g : Walks(g)
           step == [k \in 1 .. n |-> [m \in Extremes |-> Widened(m, w[k])]]
<1>1. n \in Nat \ {0} /\ 1 \in 1 .. n /\ \A k \in 1 .. n : w[k] \in Int
  OBVIOUS
<1>2. base \in Extremes
  BY <1>1 DEF Extremes
<1>3. \A k \in 1 .. n, m \in Extremes : Widened(m, w[k]) \in Extremes
  BY <1>1 DEF Widened, Extremes
<1>4. step \in [1 .. n -> [Extremes -> Extremes]]
  BY <1>3
<1>5. \A k \in 1 .. n, m \in Extremes : step[k][m] = Widened(m, w[k])
  OBVIOUS
<1> HIDE DEF step
<1>6. PICK g : Recurses(g, n, Extremes, base, step)
  <2> HIDE DEF n, base
  <2> QED
    BY <1>1, <1>2, <1>4, Recursion
<1>7. \A k \in 1 .. n : k - 1 \in 0 .. n /\ k # 0
  BY <1>1
<1>8. \A k \in 1 .. n : g[k] = Widened(g[k - 1], w[k])
  BY <1>5, <1>6, <1>7 DEF Recurses
<1>9. Walks(g)
  <2>1. g = [k \in 0 .. Len(w) |-> g[k]] /\ g[0] = base
    BY <1>6 DEF Recurses
  <2>2. \A k \in 0 .. Len(w) : k = 0 \/ (k # 0 /\ k \in 1 .. n)
    BY <1>1
  <2>3. g = [k \in 0 .. Len(w) |-> IF k = 0 THEN base ELSE Widened(g[k - 1], w[k])]
    <3> HIDE DEF base, n
    <3>1. \A k \in 0 .. Len(w) : g[k] = IF k = 0 THEN base ELSE Widened(g[k - 1], w[k])
      BY <1>8, <2>1, <2>2, Zenon
    <3> QED
      BY <2>1, <3>1, Zenon
  <2> QED
    BY <2>3, Zenon DEF Widened
<1>10. Walks(found)
  <2> HIDE DEF Walks
  <2> QED
    BY <1>9
<1>11. minMax(w) = found[n]
  BY DEF minMax
<1> HIDE DEF found
<1>12. found[0] = base /\ \A k \in 1 .. n : found[k] = Widened(found[k - 1], w[k])
  <2>1. \A k \in 1 .. n : k \in 0 .. Len(w) /\ k # 0
    BY <1>1
  <2>2. 0 \in 0 .. Len(w)
    BY <1>1
  <2> QED
    BY <2>1, <2>2, <1>10, Zenon DEF Widened
<1> DEFINE S == {k \in Nat : k <= n => IsSpan(found[k], w, k)}
<1>13. 0 \in S
  BY <1>2, <1>12 DEF IsSpan
<1>14. ASSUME NEW k \in Nat, k \in S PROVE k + 1 \in S
  <2> SUFFICES ASSUME k + 1 <= n PROVE IsSpan(found[k + 1], w, k + 1)
    OBVIOUS
  <2>1. k < n /\ k + 1 \in 1 .. n /\ (k + 1) - 1 = k
    BY <1>1
  <2>2. IsSpan(found[k], w, k)
    BY <1>14, <2>1
  <2>3. found[k + 1] = Widened(found[k], w[k + 1])
    BY <1>12, <2>1
  <2> QED
    BY <2>1, <2>2, <2>3, SpanWidens
<1> HIDE DEF S
<1>15. \A k \in Nat : k \in S
  BY <1>13, <1>14, SetInduction
<1> QED
  BY <1>1, <1>11, <1>15 DEF S

-----------------------------------------------------------------------------
(* A part of a list, place by place.                                       *)
LEMMA PartOf ==
    ASSUME NEW list \in Seq(Int), NEW a \in Int, NEW b \in Int, 1 <= a, a <= b, b <= Len(list)
    PROVE  /\ SubSeq(list, a, b) \in Seq(Int)
           /\ Len(SubSeq(list, a, b)) = b - a + 1
           /\ \A j \in 1 .. b - a + 1 : SubSeq(list, a, b)[j] = list[a + j - 1]
  OBVIOUS

(* The n closes before candle p.                                           *)
LEMMA WindowOf ==
    ASSUME NEW list \in Seq(Int), NEW p \in 0 .. Len(list) - 1, NEW n \in 1 .. p
    PROVE  /\ Window(list, p, n) \in Seq(Int) /\ Window(list, p, n) # << >>
           /\ Len(Window(list, p, n)) = n
           /\ \A j \in 1 .. n : Window(list, p, n)[j] = list[p - n + j]
<1> DEFINE a == p - n + 1
<1>1. /\ a \in Int /\ 1 <= a /\ a <= p /\ p \in Int /\ p <= Len(list)
      /\ p - a + 1 = n /\ n # 0
      /\ \A j \in 1 .. n : a + j - 1 = p - n + j
  <2>1. Len(list) \in Nat
    OBVIOUS
  <2>2. p \in Int /\ n \in Int /\ 1 <= n /\ n <= p /\ p <= Len(list)
    BY <2>1
  <2>3. a \in Int /\ 1 <= a /\ a <= p /\ p - a + 1 = n /\ n # 0
    BY <2>2
  <2>4. \A j \in 1 .. n : a + j - 1 = p - n + j
    BY <2>2
  <2> QED
    BY <2>2, <2>3, <2>4
<1>2. Window(list, p, n) = SubSeq(list, a, p)
  BY DEF Window
<1> HIDE DEF a
<1>3. /\ SubSeq(list, a, p) \in Seq(Int)
      /\ Len(SubSeq(list, a, p)) = p - a + 1
      /\ \A j \in 1 .. p - a + 1 : SubSeq(list, a, p)[j] = list[a + j - 1]
  BY <1>1, PartOf
<1>4. /\ Window(list, p, n) \in Seq(Int) /\ Len(Window(list, p, n)) = n
      /\ \A j \in 1 .. n : Window(list, p, n)[j] = list[p - n + j]
  BY <1>1, <1>2, <1>3, Zenon
<1>5. Len(<< >>) = 0
  OBVIOUS
<1> QED
  BY <1>1, <1>4, <1>5, Zenon

(* Two elements that bound a set are its least and its greatest.           *)
LEMMA ExtremesAre ==
    ASSUME NEW S \in SUBSET Int
    PROVE  /\ \A x \in S : (\A y \in S : x <= y) => Min(S) = x
           /\ \A x \in S : (\A y \in S : y <= x) => Max(S) = x
<1>1. ASSUME NEW x \in S, \A y \in S : x <= y PROVE Min(S) = x
  <2>1. \A z \in S : (\A y \in S : z <= y) => z = x
    BY <1>1
  <2> QED
    BY <1>1, <2>1 DEF Min
<1>2. ASSUME NEW x \in S, \A y \in S : y <= x PROVE Max(S) = x
  <2>1. \A z \in S : (\A y \in S : z >= y) => z = x
    BY <1>2
  <2>2. \A y \in S : x >= y
    BY <1>2
  <2> QED
    BY <1>2, <2>1, <2>2 DEF Max
<1> QED
  BY <1>1, <1>2

(* The middle of a window, said of the closes in it.                       *)
LEMMA MiddleIs ==
    ASSUME NEW list \in Seq(Int), NEW p \in 0 .. Len(list) - 1, NEW n \in 1 .. p
    PROVE  /\ Middle(Window(list, p, n)) = MiddleOf({list[j] : j \in p - n + 1 .. p})
           /\ \E x \in Int : Middle(Window(list, p, n)) = 2 * x
<1> DEFINE w == Window(list, p, n)
           m == minMax(w)
           S == {list[j] : j \in p - n + 1 .. p}
<1>1. Len(list) \in Nat /\ p \in Nat /\ n \in Nat /\ 1 <= n /\ n <= p /\ p < Len(list)
  OBVIOUS
<1>2. /\ w \in Seq(Int) /\ w # << >> /\ Len(w) = n
      /\ \A j \in 1 .. n : w[j] = list[p - n + j]
  BY WindowOf
<1> HIDE DEF w
<1>3. IsSpan(m, w, n)
  BY <1>2, MinMaxSpans
<1> HIDE DEF m
<1>4. S \in SUBSET Int
  <2>1. \A j \in p - n + 1 .. p : j \in 1 .. Len(list)
    BY <1>1
  <2>2. \A j \in 1 .. Len(list) : list[j] \in Int
    OBVIOUS
  <2> QED
    BY <2>1, <2>2
<1>5. \A j \in 1 .. n : w[j] \in S
  <2>1. \A j \in 1 .. n : p - n + j \in p - n + 1 .. p
    BY <1>1
  <2> QED
    BY <1>2, <2>1
<1>6. \A y \in S : \E j \in 1 .. n : y = w[j]
  <2> SUFFICES ASSUME NEW k \in p - n + 1 .. p PROVE \E j \in 1 .. n : list[k] = w[j]
    OBVIOUS
  <2>1. k - (p - n) \in 1 .. n /\ p - n + (k - (p - n)) = k
    BY <1>1
  <2> QED
    BY <1>2, <2>1
<1> HIDE DEF S
<1>7. m.min \in S /\ m.max \in S /\ m.min \in Int /\ m.max \in Int
  <2>1. n # 0
    BY <1>1
  <2> QED
    BY <1>3, <1>5, <2>1, Zenon DEF IsSpan, Extremes
<1>8. \A y \in S : m.min <= y /\ y <= m.max
  BY <1>3, <1>6, Zenon DEF IsSpan
<1>9. Min(S) = m.min /\ Max(S) = m.max
  BY <1>4, <1>7, <1>8, ExtremesAre
<1>10. Middle(w) = 2 * (m.min + m.max)
  BY DEF Middle, m
<1>11. MiddleOf(S) = 2 * (m.max + m.min)
  BY <1>9 DEF MiddleOf
<1>12. m.min + m.max \in Int /\ 2 * (m.min + m.max) = 2 * (m.max + m.min)
  BY <1>7
<1>13. Middle(w) = MiddleOf(S) /\ \E x \in Int : Middle(w) = 2 * x
  BY <1>10, <1>11, <1>12
<1> QED
  BY <1>13 DEF w, S

-----------------------------------------------------------------------------
(* The lines, as the loop makes them.                                      *)

DelayOf(name) ==
    IF name = "tenkan" THEN TenkanN ELSE IF name = "senkouB" THEN SenkouN ELSE KijunN

(* What a line has for candle p, once there are candles enough before it.  *)
ValueAt(name, list, p) ==
    IF name = "chikou" THEN 4 * list[p - KijunN + 1]
    ELSE IF name = "senkouA"
         THEN SpanA(Middle(Window(list, p, TenkanN)), Middle(Window(list, p, KijunN)))
         ELSE Middle(Window(list, p, DelayOf(name)))

(* A line of a list of that many closes after k passes of the loop.        *)
IsLine(x, name, list, k) ==
    /\ x \in Seq(Int)
    /\ Len(x) = IF k <= DelayOf(name) THEN Min({DelayOf(name), Len(list)}) ELSE k
    /\ \A j \in 1 .. Len(x) :
          x[j] = IF j <= DelayOf(name) THEN 0 ELSE ValueAt(name, list, j - 1)

AreLines(l, list, k) == \A name \in Lines : IsLine(l[name], name, list, k)

LEMMA DelayType ==
    ASSUME NEW name \in Lines
    PROVE  DelayOf(name) \in Nat \ {0} /\ TenkanN <= DelayOf(name)
<1>1. /\ TenkanN \in Nat \ {0} /\ KijunN \in Nat \ {0} /\ SenkouN \in Nat \ {0}
      /\ TenkanN <= KijunN /\ TenkanN <= SenkouN /\ TenkanN <= TenkanN
  BY WindowAssumption
<1> QED
  BY <1>1, Zenon DEF DelayOf

(* The length of the leading zeros: a short list cuts them.                *)
LEMMA Smaller ==
    ASSUME NEW a \in Nat, NEW b \in Nat
    PROVE  Min({a, b}) = IF a <= b THEN a ELSE b
<1>1. {a, b} \in SUBSET Int
  OBVIOUS
<1>2. CASE a <= b
  <2>1. \A y \in {a, b} : a <= y
    BY <1>2
  <2> QED
    BY <1>1, <1>2, <2>1, ExtremesAre
<1>3. CASE ~(a <= b)
  <2>1. \A y \in {a, b} : b <= y
    BY <1>3
  <2> QED
    BY <1>1, <1>3, <2>1, ExtremesAre
<1> QED
  BY <1>2, <1>3

(* Before the loop a line is its leading zeros.                            *)
LEMMA ZerosFirst ==
    ASSUME NEW list \in Seq(Int), NEW name \in Lines
    PROVE  IsLine(Zeros(DelayOf(name), Len(list)), name, list, 0)
<1> DEFINE n == DelayOf(name)
           m == Min({n, Len(list)})
           x == [k \in 1 .. m |-> 0]
<1>1. n \in Nat \ {0} /\ Len(list) \in Nat
  BY DelayType
<1> HIDE DEF n
<1>2. m \in Nat /\ m <= n
  BY <1>1, Smaller
<1> HIDE DEF m
<1>3. x \in Seq(Int) /\ Len(x) = m /\ \A j \in 1 .. m : x[j] = 0 /\ j <= n
  BY <1>1, <1>2
<1>4. Zeros(n, Len(list)) = x
  BY DEF Zeros, m
<1>5. 0 <= n
  BY <1>1
<1> HIDE DEF x
<1>6. IsLine(x, name, list, 0)
  BY <1>3, <1>5, Zenon DEF IsLine, n, m
<1> QED
  BY <1>4, <1>6 DEF n

(* What pass k leaves of a line: it is as long as its delay, or k long.    *)
LEMMA LineGrows ==
    ASSUME NEW list \in Seq(Int), NEW name \in Lines, NEW k \in 0 .. Len(list) - 1,
           NEW x, IsLine(x, name, list, k), k >= DelayOf(name) => ValueAt(name, list, k) \in Int
    PROVE  IsLine(IF k < DelayOf(name) THEN x ELSE Append(x, ValueAt(name, list, k)),
                  name, list, k + 1)
<1> DEFINE n == DelayOf(name)
           v == ValueAt(name, list, k)
<1>1. n \in Nat \ {0} /\ Len(list) \in Nat /\ k \in Nat /\ k < Len(list)
  BY DelayType
<1>2. x \in Seq(Int)
  BY DEF IsLine
<1>3. Len(x) = IF k <= n THEN Min({n, Len(list)}) ELSE k
  BY DEF IsLine
<1>4. \A j \in 1 .. Len(x) : x[j] = IF j <= n THEN 0 ELSE ValueAt(name, list, j - 1)
  BY DEF IsLine
<1> HIDE DEF n
<1>5. Min({n, Len(list)}) = IF n <= Len(list) THEN n ELSE Len(list)
  BY <1>1, Smaller
<1>6. CASE k < n
  <2>1. k <= n /\ k + 1 <= n
    BY <1>1, <1>6
  <2>2. Len(x) = IF k + 1 <= n THEN Min({n, Len(list)}) ELSE k + 1
    BY <1>3, <2>1
  <2> QED
    BY <1>2, <1>4, <1>6, <2>2, Zenon DEF IsLine, n
<1>7. CASE ~(k < n)
  <2>1. ~(k + 1 <= n) /\ Len(x) = k
    BY <1>1, <1>3, <1>5, <1>7
  <2>2. v \in Int
    BY <1>1, <1>7 DEF n
  <2> HIDE DEF v
  <2>3. /\ Append(x, v) \in Seq(Int) /\ Len(Append(x, v)) = k + 1
        /\ \A j \in 1 .. k : Append(x, v)[j] = x[j]
        /\ Append(x, v)[k + 1] = v
    BY <1>1, <1>2, <2>1, <2>2
  <2>4. \A j \in 1 .. k + 1 : j \in 1 .. k \/ (j = k + 1 /\ j - 1 = k)
    BY <1>1
  <2>5. \A j \in 1 .. k + 1 :
           Append(x, v)[j] = IF j <= n THEN 0 ELSE ValueAt(name, list, j - 1)
    BY <1>4, <2>1, <2>3, <2>4, Zenon DEF v
  <2>6. IsLine(Append(x, v), name, list, k + 1)
    BY <2>1, <2>3, <2>5, Zenon DEF IsLine, n
  <2> QED
    BY <1>7, <2>6, Zenon DEF v, n
<1> QED
  BY <1>6, <1>7

LEMMA ValueType ==
    ASSUME NEW list \in Seq(Int), NEW name \in Lines, NEW k \in 0 .. Len(list) - 1,
           k >= DelayOf(name)
    PROVE  ValueAt(name, list, k) \in Int
<1>1. Len(list) \in Nat /\ k \in Nat
  OBVIOUS
<1>2. /\ TenkanN \in Nat /\ 1 <= TenkanN /\ TenkanN <= KijunN /\ KijunN \in Nat /\ SenkouN \in Nat
      /\ 1 <= SenkouN /\ 1 <= KijunN
  BY WindowAssumption
<1>3. \A n \in 1 .. k : Middle(Window(list, k, n)) \in Int
  <2> SUFFICES ASSUME NEW n \in 1 .. k PROVE Middle(Window(list, k, n)) \in Int
    OBVIOUS
  <2>1. PICK x \in Int : Middle(Window(list, k, n)) = 2 * x
    BY MiddleIs, Zenon
  <2> QED
    BY <2>1
<1>4. CASE name = "chikou"
  <2>1. k >= KijunN
    BY <1>4, Zenon DEF DelayOf
  <2>2. k - KijunN + 1 \in 1 .. Len(list)
    BY <1>1, <1>2, <2>1
  <2>3. list[k - KijunN + 1] \in Int
    BY <2>2
  <2>4. 4 * list[k - KijunN + 1] \in Int
    BY <2>3
  <2> QED
    BY <1>4, <2>4 DEF ValueAt
<1>5. CASE name = "senkouA"
  <2>1. k >= KijunN
    BY <1>5, Zenon DEF DelayOf
  <2>2. TenkanN \in 1 .. k /\ KijunN \in 1 .. k
    BY <1>1, <1>2, <2>1
  <2>3. SpanA(Middle(Window(list, k, TenkanN)), Middle(Window(list, k, KijunN))) \in Int
    BY <1>3, <2>2 DEF SpanA
  <2> QED
    BY <1>5, <2>3, Zenon DEF ValueAt
<1>6. CASE name \notin {"chikou", "senkouA"}
  <2>1. DelayOf(name) \in Nat /\ 1 <= DelayOf(name)
    BY DelayType
  <2>2. DelayOf(name) \in 1 .. k
    BY <1>1, <2>1
  <2> QED
    BY <1>3, <1>6, <2>2, Zenon DEF ValueAt
<1> QED
  BY <1>4, <1>5, <1>6

(* One pass of the loop adds to each line what its formula gives.          *)
Grown(name, l, list, k) ==
    IF k < DelayOf(name) THEN l[name] ELSE Append(l[name], ValueAt(name, list, k))

(* A pass appends to each line, once its delay is over, the next value.    *)
LEMMA PassAdds ==
    ASSUME NEW list \in Seq(Int), NEW k \in 0 .. Len(list) - 1, NEW l, AreLines(l, list, k)
    PROVE  \A name \in Lines : Extended(l, list, k)[name] = Grown(name, l, list, k)
<1> DEFINE e == Extended(l, list, k)
<1>1. /\ DelayOf("tenkan") = TenkanN /\ DelayOf("kijun") = KijunN /\ DelayOf("senkouA") = KijunN
      /\ DelayOf("senkouB") = SenkouN /\ DelayOf("chikou") = KijunN
  BY Zenon DEF DelayOf
<1>2. /\ ValueAt("tenkan", list, k) = Middle(Window(list, k, TenkanN))
      /\ ValueAt("kijun", list, k) = Middle(Window(list, k, KijunN))
      /\ ValueAt("senkouB", list, k) = Middle(Window(list, k, SenkouN))
      /\ ValueAt("chikou", list, k) = 4 * list[k - KijunN + 1]
      /\ ValueAt("senkouA", list, k)
             = SpanA(Middle(Window(list, k, TenkanN)), Middle(Window(list, k, KijunN)))
  BY <1>1, Zenon DEF ValueAt
<1>3. e["tenkan"] = Grown("tenkan", l, list, k)
  BY <1>1, <1>2, Zenon DEF Extended, Grown
<1>4. e["kijun"] = Grown("kijun", l, list, k)
  BY <1>1, <1>2, Zenon DEF Extended, Grown
<1>5. e["senkouB"] = Grown("senkouB", l, list, k)
  BY <1>1, <1>2, Zenon DEF Extended, Grown
<1>6. e["chikou"] = Grown("chikou", l, list, k)
  BY <1>1, <1>2, Zenon DEF Extended, Grown
<1>7. e["senkouA"] = IF k < KijunN THEN l.senkouA
                     ELSE Append(l.senkouA, SpanA(e["tenkan"][k + 1], e["kijun"][k + 1]))
  BY Zenon DEF Extended
<1> HIDE DEF e
<1>8. ASSUME NEW name \in {"tenkan", "kijun"}, ~(k < KijunN)
      PROVE  Grown(name, l, list, k)[k + 1] = ValueAt(name, list, k)
  <2>1. /\ DelayOf(name) \in Nat /\ k \in Nat /\ ~(k < DelayOf(name))
        /\ k + 1 \in 1 .. k + 1 /\ ~(k + 1 <= DelayOf(name)) /\ (k + 1) - 1 = k
    BY <1>1, <1>8, WindowAssumption
  <2>2. name \in Lines /\ IsLine(l[name], name, list, k)
    BY DEF Lines, AreLines
  <2>3. k >= DelayOf(name) => ValueAt(name, list, k) \in Int
    BY <2>2, ValueType
  <2>4. IsLine(Grown(name, l, list, k), name, list, k + 1)
    BY <2>2, <2>3, LineGrows DEF Grown
  <2>5. Len(Grown(name, l, list, k)) = k + 1
    BY <2>1, <2>4, Zenon DEF IsLine
  <2> QED
    BY <2>1, <2>4, <2>5, Zenon DEF IsLine
<1>9. e["senkouA"] = Grown("senkouA", l, list, k)
  <2>1. CASE k < KijunN
    BY <1>1, <1>7, <2>1, Zenon DEF Grown
  <2>2. CASE ~(k < KijunN)
    BY <1>1, <1>2, <1>3, <1>4, <1>7, <1>8, <2>2, Zenon DEF Grown
  <2> QED
    BY <2>1, <2>2
<1> QED
  BY <1>3, <1>4, <1>5, <1>6, <1>9, Zenon DEF Lines, e

(* The invariant of the loop.                                              *)
LEMMA PassKeepsLines ==
    ASSUME NEW list \in Seq(Int), NEW k \in 0 .. Len(list) - 1, NEW l, AreLines(l, list, k)
    PROVE  AreLines(Extended(l, list, k), list, k + 1)
<1> SUFFICES ASSUME NEW name \in Lines
             PROVE  IsLine(Grown(name, l, list, k), name, list, k + 1)
  BY PassAdds, Zenon DEF AreLines
<1>1. IsLine(l[name], name, list, k)
  BY DEF AreLines
<1>2. k >= DelayOf(name) => ValueAt(name, list, k) \in Int
  BY ValueType
<1> QED
  BY <1>1, <1>2, LineGrows DEF Grown

(* The lines before the loop.                                              *)
Blank(len) ==
    [tenkan  |-> Zeros(TenkanN, len),
     kijun   |-> Zeros(KijunN, len),
     senkouA |-> Zeros(KijunN, len),
     senkouB |-> Zeros(SenkouN, len),
     chikou  |-> Zeros(KijunN, len)]

LEMMA BlankLines ==
    ASSUME NEW list \in Seq(Int)
    PROVE  AreLines(Blank(Len(list)), list, 0)
<1>1. \A name \in Lines : Blank(Len(list))[name] = Zeros(DelayOf(name), Len(list))
  <2>1. /\ DelayOf("tenkan") = TenkanN /\ DelayOf("kijun") = KijunN /\ DelayOf("senkouA") = KijunN
        /\ DelayOf("senkouB") = SenkouN /\ DelayOf("chikou") = KijunN
    BY Zenon DEF DelayOf
  <2>2. /\ Blank(Len(list))["tenkan"] = Zeros(TenkanN, Len(list))
        /\ Blank(Len(list))["kijun"] = Zeros(KijunN, Len(list))
        /\ Blank(Len(list))["senkouA"] = Zeros(KijunN, Len(list))
        /\ Blank(Len(list))["senkouB"] = Zeros(SenkouN, Len(list))
        /\ Blank(Len(list))["chikou"] = Zeros(KijunN, Len(list))
    BY DEF Blank
  <2> QED
    BY <2>1, <2>2, Zenon DEF Lines
<1> QED
  BY <1>1, ZerosFirst, Zenon DEF AreLines

(* The loop over all closes.                                               *)
LEMMA CloudLines ==
    ASSUME NEW list \in Seq(Int)
    PROVE  AreLines(IchimokuCloud(list), list, Len(list))
<1> DEFINE n == Len(list)
           Loop(g, m) == /\ g = [k \in 0 .. m |-> g[k]] /\ g[0] = Blank(n)
                         /\ \A k \in 1 .. m : g[k] = Extended(g[k - 1], list, k - 1)
           Runs(g) == g = [k \in 0 .. n |-> IF k = 0 THEN Blank(n)
                                            ELSE Extended(g[k - 1], list, k - 1)]
           after == CHOOSE g : Runs(g)
           S == {m \in Nat : \E g : Loop(g, m)}
<1>1. n \in Nat
  OBVIOUS
<1> HIDE DEF n
<1>2. 0 \in S
  <2> DEFINE h == [k \in 0 .. 0 |-> Blank(n)]
  <2>1. Loop(h, 0)
    OBVIOUS
  <2> HIDE DEF Loop, h
  <2> QED
    BY <2>1
<1>3. ASSUME NEW m \in Nat, m \in S PROVE m + 1 \in S
  <2>1. PICK g : Loop(g, m)
    BY <1>3
  <2> DEFINE h == [k \in 0 .. m + 1 |-> IF k <= m THEN g[k] ELSE Extended(g[m], list, m)]
  <2>2. h[0] = Blank(n)
    BY <2>1
  <2>3. ASSUME NEW k \in 1 .. m + 1 PROVE h[k] = Extended(h[k - 1], list, k - 1)
    <3>1. k \in 0 .. m + 1 /\ k - 1 \in 0 .. m + 1 /\ k - 1 <= m /\ h[k - 1] = g[k - 1]
      OBVIOUS
    <3>2. CASE k <= m
      <4>1. k \in 1 .. m /\ h[k] = g[k]
        BY <3>1, <3>2
      <4> HIDE DEF h
      <4> QED
        BY <2>1, <3>1, <4>1, Zenon
    <3>3. CASE k = m + 1
      <4>1. h[k] = Extended(g[m], list, m) /\ k - 1 = m
        BY <3>1, <3>3
      <4> HIDE DEF h
      <4> QED
        BY <3>1, <4>1, Zenon
    <3> QED
      BY <3>2, <3>3
  <2>4. h = [k \in 0 .. m + 1 |-> h[k]]
    OBVIOUS
  <2> HIDE DEF h
  <2>5. Loop(h, m + 1)
    BY <2>2, <2>3, <2>4
  <2> HIDE DEF Loop
  <2> QED
    BY <2>5
<1> HIDE DEF S
<1>4. n \in S
  BY <1>1, <1>2, <1>3, SetInduction
<1>5. PICK g : Loop(g, n)
  BY <1>4 DEF S
<1>6. \A k \in 0 .. n : k = 0 \/ (k # 0 /\ k \in 1 .. n)
  BY <1>1
<1>7. Runs(g)
  <2>1. \A k \in 0 .. n : g[k] = IF k = 0 THEN Blank(n) ELSE Extended(g[k - 1], list, k - 1)
    BY <1>5, <1>6, Zenon
  <2> QED
    BY <1>5, <2>1, Zenon
<1>8. Runs(after)
  <2> HIDE DEF Runs
  <2> QED
    BY <1>7
<1>9. IchimokuCloud(list) = after[n]
  BY Zenon DEF IchimokuCloud, Blank, n
<1> HIDE DEF after
<1>10. after[0] = Blank(n)
  <2>1. 0 \in 0 .. n
    BY <1>1
  <2> QED
    BY <1>8, <2>1, Zenon
<1>11. \A k \in 1 .. n : after[k] = Extended(after[k - 1], list, k - 1)
  <2>1. \A k \in 1 .. n : k \in 0 .. n /\ k # 0
    BY <1>1
  <2> QED
    BY <1>8, <2>1, Zenon
<1> HIDE DEF Runs
<1> DEFINE T == {k \in Nat : k <= n => AreLines(after[k], list, k)}
<1>12. 0 \in T
  BY <1>10, BlankLines DEF n
<1>13. ASSUME NEW k \in Nat, k \in T PROVE k + 1 \in T
  <2> SUFFICES ASSUME k + 1 <= n PROVE AreLines(after[k + 1], list, k + 1)
    OBVIOUS
  <2>1. k \in 0 .. n - 1 /\ k <= n /\ k + 1 \in 1 .. n /\ (k + 1) - 1 = k
    BY <1>1
  <2>2. AreLines(after[k], list, k)
    BY <1>13, <2>1
  <2>3. after[k + 1] = Extended(after[k], list, k)
    BY <1>11, <2>1
  <2>4. AreLines(Extended(after[k], list, k), list, k + 1)
    BY <2>1, <2>2, PassKeepsLines DEF n
  <2> QED
    BY <2>3, <2>4
<1> HIDE DEF T
<1>14. n \in T
  BY <1>1, <1>12, <1>13, SetInduction
<1>15. AreLines(after[n], list, n)
  BY <1>1, <1>14 DEF T
<1> QED
  BY <1>9, <1>15 DEF n

(* What is kept of the lines is what the closes give.                      *)
CloudInv == closes \in Seq(Int) /\ lines = IchimokuCloud(closes)

LEMMA CloudInvariant == Spec => []CloudInv
<1>1. Init => CloudInv
  <2>1. << >> \in Seq(Int)
    OBVIOUS
  <2> QED
    BY <2>1, Zenon DEF Init, CloudInit, CloudInv
<1>2. CloudInv /\ [Next]_vars => CloudInv'
  <2> SUFFICES ASSUME CloudInv, [Next]_vars PROVE CloudInv'
    OBVIOUS
  <2>1. CASE UNCHANGED cloud
    BY <2>1 DEF CloudInv, cloud
  <2>2. CASE CloudNext
    <3>1. ASSUME NEW close \in Prices, NewCandle(close) PROVE CloudInv'
      <4>1. close \in Int /\ PastPeriod \in Nat \ {0}
        BY WindowAssumption DEF Prices
      <4>2. closes' \in Seq(Int)
        BY <3>1, <4>1 DEF NewCandle, CloudInv
      <4> QED
        BY <3>1, <4>2 DEF NewCandle, CloudInv
    <3> QED
      BY <2>2, <3>1 DEF CloudNext
  <2> QED
    BY <2>1, <2>2 DEF Next, vars
<1> QED
  BY <1>1, <1>2, PTL DEF Spec

(* All passes made, a line has a value for each candle.                    *)
LEMMA LinesDone ==
    ASSUME NEW list \in Seq(Int), NEW name \in Lines
    PROVE  /\ IchimokuCloud(list)[name] \in Seq(Int)
           /\ Len(IchimokuCloud(list)[name]) = Len(list)
           /\ \A p \in 0 .. Len(list) - 1 :
                 IchimokuCloud(list)[name][p + 1] =
                     IF p < DelayOf(name) THEN 0 ELSE ValueAt(name, list, p)
<1> DEFINE x == IchimokuCloud(list)[name]
<1>1. Len(list) \in Nat
  OBVIOUS
<1>2. AreLines(IchimokuCloud(list), list, Len(list))
  BY CloudLines
<1>3. IsLine(x, name, list, Len(list))
  BY <1>2 DEF AreLines
<1> HIDE DEF x
<1>4. DelayOf(name) \in Nat
  BY DelayType
<1>5. Min({DelayOf(name), Len(list)}) = IF DelayOf(name) <= Len(list) THEN DelayOf(name) ELSE Len(list)
  BY <1>1, <1>4, Smaller
<1>6. Len(x) = IF Len(list) <= DelayOf(name) THEN Min({DelayOf(name), Len(list)}) ELSE Len(list)
  BY <1>3, Zenon DEF IsLine
<1>7. Len(x) = Len(list)
  BY <1>1, <1>4, <1>5, <1>6
<1>8. \A p \in 0 .. Len(list) - 1 :
         p + 1 \in 1 .. Len(list) /\ (p + 1) - 1 = p /\ (p + 1 <= DelayOf(name) <=> p < DelayOf(name))
  BY <1>1, <1>4
<1>9. \A p \in 0 .. Len(list) - 1 :
         x[p + 1] = IF p + 1 <= DelayOf(name) THEN 0 ELSE ValueAt(name, list, p)
  BY <1>3, <1>7, <1>8, Zenon DEF IsLine
<1>10. x \in Seq(Int)
  BY <1>3, Zenon DEF IsLine
<1>11. \A p \in 0 .. Len(list) - 1 :
         x[p + 1] = IF p < DelayOf(name) THEN 0 ELSE ValueAt(name, list, p)
  BY <1>8, <1>9, Zenon
<1> QED
  BY <1>7, <1>10, <1>11 DEF x

LEMMA DoubleSum ==
    ASSUME NEW a \in Int, NEW b \in Int
    PROVE  2 * ((2 * a + 2 * b) \div 2) = 2 * a + 2 * b
  OBVIOUS

(* Each line has, for every candle, zero or what its formula gives for the candles
   before that one, the chikou the close of KijunN candles before, and is as long as
   the list (algo.go, IchimokuCloud). *)
THEOREM LinesTheorem == Spec => []LinesAsDefined
<1>1. CloudInv => LinesAsDefined
  <2> SUFFICES ASSUME CloudInv PROVE LinesAsDefined
    OBVIOUS
  <2>1. closes \in Seq(Int) /\ Len(closes) \in Nat
    BY DEF CloudInv
  <2>2. ASSUME NEW p \in 0 .. Len(closes) - 1 PROVE ValueIsDefined(p)
    <3>1. p \in Nat /\ TenkanN \in Nat /\ 1 <= TenkanN /\ TenkanN <= KijunN /\ KijunN \in Nat
          /\ SenkouN \in Nat /\ KijunN <= SenkouN
      BY <2>1, WindowAssumption
    <3>2. ~(p < TenkanN) => TenkanN \in 1 .. p
      BY <3>1
    <3>3. ~(p < KijunN) => KijunN \in 1 .. p /\ ~(p < TenkanN)
      BY <3>1
    <3>4. ~(p < SenkouN) => SenkouN \in 1 .. p
      BY <3>1
    <3>5. ASSUME NEW n \in 1 .. p
          PROVE  Middle(Window(closes, p, n)) = MiddleOf(Before(p, n))
      BY <2>1, MiddleIs DEF Before
    <3>6. "tenkan" \in Lines /\ "kijun" \in Lines /\ "senkouA" \in Lines /\ "senkouB" \in Lines
          /\ "chikou" \in Lines
      BY DEF Lines
    <3>7. /\ lines.tenkan[p + 1] = IF p < DelayOf("tenkan") THEN 0 ELSE ValueAt("tenkan", closes, p)
          /\ lines.kijun[p + 1] = IF p < DelayOf("kijun") THEN 0 ELSE ValueAt("kijun", closes, p)
          /\ lines.senkouA[p + 1] = IF p < DelayOf("senkouA") THEN 0 ELSE ValueAt("senkouA", closes, p)
          /\ lines.senkouB[p + 1] = IF p < DelayOf("senkouB") THEN 0 ELSE ValueAt("senkouB", closes, p)
          /\ lines.chikou[p + 1] = IF p < DelayOf("chikou") THEN 0 ELSE ValueAt("chikou", closes, p)
      BY <2>1, <3>6, LinesDone, Zenon DEF CloudInv
    <3>8. /\ lines.tenkan[p + 1] = IF p < TenkanN THEN 0 ELSE Middle(Window(closes, p, TenkanN))
          /\ lines.kijun[p + 1] = IF p < KijunN THEN 0 ELSE Middle(Window(closes, p, KijunN))
          /\ lines.senkouB[p + 1] = IF p < SenkouN THEN 0 ELSE Middle(Window(closes, p, SenkouN))
          /\ lines.senkouA[p + 1] =
                IF p < KijunN THEN 0
                ELSE SpanA(Middle(Window(closes, p, TenkanN)), Middle(Window(closes, p, KijunN)))
          /\ lines.chikou[p + 1] = IF p < KijunN THEN 0 ELSE 4 * closes[p - KijunN + 1]
      BY <3>7, Zenon DEF DelayOf, ValueAt
    <3>9. 2 * lines.senkouA[p + 1] =
             IF p < KijunN THEN 0 ELSE lines.tenkan[p + 1] + lines.kijun[p + 1]
      <4>1. CASE p < KijunN
        BY <3>8, <4>1
      <4>2. CASE ~(p < KijunN)
        <5>1. PICK a \in Int : Middle(Window(closes, p, TenkanN)) = 2 * a
          BY <2>1, <3>2, <3>3, <4>2, MiddleIs, Zenon
        <5>2. PICK b \in Int : Middle(Window(closes, p, KijunN)) = 2 * b
          BY <2>1, <3>3, <4>2, MiddleIs, Zenon
        <5>3. lines.tenkan[p + 1] = 2 * a /\ lines.kijun[p + 1] = 2 * b
          BY <3>3, <3>8, <4>2, <5>1, <5>2, Zenon
        <5>4. lines.senkouA[p + 1] = (2 * a + 2 * b) \div 2
          BY <3>8, <4>2, <5>1, <5>2, Zenon DEF SpanA
        <5>5. 2 * lines.senkouA[p + 1] = 2 * a + 2 * b
          BY <5>4, DoubleSum, Zenon
        <5> QED
          BY <4>2, <5>3, <5>5, Zenon
      <4> QED
        BY <4>1, <4>2
    <3> QED
      BY <3>2, <3>3, <3>4, <3>5, <3>8, <3>9, Zenon DEF ValueIsDefined
  <2>3. \A l \in Lines : Len(lines[l]) = Len(closes)
    BY <2>1, LinesDone DEF CloudInv
  <2> QED
    BY <2>2, <2>3 DEF LinesAsDefined
<1> QED
  BY <1>1, CloudInvariant, PTL

LEMMA SubSeqIsFunction ==
    ASSUME NEW S, NEW list \in Seq(S), NEW a \in Nat, NEW b \in Nat,
           1 <= a, a <= b, b <= Len(list)
    PROVE  SubSeq(list, a, b) = [n \in 1 .. b - a + 1 |-> list[a + n - 1]]
<1> DEFINE f == [n \in 1 .. b - a + 1 |-> list[a + n - 1]]
<1>1. f \in Seq(S) /\ Len(f) = b - a + 1
  OBVIOUS
<1>2. SubSeq(list, a, b) \in Seq(S) /\ Len(SubSeq(list, a, b)) = b - a + 1
  OBVIOUS
<1>3. \A n \in 1 .. b - a + 1 : SubSeq(list, a, b)[n] = f[n]
  OBVIOUS
<1> HIDE DEF f
<1>4. SubSeq(list, a, b) = f
  BY <1>1, <1>2, <1>3
<1> QED
  BY <1>4 DEF f

LEMMA DelayIs == \A name \in Lines : DelayOf(name) = Delay[name]
  BY DEF DelayOf, Delay, Lines

(* The first p closes of a list are those of another from place d + 1 on.  *)
Shifted(later, list, p, d) == \A j \in 1 .. p : later[j] = list[j + d]

(* The closes a value depends on are the same in a list that has lost its first
   closes and got new ones at the end. *)
LEMMA ValueKept ==
    ASSUME NEW list \in Seq(Int), NEW later \in Seq(Int), NEW d \in Nat,
           NEW name \in Lines, NEW p \in 0 .. Len(later) - 1, p + d < Len(list),
           Shifted(later, list, p, d), ~(p < DelayOf(name))
    PROVE  ValueAt(name, later, p) = ValueAt(name, list, p + d)
<1>1. /\ Len(list) \in Nat /\ Len(later) \in Nat /\ p \in Nat /\ p < Len(later)
      /\ p + d \in Nat
  OBVIOUS
<1>2. /\ TenkanN \in Nat /\ 1 <= TenkanN /\ TenkanN <= KijunN /\ KijunN \in Nat /\ SenkouN \in Nat
      /\ KijunN <= SenkouN
  BY WindowAssumption
<1>3. ASSUME NEW n \in 1 .. p PROVE Window(later, p, n) = Window(list, p + d, n)
  <2> DEFINE a == p - n + 1
             c == (p + d) - n + 1
  <2>1. /\ a \in 1 .. p /\ p <= Len(later) /\ c \in 1 .. p + d /\ p + d <= Len(list)
        /\ c = a + d /\ p - a = (p + d) - c
    BY <1>1
  <2>2. \A k \in 1 .. p - a + 1 : a + k - 1 \in 1 .. p /\ (a + k - 1) + d = c + k - 1
    BY <1>1, <2>1
  <2> HIDE DEF a, c
  <2>3. \A k \in 1 .. p - a + 1 : later[a + k - 1] = list[c + k - 1]
    BY <2>2 DEF Shifted
  <2>4. SubSeq(later, a, p) = [k \in 1 .. p - a + 1 |-> later[a + k - 1]]
    <3>1. a \in Nat /\ 1 <= a /\ a <= p /\ p \in Nat /\ p <= Len(later)
      BY <1>1, <2>1
    <3> QED
      BY ONLY later \in Seq(Int), <3>1, SubSeqIsFunction
  <2>5. SubSeq(list, c, p + d) = [k \in 1 .. (p + d) - c + 1 |-> list[c + k - 1]]
    <3> DEFINE b == p + d
    <3>1. c \in Nat /\ 1 <= c /\ c <= b /\ b \in Nat /\ b <= Len(list)
      BY <1>1, <2>1
    <3> HIDE DEF b
    <3>2. SubSeq(list, c, b) = [k \in 1 .. b - c + 1 |-> list[c + k - 1]]
      BY ONLY list \in Seq(Int), <3>1, SubSeqIsFunction
    <3> QED
      BY <3>2 DEF b
  <2>6. SubSeq(later, a, p) = SubSeq(list, c, p + d)
    BY <2>1, <2>3, <2>4, <2>5
  <2> QED
    BY <2>6, Zenon DEF Window, a, c
<1>4. DelayOf(name) \in 1 .. p /\ TenkanN \in 1 .. p
  <2> DEFINE w == DelayOf(name)
  <2>1. w \in Nat /\ TenkanN <= w /\ ~(p < w)
    BY DelayType
  <2> HIDE DEF w
  <2>2. w \in 1 .. p /\ TenkanN \in 1 .. p
    BY <1>1, <1>2, <2>1
  <2> QED
    BY <2>2 DEF w
<1>5. CASE name \in {"chikou", "senkouA"}
  <2>1. KijunN \in 1 .. p
    BY <1>4, <1>5, Zenon DEF DelayOf
  <2>2. p - KijunN + 1 \in 1 .. p /\ (p - KijunN + 1) + d = (p + d) - KijunN + 1
    BY <1>1, <1>2, <2>1
  <2>3. later[p - KijunN + 1] = list[(p - KijunN + 1) + d]
    BY <2>2, Zenon DEF Shifted
  <2>4. later[p - KijunN + 1] = list[(p + d) - KijunN + 1]
    BY <2>2, <2>3
  <2> QED
    BY <1>3, <1>4, <1>5, <2>1, <2>4, Zenon DEF ValueAt
<1>6. CASE name \notin {"chikou", "senkouA"}
  BY <1>3, <1>4, <1>6, Zenon DEF ValueAt
<1> QED
  BY <1>5, <1>6

(* A candle that is read again keeps its values when the next one comes in, or has
   come too close to the first candle read to have any (dfcandle.go and algo.go
   recompute all lines each time, from the newest candles alone). *)
THEOREM PastTheorem == Spec => PastKept
<1> DEFINE Kept == \A l \in Lines : \A k \in 1 .. Len(closes) - Dropped :
                      lines'[l][k] = IF k <= Delay[l] THEN 0 ELSE lines[l][k + Dropped]
<1>1. CloudInv /\ CloudInv' /\ [Next]_vars => [Kept]_cloud
  <2> SUFFICES ASSUME CloudInv, CloudInv', [Next]_vars, cloud' # cloud, NEW name \in Lines,
                      NEW k \in 1 .. Len(closes) - Dropped
               PROVE  lines'[name][k] = IF k <= Delay[name] THEN 0
                                        ELSE lines[name][k + Dropped]
    BY Zenon
  <2> DEFINE d == Dropped
             p == k - 1
  <2>1. PICK close \in Prices : NewCandle(close)
    BY DEF Next, vars, CloudNext
  <2>2. close \in Int /\ closes \in Seq(Int) /\ closes' \in Seq(Int) /\ PastPeriod \in Nat \ {0}
    BY WindowAssumption DEF Prices, CloudInv
  <2>3. /\ Len(closes) \in Nat /\ d \in {0, 1} /\ Len(closes') = Len(closes) + 1 - d
        /\ \A j \in 1 .. Len(closes) - d : closes'[j] = closes[j + d]
    <3>1. CASE Len(closes) < PastPeriod
      BY <2>1, <2>2, <3>1 DEF NewCandle, Dropped
    <3>2. CASE ~(Len(closes) < PastPeriod)
      <4>1. closes' = Append(Tail(closes), close) /\ closes # << >>
        BY <2>1, <2>2, <3>2 DEF NewCandle
      <4>2. /\ Tail(closes) \in Seq(Int) /\ Len(Tail(closes)) = Len(closes) - 1
            /\ \A j \in 1 .. Len(closes) - 1 : Tail(closes)[j] = closes[j + 1]
        BY <2>2, <4>1
      <4>3. Len(closes') = Len(closes) /\ d = 1
        BY <2>2, <4>1, <4>2 DEF Dropped
      <4> QED
        BY <2>2, <4>1, <4>2, <4>3
    <3> QED
      BY <3>1, <3>2
  <2> HIDE DEF d
  <2>4. \A q \in 0 .. Len(closes) - 1 :
           lines[name][q + 1] = IF q < DelayOf(name) THEN 0 ELSE ValueAt(name, closes, q)
    BY <2>2, LinesDone DEF CloudInv
  <2>5. \A q \in 0 .. Len(closes') - 1 :
           lines'[name][q + 1] = IF q < DelayOf(name) THEN 0 ELSE ValueAt(name, closes', q)
    <3>1. lines' = IchimokuCloud(closes')
      BY DEF CloudInv
    <3> QED
      BY <2>2, <3>1, LinesDone
  <2>6. DelayOf(name) \in Nat /\ DelayOf(name) = Delay[name]
    BY DelayType, DelayIs
  <2>7. /\ k \in 1 .. Len(closes) - d /\ p \in 0 .. Len(closes') - 1 /\ p + 1 = k
        /\ p + d \in 0 .. Len(closes) - 1 /\ (p + d) + 1 = k + d /\ p + d < Len(closes)
        /\ (p < DelayOf(name) <=> k <= DelayOf(name)) /\ d \in Nat
        /\ (~(p < DelayOf(name)) => ~(p + d < DelayOf(name)))
        /\ \A j \in 1 .. p : j \in 1 .. Len(closes) - d
    BY <2>3, <2>6 DEF d
  <2> HIDE DEF p
  <2>8. lines'[name][k] = IF k <= DelayOf(name) THEN 0 ELSE ValueAt(name, closes', p)
    BY <2>5, <2>7, Zenon
  <2>9. lines[name][k + d] = IF p + d < DelayOf(name) THEN 0 ELSE ValueAt(name, closes, p + d)
    BY <2>4, <2>7, Zenon
  <2>10. ~(p < DelayOf(name)) => ValueAt(name, closes', p) = ValueAt(name, closes, p + d)
    <3>1. Shifted(closes', closes, p, d)
      BY <2>3, <2>7 DEF Shifted
    <3> QED
      BY <2>2, <2>7, <3>1, ValueKept
  <2> QED
    BY <2>6, <2>7, <2>8, <2>9, <2>10, Zenon DEF d
<1> QED
  BY <1>1, CloudInvariant, PTL DEF Spec, PastKept

=============================================================================
