---------------------------- MODULE Chart_proofs ----------------------------
(***************************************************************************)
(* Proofs about Chart: what an answer of the server holds, and what the    *)
(* page marks of it, for every number of candles asked for, every way the  *)
(* tables grow, any number of requests under way and of failures.          *)
(***************************************************************************)
EXTENDS Chart, Induction, FunctionTheorems

-----------------------------------------------------------------------------
(* Sets of candles: how many there are above one tells them apart.         *)

Above(U, b) == {a \in U : a > b}

LEMMA AboveLess ==
    ASSUME NEW U \in SUBSET Nat, IsFiniteSet(U), NEW b \in U
    PROVE  /\ IsFiniteSet(Above(U, b)) /\ Cardinality(Above(U, b)) \in 0 .. Cardinality(U) - 1
           /\ \A a \in U : b < a => Cardinality(Above(U, a)) < Cardinality(Above(U, b))
<1>1. Above(U, b) \subseteq U \ {b} /\ b \in Nat
  BY DEF Above
<1>2. IsFiniteSet(U \ {b}) /\ Cardinality(U \ {b}) = Cardinality(U) - 1
  BY FS_RemoveElement
<1>3. /\ IsFiniteSet(Above(U, b)) /\ Cardinality(Above(U, b)) <= Cardinality(U) - 1
      /\ Cardinality(Above(U, b)) \in Nat /\ Cardinality(U) \in Nat
  BY <1>1, <1>2, FS_Subset, FS_CardinalityType
<1>4. ASSUME NEW a \in U, b < a PROVE Cardinality(Above(U, a)) < Cardinality(Above(U, b))
  <2>1. /\ Above(U, a) \subseteq Above(U, b) /\ a \in Above(U, b) /\ a \notin Above(U, a)
    <3>1. a \in Nat /\ b \in Nat /\ \A x \in U : x \in Nat
      OBVIOUS
    <3>2. a > b /\ ~(a > a) /\ \A x \in U : x > a => x > b
      BY <1>4, <3>1
    <3> QED
      BY <3>2 DEF Above
  <2>2. Above(U, a) # Above(U, b)
    BY <2>1
  <2>3. /\ IsFiniteSet(Above(U, a)) /\ Cardinality(Above(U, a)) <= Cardinality(Above(U, b))
        /\ Cardinality(Above(U, b)) # Cardinality(Above(U, a))
    BY <1>3, <2>1, <2>2, FS_Subset
  <2>4. Cardinality(Above(U, a)) \in Nat
    BY <2>3, FS_CardinalityType
  <2> QED
    BY <1>3, <2>3, <2>4
<1> QED
  BY <1>3, <1>4

(* The numbers of candles above run through all that there can be.         *)
LEMMA RankOnto ==
    ASSUME NEW U \in SUBSET Nat, IsFiniteSet(U)
    PROVE  /\ Cardinality(U) \in Nat
           /\ \A b \in U : Cardinality(Above(U, b)) \in 0 .. Cardinality(U) - 1
           /\ \A a, b \in U : Cardinality(Above(U, a)) = Cardinality(Above(U, b)) => a = b
           /\ \A k \in 0 .. Cardinality(U) - 1 : \E b \in U : Cardinality(Above(U, b)) = k
<1> DEFINE size == Cardinality(U)
           rank == [b \in U |-> Cardinality(Above(U, b))]
<1>1. size \in Nat
  BY FS_CardinalityType
<1>2. \A b \in U : rank[b] \in 0 .. size - 1
  BY AboveLess
<1>3. \A a, b \in U : rank[a] = rank[b] => a = b
  <2> SUFFICES ASSUME NEW a \in U, NEW b \in U, a # b PROVE rank[a] # rank[b]
    OBVIOUS
  <2>1. a < b \/ b < a
    <3>1. a \in Nat /\ b \in Nat
      OBVIOUS
    <3> QED
      BY <3>1
  <2>2. \A x, y \in U : x < y => rank[y] < rank[x]
    BY AboveLess
  <2>3. rank[a] \in Nat /\ rank[b] \in Nat
    BY <1>1, <1>2
  <2> QED
    BY <2>1, <2>2, <2>3
<1>4. rank \in Injection(U, 0 .. size - 1)
  BY <1>2, <1>3 DEF Injection, IsInjective
<1>5. \A m \in Nat : IsFiniteSet(0 .. m - 1) /\ Cardinality(0 .. m - 1) = m
  <2> SUFFICES ASSUME NEW m \in Nat
               PROVE  IsFiniteSet(0 .. m - 1) /\ Cardinality(0 .. m - 1) = m
    OBVIOUS
  <2>1. /\ IsFiniteSet(0 .. m - 1)
        /\ Cardinality(0 .. m - 1) = IF 0 > m - 1 THEN 0 ELSE (m - 1) - 0 + 1
    BY FS_Interval
  <2> QED
    BY <2>1
<1>6. rank \in Surjection(U, 0 .. size - 1)
  BY <1>1, <1>4, <1>5, FS_Injection
<1>7. \A k \in 0 .. size - 1 : \E b \in U : rank[b] = k
  BY <1>6 DEF Surjection
<1> QED
  BY <1>1, <1>2, <1>3, <1>7

(* As many are the newest as there shall be.                               *)
LEMMA NewestOf ==
    ASSUME NEW U \in SUBSET Nat, IsFiniteSet(U), NEW n \in Nat, n <= Cardinality(U)
    PROVE  Cardinality({b \in U : Cardinality(Above(U, b)) < n}) = n
<1> DEFINE size == Cardinality(U)
           rank == [b \in U |-> Cardinality(Above(U, b))]
           T == {b \in U : Cardinality(Above(U, b)) < n}
           first == [b \in T |-> rank[b]]
<1>1. size \in Nat
  BY RankOnto
<1>2. \A b \in U : rank[b] \in 0 .. size - 1
  BY RankOnto
<1>3. \A a, b \in U : rank[a] = rank[b] => a = b
  BY RankOnto
<1>4. IsFiniteSet(0 .. n - 1) /\ Cardinality(0 .. n - 1) = n
  <2>1. /\ IsFiniteSet(0 .. n - 1)
        /\ Cardinality(0 .. n - 1) = IF 0 > n - 1 THEN 0 ELSE (n - 1) - 0 + 1
    BY FS_Interval
  <2> QED
    BY <2>1
<1>5. \A k \in 0 .. size - 1 : \E b \in U : rank[b] = k
  BY RankOnto
<1>6. first \in Bijection(T, 0 .. n - 1)
  <2>1. \A b \in T : rank[b] \in 0 .. n - 1
    BY <1>1, <1>2
  <2>2. \A k \in 0 .. n - 1 : \E b \in T : rank[b] = k
    <3> SUFFICES ASSUME NEW k \in 0 .. n - 1 PROVE \E b \in T : rank[b] = k
      OBVIOUS
    <3>1. k \in 0 .. size - 1 /\ k < n
      BY <1>1
    <3>2. PICK b \in U : rank[b] = k
      BY <1>5, <3>1
    <3> QED
      BY <3>1, <3>2
  <2> SUFFICES /\ first \in [T -> 0 .. n - 1] /\ \A a, b \in T : first[a] = first[b] => a = b
               /\ \A k \in 0 .. n - 1 : \E b \in T : first[b] = k
    BY DEF Bijection, Injection, Surjection, IsInjective
  <2> QED
    BY <1>3, <2>1, <2>2
<1>7. IsFiniteSet(T)
  BY FS_Subset
<1>8. Cardinality(0 .. n - 1) = Cardinality(T)
  <2> HIDE DEF T, first
  <2> QED
    BY <1>6, <1>7, FS_Bijection DEF ExistsBijection
<1> QED
  BY <1>4, <1>8

(* SelectAll leaves out a candle only for a full chart of newer ones.      *)
LEMMA SelectedNewest ==
    ASSUME NEW table \in SUBSET Nat, IsFiniteSet(table), NEW c \in table \ SelectAll(table)
    PROVE  Cardinality({b \in SelectAll(table) : b > c}) = Limit
<1> DEFINE U == Above(table, c)
<1>1. c \in Nat /\ U \in SUBSET Nat /\ IsFiniteSet(U) /\ Cardinality(U) \in Nat /\ Limit \in Nat
  BY LimitAssumption, AboveLess, FS_CardinalityType DEF Above
<1>2. Limit <= Cardinality(U)
  <2>1. ~(Cardinality(U) < Limit)
    BY DEF SelectAll, Above
  <2> QED
    BY <1>1, <2>1
<1>3. Cardinality({b \in U : Cardinality(Above(U, b)) < Limit}) = Limit
  <2> HIDE DEF U
  <2> QED
    BY <1>1, <1>2, NewestOf
<1>4. \A b \in U : Above(U, b) = {a \in table : a > b}
  <2> SUFFICES ASSUME NEW b \in U, NEW a \in table, a > b PROVE a > c
    BY DEF Above
  <2>1. a \in Nat /\ b \in Nat /\ b > c
    BY <1>1 DEF Above
  <2> QED
    BY <1>1, <2>1
<1>5. {b \in SelectAll(table) : b > c} = {b \in U : Cardinality(Above(U, b)) < Limit}
  BY <1>4 DEF SelectAll, Above
<1> QED
  BY <1>3, <1>5

-----------------------------------------------------------------------------
(* The candles in ascending order: each is there, and those before one are
   all that are earlier. *)
IsAscending(c, U) ==
    /\ c \in [1 .. Cardinality(U) -> U]
    /\ \A j, k \in DOMAIN c : j < k => c[j] < c[k]

(* The choice made by Ascending is never in vain.                          *)
LEMMA AscendingExists ==
    ASSUME NEW U \in SUBSET Nat, IsFiniteSet(U)
    PROVE  IsAscending(Ascending(U), U) /\ Cardinality(U) \in Nat
<1> DEFINE size == Cardinality(U)
           Rank(b) == Cardinality(Above(U, b))
           c == [k \in 1 .. size |-> CHOOSE b \in U : Rank(b) = size - k]
<1>1. /\ size \in Nat
      /\ \A k \in 0 .. size - 1 : \E b \in U : Rank(b) = k
      /\ \A b \in U : Rank(b) \in 0 .. size - 1
  BY RankOnto
<1>2. \A a, b \in U : a < b => Rank(b) < Rank(a)
  BY AboveLess
<1>3. \A b \in U : b \in Nat /\ Rank(b) \in Nat
  BY <1>1
<1> HIDE DEF size, Rank
<1>4. \A k \in 1 .. size : c[k] \in U /\ Rank(c[k]) = size - k
  <2> SUFFICES ASSUME NEW k \in 1 .. size PROVE c[k] \in U /\ Rank(c[k]) = size - k
    OBVIOUS
  <2>1. size - k \in 0 .. size - 1
    BY <1>1
  <2> QED
    BY <1>1, <2>1
<1>5. c \in [1 .. size -> U]
  BY <1>4
<1>6. ASSUME NEW j \in 1 .. size, NEW k \in 1 .. size, j < k PROVE c[j] < c[k]
  <2>1. Rank(c[k]) < Rank(c[j])
    BY <1>1, <1>4, <1>6
  <2> HIDE DEF c
  <2>2. c[j] \in U /\ c[k] \in U
    BY <1>4
  <2>3. c[j] \in Nat /\ c[k] \in Nat /\ Rank(c[j]) \in Nat /\ Rank(c[k]) \in Nat
    BY <1>3, <2>2
  <2>4. c[k] < c[j] => Rank(c[j]) < Rank(c[k])
    BY <1>2, <2>2
  <2>5. c[k] # c[j]
    BY <2>1, <2>3
  <2> QED
    BY <2>1, <2>3, <2>4, <2>5
<1> HIDE DEF c
<1>7. DOMAIN c = 1 .. size
  BY <1>5
<1>8. c \in [1 .. size -> U] /\ \A j, k \in DOMAIN c : j < k => c[j] < c[k]
  BY <1>5, <1>6, <1>7
<1>9. Ascending(U) = CHOOSE f \in [1 .. size -> U] : \A j, k \in DOMAIN f : j < k => f[j] < f[k]
  BY DEF Ascending, size
<1>10. IsAscending(Ascending(U), U)
  BY <1>8, <1>9, Zenon DEF IsAscending, size
<1> QED
  BY <1>1, <1>10 DEF size

(* It leaves out no candle.                                                *)
LEMMA AscendingOnto ==
    ASSUME NEW U \in SUBSET Nat, IsFiniteSet(U), NEW c, IsAscending(c, U)
    PROVE  /\ c \in Seq(Nat) /\ Len(c) = Cardinality(U) /\ \A k \in 1 .. Len(c) : c[k] \in U
           /\ \A b \in U : \E k \in 1 .. Len(c) : c[k] = b
           /\ \A k \in 1 .. Len(c) : \A b \in U : b < c[k] => \E j \in 1 .. k - 1 : c[j] = b
<1> DEFINE size == Cardinality(U)
<1>1. size \in Nat /\ c \in [1 .. size -> U] /\ DOMAIN c = 1 .. size
  BY FS_CardinalityType DEF IsAscending
<1>2. \A j, k \in 1 .. size : j < k => c[j] < c[k]
  BY <1>1 DEF IsAscending
<1>3. \A k \in 1 .. size : c[k] \in U /\ c[k] \in Nat
  BY <1>1
<1>4. IsFiniteSet(1 .. size) /\ Cardinality(1 .. size) = size
  BY <1>1, FS_Interval
<1>5. ASSUME NEW j \in 1 .. size, NEW k \in 1 .. size, c[j] = c[k] PROVE j = k
  <2>1. ~(c[j] < c[k]) /\ ~(c[k] < c[j])
    BY <1>3, <1>5
  <2>2. ~(j < k) /\ ~(k < j)
    BY <1>2, <2>1
  <2> QED
    BY <2>2
<1> HIDE DEF size
<1>6. c \in Injection(1 .. size, U)
  BY <1>1, <1>5 DEF Injection, IsInjective
<1>7. c \in Surjection(1 .. size, U)
  BY <1>4, <1>6, FS_Injection DEF size
<1>8. \A b \in U : \E k \in 1 .. size : c[k] = b
  BY <1>7 DEF Surjection
<1>9. ASSUME NEW k \in 1 .. size, NEW b \in U, b < c[k] PROVE \E j \in 1 .. k - 1 : c[j] = b
  <2>1. PICK j \in 1 .. size : c[j] = b
    BY <1>8
  <2>2. ~(k < j) /\ j # k
    <3>1. c[k] \in Nat /\ c[j] \in Nat
      BY <1>3
    <3>2. ~(c[k] < c[j]) /\ c[j] # c[k]
      BY <1>9, <2>1, <3>1
    <3> QED
      BY <1>2, <3>2
  <2>3. j \in 1 .. k - 1
    BY <2>2
  <2> QED
    BY <2>1, <2>3
<1>10. c \in Seq(Nat) /\ Len(c) = size
  <2>1. c \in [1 .. size -> Nat]
    BY <1>1, <1>3
  <2> QED
    BY <1>1, <2>1
<1> QED
  BY <1>3, <1>8, <1>9, <1>10 DEF size

-----------------------------------------------------------------------------
(* How many of the events are marked after each candle.                    *)

WithOneMore(n, e, x) == IF n < Len(e) /\ e[n + 1] = x THEN n + 1 ELSE n

MarkedBy(g, c, e) ==
    /\ g \in [0 .. Len(c) -> Nat] /\ g[0] = 0
    /\ \A k \in 1 .. Len(c) : g[k] = WithOneMore(g[k - 1], e, c[k])

(* A marker where there is one more.                                       *)
MarkedWith(g, c) ==
    {[candle |-> c[k], event |-> g[k]] : k \in {j \in 1 .. Len(c) : g[j] # g[j - 1]}}

(* The loop has a result.                                                  *)
LEMMA MarkedExists ==
    ASSUME NEW c \in Seq(Nat), NEW e \in Seq(Int)
    PROVE  \E g : MarkedBy(g, c, e)
<1> DEFINE n == Len(c)
           step == [k \in 1 .. n |-> [m \in Nat |-> WithOneMore(m, e, c[k])]]
<1>1. n \in Nat /\ 0 \in Nat
  OBVIOUS
<1>2. \A x : \A m \in Nat : WithOneMore(m, e, x) \in Nat
  BY DEF WithOneMore
<1>3. step \in [1 .. n -> [Nat -> Nat]]
  BY <1>2
<1>4. \A k \in 1 .. n, m \in Nat : step[k][m] = WithOneMore(m, e, c[k])
  OBVIOUS
<1> HIDE DEF step, n
<1>5. PICK g : Recurses(g, n, Nat, 0, step)
  BY <1>1, <1>3, Recursion
<1>6. g \in [0 .. n -> Nat] /\ g[0] = 0
  BY <1>5 DEF Recurses
<1>7. ASSUME NEW k \in 1 .. n PROVE g[k] = WithOneMore(g[k - 1], e, c[k])
  <2>1. k - 1 \in 0 .. n
    BY <1>1
  <2>2. g[k - 1] \in Nat
    BY <1>6, <2>1
  <2>3. g[k] = step[k][g[k - 1]]
    BY <1>5 DEF Recurses
  <2> QED
    BY <1>4, <2>2, <2>3
<1> QED
  BY <1>6, <1>7 DEF MarkedBy, n

LEMMA MarksMarked ==
    ASSUME NEW U, Ascending(U) \in Seq(Nat), NEW e \in Seq(Int)
    PROVE  \E g : /\ MarkedBy(g, Ascending(U), e)
                  /\ Marks(U, e) = MarkedWith(g, Ascending(U))
<1> DEFINE c == Ascending(U)
           Whole(g) == g = [k \in 0 .. Len(c) |->
               IF k = 0 THEN 0 ELSE WithOneMore(g[k - 1], e, c[k])]
           marked == CHOOSE g : Whole(g)
<1>1. Marks(U, e) = MarkedWith(marked, c)
  BY DEF Marks, Walk, WithOneMore, MarkedWith
<1>2. c \in Seq(Nat) /\ Len(c) \in Nat
  OBVIOUS
<1> HIDE DEF c
<1>3. PICK g : MarkedBy(g, c, e)
  BY <1>2, MarkedExists
<1>4. Whole(g)
  <2>1. g = [k \in 0 .. Len(c) |-> g[k]]
    BY <1>3 DEF MarkedBy
  <2>2. \A k \in 0 .. Len(c) : g[k] = IF k = 0 THEN 0 ELSE WithOneMore(g[k - 1], e, c[k])
    BY <1>2, <1>3 DEF MarkedBy
  <2> QED
    BY <2>1, <2>2
<1> HIDE DEF Whole
<1>5. Whole(marked)
  BY <1>4
<1> HIDE DEF marked
<1>6. /\ marked = [k \in 0 .. Len(c) |-> marked[k]] /\ marked[0] = 0
      /\ \A k \in 1 .. Len(c) : marked[k] = WithOneMore(marked[k - 1], e, c[k])
  BY <1>2, <1>5 DEF Whole
<1>7. MarkedBy(marked, c, e)
  <2> DEFINE S == {m \in Nat : m <= Len(c) => marked[m] \in Nat}
  <2>1. 0 \in S
    BY <1>6
  <2>2. ASSUME NEW m \in Nat, m \in S PROVE m + 1 \in S
    <3> SUFFICES ASSUME m + 1 <= Len(c) PROVE marked[m + 1] \in Nat
      OBVIOUS
    <3>1. m + 1 \in 1 .. Len(c) /\ (m + 1) - 1 = m /\ marked[m] \in Nat
      BY <1>2, <2>2
    <3>2. marked[m + 1] = WithOneMore(marked[m], e, c[m + 1])
      BY <1>6, <3>1
    <3> QED
      BY <3>1, <3>2 DEF WithOneMore
  <2> HIDE DEF S
  <2>3. \A m \in Nat : m \in S
    BY <2>1, <2>2, SetInduction
  <2>4. \A m \in 0 .. Len(c) : marked[m] \in Nat
    BY <1>2, <2>3 DEF S
  <2>5. marked \in [0 .. Len(c) -> Nat]
    BY <1>6, <2>4
  <2> QED
    BY <1>6, <2>5 DEF MarkedBy
<1> QED
  BY <1>1, <1>7 DEF c

(* The further on, the more events are marked.                             *)
LEMMA MarkedGrows ==
    ASSUME NEW c \in Seq(Nat), NEW e \in Seq(Int), NEW g, MarkedBy(g, c, e)
    PROVE  \A k \in 0 .. Len(c) : \A j \in 0 .. k : g[j] <= g[k]
<1> DEFINE S == {k \in Nat : k <= Len(c) => \A j \in 0 .. k : g[j] <= g[k]}
<1>1. Len(c) \in Nat /\ \A k \in 0 .. Len(c) : g[k] \in Nat
  <2>1. Len(c) \in Nat
    OBVIOUS
  <2>2. g \in [0 .. Len(c) -> Nat]
    BY DEF MarkedBy
  <2> QED
    BY <2>1, <2>2
<1>2. 0 \in S
  BY <1>1
<1>3. ASSUME NEW k \in Nat, k \in S PROVE k + 1 \in S
  <2> SUFFICES ASSUME k + 1 <= Len(c), NEW j \in 0 .. k + 1 PROVE g[j] <= g[k + 1]
    OBVIOUS
  <2>1. k + 1 \in 1 .. Len(c) /\ (k + 1) - 1 = k /\ k \in 0 .. Len(c) /\ k + 1 \in 0 .. Len(c)
        /\ j \in 0 .. Len(c)
    BY <1>1
  <2>2. g[k + 1] = WithOneMore(g[k], e, c[k + 1])
    BY <2>1 DEF MarkedBy
  <2>3. g[k] <= g[k + 1]
    BY <1>1, <2>1, <2>2 DEF WithOneMore
  <2>4. CASE j = k + 1
    BY <1>1, <2>1, <2>4
  <2>5. CASE j # k + 1
    <3>1. j \in 0 .. k /\ k <= Len(c)
      BY <2>1, <2>5
    <3>2. g[j] <= g[k]
      BY <1>3, <3>1
    <3> QED
      BY <1>1, <2>1, <2>3, <3>2
  <2> QED
    BY <2>4, <2>5
<1> HIDE DEF S
<1>4. \A k \in Nat : k \in S
  BY <1>2, <1>3, SetInduction
<1> QED
  BY <1>1, <1>4 DEF S

(* What is marked has its candle, and candles and events go the same way.  *)
LEMMA MarksAre ==
    ASSUME NEW U \in SUBSET Nat, IsFiniteSet(U), NEW e \in Seq(Int)
    PROVE  /\ \A m \in Marks(U, e) :
                  m.candle \in U /\ m.event \in 1 .. Len(e) /\ e[m.event] = m.candle
           /\ \A m, n \in Marks(U, e) : m.candle < n.candle <=> m.event < n.event
<1> DEFINE c == Ascending(U)
<1>1. IsAscending(c, U)
  BY AscendingExists
<1> HIDE DEF c
<1>2. c \in Seq(Nat) /\ Len(c) \in Nat /\ \A k \in 1 .. Len(c) : c[k] \in U /\ c[k] \in Nat
  <2>1. c \in Seq(Nat) /\ \A k \in 1 .. Len(c) : c[k] \in U
    BY <1>1, AscendingOnto
  <2> QED
    BY <2>1
<1>3. PICK g : MarkedBy(g, c, e) /\ Marks(U, e) = MarkedWith(g, c)
  BY <1>2, MarksMarked DEF c
<1>4. \A k \in 0 .. Len(c) : g[k] \in Nat
  BY <1>3 DEF MarkedBy
<1>5. \A k \in 0 .. Len(c) : \A j \in 0 .. k : g[j] <= g[k]
  BY <1>2, <1>3, MarkedGrows
<1>6. ASSUME NEW k \in 1 .. Len(c), g[k] # g[k - 1]
      PROVE  g[k] = g[k - 1] + 1 /\ g[k] \in 1 .. Len(e) /\ e[g[k]] = c[k]
  <2>1. g[k] = WithOneMore(g[k - 1], e, c[k])
    BY <1>3 DEF MarkedBy
  <2>2. k - 1 \in 0 .. Len(c) /\ g[k - 1] \in Nat /\ Len(e) \in Nat
    BY <1>2, <1>4
  <2>3. g[k - 1] < Len(e) /\ e[g[k - 1] + 1] = c[k] /\ g[k] = g[k - 1] + 1
    BY <1>6, <2>1 DEF WithOneMore
  <2> QED
    BY <2>2, <2>3
<1>7. ASSUME NEW j \in 1 .. Len(c), NEW k \in 1 .. Len(c), g[k] # g[k - 1], j < k
      PROVE  g[j] < g[k] /\ c[j] < c[k]
  <2>1. k - 1 \in 0 .. Len(c) /\ j \in 0 .. k - 1 /\ j \in 0 .. Len(c) /\ k \in 0 .. Len(c)
    BY <1>2, <1>7
  <2>2. g[j] <= g[k - 1] /\ g[k] = g[k - 1] + 1
    BY <1>5, <1>6, <1>7, <2>1
  <2>3. g[j] < g[k]
    BY <1>4, <2>1, <2>2
  <2>4. DOMAIN c = 1 .. Len(c)
    BY <1>2
  <2> QED
    BY <1>1, <1>7, <2>3, <2>4 DEF IsAscending
<1>8. \A m \in Marks(U, e) :
         \E k \in 1 .. Len(c) : g[k] # g[k - 1] /\ m.candle = c[k] /\ m.event = g[k]
  BY <1>3 DEF MarkedWith
<1>9. ASSUME NEW m \in Marks(U, e), NEW n \in Marks(U, e)
      PROVE  m.candle < n.candle <=> m.event < n.event
  <2>1. PICK j \in 1 .. Len(c) : g[j] # g[j - 1] /\ m.candle = c[j] /\ m.event = g[j]
    BY <1>8
  <2>2. PICK k \in 1 .. Len(c) : g[k] # g[k - 1] /\ n.candle = c[k] /\ n.event = g[k]
    BY <1>8
  <2>3. c[j] \in Nat /\ c[k] \in Nat /\ g[j] \in Nat /\ g[k] \in Nat
    <3>1. j \in 0 .. Len(c) /\ k \in 0 .. Len(c)
      BY <1>2
    <3> QED
      BY <1>2, <1>4, <3>1
  <2>4. j < k => g[j] < g[k] /\ c[j] < c[k]
    BY <1>7, <2>2
  <2>5. k < j => g[k] < g[j] /\ c[k] < c[j]
    BY <1>7, <2>1
  <2>6. j < k \/ k < j \/ j = k
    BY <1>2
  <2>7. c[j] < c[k] <=> g[j] < g[k]
    BY <2>3, <2>4, <2>5, <2>6
  <2> QED
    BY <2>1, <2>2, <2>7
<1> QED
  BY <1>2, <1>6, <1>8, <1>9

-----------------------------------------------------------------------------
(* Trades in the order of time.                                            *)

(* The smallest of a set of numbers.                                       *)
LEMMA MinIsLeast ==
    ASSUME NEW T \in SUBSET Nat, T # {}
    PROVE  Min(T) \in T /\ \A j \in T : Min(T) <= j
<1>1. \E m \in T : \A j \in T : m <= j
  BY Least
<1> QED
  BY <1>1 DEF Min

(* A row is never written before one that is older.                        *)
Recorded(list, t) ==
    /\ list \in Seq(Nat)
    /\ \A k \in 1 .. Len(list) : list[k] <= t /\ \A j \in 1 .. k : list[j] <= list[k]

LEMMA RecordMore ==
    ASSUME NEW list, NEW t \in Nat, Recorded(list, t)
    PROVE  Recorded(list, t + 1) /\ Recorded(Append(list, t), t)
<1>1. /\ list \in Seq(Nat) /\ Len(list) \in Nat
      /\ \A k \in 1 .. Len(list) : list[k] \in Nat /\ list[k] <= t
  BY DEF Recorded
<1>2. Recorded(list, t + 1)
  <2>1. \A k \in 1 .. Len(list) : list[k] <= t + 1
    BY <1>1
  <2> QED
    BY <2>1 DEF Recorded
<1> DEFINE longer == Append(list, t)
<1>3. /\ longer \in Seq(Nat) /\ Len(longer) = Len(list) + 1 /\ longer[Len(list) + 1] = t
      /\ \A k \in 1 .. Len(list) : longer[k] = list[k]
  BY <1>1
<1> HIDE DEF longer
<1>4. ASSUME NEW k \in 1 .. Len(longer)
      PROVE  longer[k] <= t /\ \A j \in 1 .. k : longer[j] <= longer[k]
  <2>1. CASE k \in 1 .. Len(list)
    <3>1. \A j \in 1 .. k : j \in 1 .. Len(list)
      BY <1>1, <2>1
    <3> QED
      BY <1>1, <1>3, <2>1, <3>1 DEF Recorded
  <2>2. CASE k = Len(list) + 1
    <3>1. \A j \in 1 .. k : j \in 1 .. Len(list) \/ j = Len(list) + 1
      BY <1>1, <2>2
    <3>2. \A j \in 1 .. k : longer[j] <= t
      <4> SUFFICES ASSUME NEW j \in 1 .. k PROVE longer[j] <= t
        OBVIOUS
      <4>1. CASE j \in 1 .. Len(list)
        BY <1>1, <1>3, <4>1
      <4>2. CASE j = Len(list) + 1
        BY <1>3, <4>2
      <4> QED
        BY <3>1, <4>1, <4>2
    <3> QED
      BY <1>3, <2>2, <3>2
  <2> QED
    BY <1>1, <1>3, <2>1, <2>2
<1> QED
  BY <1>2, <1>3, <1>4 DEF Recorded, longer

(* The rows from a time on are the last ones.                              *)
StartsAt(list, k, first) == \A j \in 1 .. Len(list) : list[j] >= first <=> k <= j

(* So what is kept of a list are its trades from some row on, all of them. *)
LEMMA LateTrades ==
    ASSUME NEW list, NEW t \in Nat, Recorded(list, t), NEW first \in Nat
    PROVE  \E k \in 1 .. Len(list) + 1 :
               /\ StartsAt(list, k, first)
               /\ Since(list, first) \in Seq(Nat)
               /\ Len(Since(list, first)) = Len(list) + 1 - k
               /\ \A i \in 1 .. Len(list) + 1 - k : Since(list, first)[i] = list[i + k - 1]
<1> DEFINE late == {k \in DOMAIN list : list[k] >= first}
<1>1. /\ list \in Seq(Nat) /\ Len(list) \in Nat /\ DOMAIN list = 1 .. Len(list)
      /\ \A k \in 1 .. Len(list) : list[k] \in Nat
  BY DEF Recorded
<1>2. CASE late = {}
  <2> DEFINE k == Len(list) + 1
  <2>1. Since(list, first) = << >>
    BY <1>2 DEF Since
  <2>2. StartsAt(list, k, first)
    <3>1. \A j \in 1 .. Len(list) : ~(list[j] >= first) /\ ~(Len(list) + 1 <= j)
      BY <1>1, <1>2
    <3> QED
      BY <3>1 DEF StartsAt
  <2>3. k \in 1 .. Len(list) + 1 /\ Len(list) + 1 - k = 0 /\ 1 .. 0 = {}
    BY <1>1
  <2>4. << >> \in Seq(Nat) /\ Len(<< >>) = 0
    OBVIOUS
  <2> QED
    BY <2>1, <2>2, <2>3, <2>4
<1>3. CASE late # {}
  <2> DEFINE k == Min(late)
  <2>1. Since(list, first) = SubSeq(list, k, Len(list))
    BY <1>3 DEF Since
  <2>2. late \in SUBSET Nat
    BY <1>1
  <2>3. \A j \in 1 .. Len(list) : j \in late <=> list[j] >= first
    BY <1>1
  <2> HIDE DEF late
  <2>4. k \in late /\ \A j \in late : k <= j
    BY <1>3, <2>2, MinIsLeast
  <2> HIDE DEF k
  <2>5. k \in 1 .. Len(list) /\ list[k] >= first
    BY <1>1, <2>4 DEF late
  <2>6. ASSUME NEW j \in 1 .. Len(list), k <= j PROVE list[j] >= first
    <3>1. k \in 1 .. j
      BY <2>5, <2>6
    <3>2. list[k] <= list[j]
      BY <3>1 DEF Recorded
    <3> QED
      BY <1>1, <2>5, <3>2
  <2>7. StartsAt(list, k, first)
    BY <2>3, <2>4, <2>6 DEF StartsAt
  <2>8. k \in 1 .. Len(list) + 1
    BY <1>1, <2>5
  <2> DEFINE s == SubSeq(list, k, Len(list))
  <2>9. /\ s \in Seq(Nat) /\ Len(s) = Len(list) - k + 1
        /\ \A i \in 1 .. Len(list) - k + 1 : s[i] = list[k + i - 1]
    BY <1>1, <2>5
  <2> HIDE DEF s
  <2>10. /\ Len(s) = Len(list) + 1 - k
         /\ \A i \in 1 .. Len(list) + 1 - k : s[i] = list[i + k - 1]
    BY <1>1, <2>8, <2>9
  <2> QED
    BY <2>1, <2>7, <2>8, <2>9, <2>10 DEF s
<1> QED
  BY <1>2, <1>3

(* The list has gone on from what was known at a time.                     *)
GoesOn(known, asof, list) ==
    /\ known \in Seq(Nat) /\ asof \in Nat /\ Len(known) <= Len(list)
    /\ \A j \in 1 .. Len(known) : list[j] = known[j]
    /\ \A j \in Len(known) + 1 .. Len(list) : list[j] >= asof

LEMMA GoesOnMore ==
    ASSUME NEW known, NEW asof, NEW list \in Seq(Nat), GoesOn(known, asof, list),
           NEW t \in Nat, asof <= t
    PROVE  GoesOn(known, asof, Append(list, t))
<1> DEFINE longer == Append(list, t)
<1>1. /\ Len(list) \in Nat /\ Len(longer) = Len(list) + 1 /\ longer[Len(list) + 1] = t
      /\ \A k \in 1 .. Len(list) : longer[k] = list[k]
  OBVIOUS
<1> HIDE DEF longer
<1>2. known \in Seq(Nat) /\ asof \in Nat /\ Len(known) \in Nat /\ Len(known) <= Len(list)
  BY DEF GoesOn
<1>3. \A j \in 1 .. Len(known) : longer[j] = known[j]
  <2>1. \A j \in 1 .. Len(known) : j \in 1 .. Len(list)
    BY <1>1, <1>2
  <2> QED
    BY <1>1, <2>1 DEF GoesOn
<1>4. ASSUME NEW j \in Len(known) + 1 .. Len(longer) PROVE longer[j] >= asof
  <2>1. j = Len(list) + 1 \/ (j \in Len(known) + 1 .. Len(list) /\ j \in 1 .. Len(list))
    BY <1>1, <1>2
  <2> QED
    BY <1>1, <1>2, <2>1 DEF GoesOn
<1> QED
  BY <1>1, <1>2, <1>3, <1>4 DEF GoesOn, longer

(* What is known from the first candle on, and what came since.            *)
FromFirst(known, asof, first, events, torn) ==
    \E k \in 1 .. Len(known) + 1 :
        /\ StartsAt(known, k, first)
        /\ Len(events) >= Len(known) + 1 - k
        /\ \A i \in 1 .. Len(events) :
              IF i + k - 1 <= Len(known) THEN events[i] = known[i + k - 1]
              ELSE events[i] >= asof \/ (events[i] = Torn /\ torn /\ i = Len(events))

LEMMA KnownFirst ==
    ASSUME NEW known, NEW asof, NEW list, GoesOn(known, asof, list),
           NEW t \in Nat, Recorded(list, t), NEW first \in Nat
    PROVE  /\ Since(list, first) \in Seq(Nat)
           /\ FromFirst(known, asof, first, Since(list, first), FALSE)
<1> DEFINE e == Since(list, first)
<1>1. PICK K \in 1 .. Len(list) + 1 :
          /\ StartsAt(list, K, first) /\ e \in Seq(Nat) /\ Len(e) = Len(list) + 1 - K
          /\ \A i \in 1 .. Len(list) + 1 - K : e[i] = list[i + K - 1]
  BY LateTrades
<1> HIDE DEF e
<1>2. /\ known \in Seq(Nat) /\ Len(known) \in Nat /\ Len(list) \in Nat /\ Len(known) <= Len(list)
      /\ \A j \in 1 .. Len(known) : list[j] = known[j]
      /\ \A j \in Len(known) + 1 .. Len(list) : list[j] >= asof
  BY DEF GoesOn, Recorded
<1> DEFINE k == IF K <= Len(known) + 1 THEN K ELSE Len(known) + 1
<1>3. k \in 1 .. Len(known) + 1 /\ k <= K /\ (K <= Len(known) => k = K) /\ (k < K => k = Len(known) + 1)
  BY <1>2
<1> HIDE DEF k
<1>4. StartsAt(known, k, first)
  <2> SUFFICES ASSUME NEW j \in 1 .. Len(known) PROVE known[j] >= first <=> k <= j
    BY DEF StartsAt
  <2>1. j \in 1 .. Len(list) /\ list[j] = known[j]
    BY <1>2
  <2>2. list[j] >= first <=> K <= j
    BY <1>1, <2>1 DEF StartsAt
  <2>3. K <= j <=> k <= j
    BY <1>2, <1>3
  <2> QED
    BY <2>1, <2>2, <2>3, Zenon
<1>5. Len(e) >= Len(known) + 1 - k
  BY <1>1, <1>2, <1>3
<1>6. ASSUME NEW i \in 1 .. Len(e)
      PROVE  IF i + k - 1 <= Len(known) THEN e[i] = known[i + k - 1]
             ELSE e[i] >= asof \/ (e[i] = Torn /\ FALSE /\ i = Len(e))
  <2>1. e[i] = list[i + K - 1] /\ i + K - 1 \in 1 .. Len(list)
    BY <1>1, <1>2
  <2>2. CASE i + k - 1 <= Len(known)
    <3>1. k = K /\ i + k - 1 \in 1 .. Len(known)
      BY <1>2, <1>3, <2>2
    <3> QED
      BY <1>2, <2>1, <2>2, <3>1
  <2>3. CASE ~(i + k - 1 <= Len(known))
    <3>1. i + K - 1 \in Len(known) + 1 .. Len(list)
      BY <1>2, <1>3, <2>1, <2>3
    <3>2. e[i] >= asof
      BY <1>2, <2>1, <3>1
    <3> QED
      BY <2>3, <3>2
  <2> QED
    BY <2>2, <2>3
<1>7. FromFirst(known, asof, first, e, FALSE)
  BY <1>3, <1>4, <1>5, <1>6 DEF FromFirst
<1> QED
  BY <1>1, <1>7 DEF e

(* An element read before it was written comes after all that.             *)
LEMMA TornLast ==
    ASSUME NEW known \in Seq(Nat), NEW asof, NEW first, NEW events \in Seq(Nat),
           FromFirst(known, asof, first, events, FALSE)
    PROVE  /\ Append(events, Torn) \in Seq(Int)
           /\ FromFirst(known, asof, first, Append(events, Torn), TRUE)
<1> DEFINE longer == Append(events, Torn)
<1>1. Torn \in Int
  BY DEF Torn
<1>2. /\ longer \in Seq(Int) /\ Len(events) \in Nat /\ Len(longer) = Len(events) + 1
      /\ longer[Len(events) + 1] = Torn /\ \A i \in 1 .. Len(events) : longer[i] = events[i]
  <2>1. events \in Seq(Int)
    OBVIOUS
  <2> QED
    BY <1>1, <2>1
<1> HIDE DEF longer
<1>3. PICK k \in 1 .. Len(known) + 1 :
          /\ StartsAt(known, k, first)
          /\ Len(events) >= Len(known) + 1 - k
          /\ \A i \in 1 .. Len(events) :
                IF i + k - 1 <= Len(known) THEN events[i] = known[i + k - 1]
                ELSE events[i] >= asof \/ (events[i] = Torn /\ FALSE /\ i = Len(events))
  BY DEF FromFirst
<1>4. Len(known) \in Nat
  OBVIOUS
<1>5. ASSUME NEW i \in 1 .. Len(longer)
      PROVE  IF i + k - 1 <= Len(known) THEN longer[i] = known[i + k - 1]
             ELSE longer[i] >= asof \/ (longer[i] = Torn /\ TRUE /\ i = Len(longer))
  <2>1. CASE i \in 1 .. Len(events)
    BY <1>2, <1>3, <2>1, Zenon
  <2>2. CASE i = Len(events) + 1
    <3>1. ~(i + k - 1 <= Len(known))
      BY <1>2, <1>3, <1>4, <2>2
    <3>2. longer[i] = Torn /\ i = Len(longer)
      BY <1>2, <2>2, Zenon
    <3> QED
      BY <3>1, <3>2, Zenon
  <2> QED
    BY <1>2, <2>1, <2>2
<1>6. Len(longer) >= Len(known) + 1 - k
  BY <1>2, <1>3, <1>4
<1>7. FromFirst(known, asof, first, longer, TRUE)
  BY <1>3, <1>5, <1>6, Zenon DEF FromFirst
<1> QED
  BY <1>2, <1>7 DEF longer

-----------------------------------------------------------------------------
(* The inductive invariant.                                                *)

TablesType ==
    /\ visit \in Visits /\ now \in Nat /\ Recorded(trades, now) /\ Recorded(memory, now)
    /\ candles \in [Durations -> SUBSET Nat] /\ \A d \in Durations : IsFiniteSet(candles[d])
    /\ requests = [s \in Slots |-> requests[s]]

(* What is in a request, and in a chart, are times.                        *)
Timed(x) == x.candles \in SUBSET Nat /\ IsFiniteSet(x.candles) /\ x.events \in Seq(Int)

IsRequest(r) ==
    /\ r = [pc |-> r.pc, duration |-> r.duration, wants |-> r.wants, table |-> r.table,
            candles |-> r.candles, known |-> r.known, asof |-> r.asof, events |-> r.events,
            lines |-> r.lines]
    /\ r.pc \in {"asked", "read", "answered"}
    /\ Timed(r)

(* Of a request, and of a chart: no candle is missing, and the trades are those
   known with the candles and later ones. *)
Newest(x) ==
    /\ x.duration \in Durations
    /\ \A c \in x.table \ x.candles : Cardinality({b \in x.candles : b > c}) = Limit
HasTrades(x, torn) ==
    "events" \in x.wants => FromFirst(x.known, x.asof, Min(x.candles), x.events, torn)

(* The table a request was made for has only grown since, and so have the trades
   since its candles were read. *)
Waiting(r, tbl) == r.duration \in Durations => r.table \subseteq tbl[r.duration]
Knows(r, list, time) ==
    "events" \in r.wants => GoesOn(r.known, r.asof, list) /\ r.asof <= time

Served(r, tbl, list, time, torn) ==
    /\ IsRequest(r)
    /\ r.pc = "asked" => Waiting(r, tbl)
    /\ r.pc # "asked" => Newest(r)
    /\ r.pc = "read" => Knows(r, list, time)
    /\ r.pc = "answered" => HasTrades(r, torn)

HasItsMarks(x) == Timed(x) /\ x.marks = Marks(x.candles, x.events)

Requested ==
    \A s \in Slots :
        requests[s] # Nil => Served(requests[s], candles, Source, now, visit.backTest)
Drawn ==
    drawn # Nil => /\ Newest(drawn) /\ HasTrades(drawn, visit.backTest)
                   /\ HasItsMarks(drawn)

ChartInv == TablesType /\ Requested /\ Drawn

LEMMA SourceRecorded == ChartInv => Recorded(Source, now) /\ Source \in Seq(Nat) /\ now \in Nat
  BY DEF ChartInv, TablesType, Source, Recorded

(* A chart on the screen stays what it is.                                 *)
LEMMA DrawnStays == Drawn /\ drawn' = drawn /\ visit' = visit => Drawn'
  BY DEF Drawn, HasTrades, HasItsMarks, Timed, Newest

-----------------------------------------------------------------------------
(* Steps of the tables.                                                    *)

LEMMA ClockStep == ChartInv /\ Clock => ChartInv'
<1> SUFFICES ASSUME ChartInv, Clock PROVE ChartInv'
  OBVIOUS
<1>1. /\ visit \in Visits /\ now \in Nat /\ candles \in [Durations -> SUBSET Nat]
      /\ \A d \in Durations : IsFiniteSet(candles[d])
  BY DEF ChartInv, TablesType
<1>2. now' = now + 1 /\ UNCHANGED <<trades, memory, requests, drawn, visit>>
  BY DEF Clock
<1>3. PICK received \in BOOLEAN :
          candles' = [d \in Durations |->
              IF received THEN candles[d] \union {Truncate(now', d)} ELSE candles[d]]
  BY DEF Clock
<1>4. now' \in Nat
  BY <1>1, <1>2
<1>5. \A d \in Durations : Truncate(now', d) \in Nat
  <2> SUFFICES ASSUME NEW n \in Nat, NEW d \in Nat \ {0} PROVE n - (n % d) \in Nat
    BY <1>4, DurationsAssumption DEF Truncate
  <2>1. n \div d \in Nat /\ n % d \in 0 .. d - 1 /\ n = d * (n \div d) + (n % d)
    OBVIOUS
  <2> DEFINE p == d * (n \div d)
             m == n % d
  <2>2. p \in Nat
    BY <2>1
  <2>3. m \in Nat /\ n = p + m
    BY <2>1
  <2> HIDE DEF p, m
  <2>4. n - m \in Nat
    BY <2>2, <2>3
  <2> QED
    BY <2>4 DEF m
<1>6. ASSUME NEW d \in Durations
      PROVE  candles[d] \subseteq candles'[d] /\ candles'[d] \in SUBSET Nat /\ IsFiniteSet(candles'[d])
  <2>1. candles'[d] = candles[d] \/ candles'[d] = candles[d] \union {Truncate(now', d)}
    BY <1>3
  <2>2. candles[d] \in SUBSET Nat /\ IsFiniteSet(candles[d])
    BY <1>1
  <2>3. IsFiniteSet(candles[d] \union {Truncate(now', d)})
    BY <2>2, FS_AddElement
  <2> QED
    BY <1>5, <2>1, <2>2, <2>3
<1>7. candles' \in [Durations -> SUBSET Nat]
  BY <1>3, <1>6
<1>8. TablesType'
  <2>1. Recorded(trades, now + 1) /\ Recorded(memory, now + 1)
    BY <1>1, RecordMore DEF ChartInv, TablesType
  <2> QED
    BY <1>1, <1>2, <1>4, <1>6, <1>7, <2>1 DEF ChartInv, TablesType
<1>9. ASSUME NEW r, Served(r, candles, Source, now, visit.backTest)
      PROVE  Served(r, candles', Source', now', visit.backTest')
  <2>1. Waiting(r, candles) => Waiting(r, candles')
    BY <1>6 DEF Waiting
  <2>2. Source' = Source
    BY <1>2 DEF Source
  <2>3. Knows(r, Source, now) => Knows(r, Source, now')
    <3> SUFFICES ASSUME GoesOn(r.known, r.asof, Source), r.asof <= now PROVE r.asof <= now'
      BY DEF Knows
    <3>1. r.asof \in Nat
      BY DEF GoesOn
    <3> QED
      BY <1>1, <1>2, <3>1
  <2>4. visit' = visit
    BY <1>2
  <2> QED
    BY <1>9, <2>1, <2>2, <2>3, <2>4, Zenon DEF Served
<1>10. Requested'
  <2> SUFFICES ASSUME NEW s \in Slots, requests'[s] # Nil
               PROVE  Served(requests'[s], candles', Source', now', visit.backTest')
    BY Zenon DEF Requested
  <2>1. requests'[s] = requests[s]
    BY <1>2, Zenon
  <2> QED
    BY <1>9, <2>1, Zenon DEF ChartInv, Requested
<1> QED
  BY <1>2, <1>8, <1>10, DrawnStays DEF ChartInv

(* A trade is recorded: in memory, and in the table or not.                *)
LEMMA RecordStep ==
    ASSUME ChartInv, Record, UNCHANGED <<now, candles, drawn, visit>>
    PROVE  /\ Recorded(trades', now) /\ Recorded(memory', now) /\ Drawn'
           /\ \A r : Served(r, candles, Source, now, visit.backTest)
                   => Served(r, candles', Source', now', visit.backTest')
<1>1. Recorded(Source, now) /\ Source \in Seq(Nat) /\ now \in Nat
  BY SourceRecorded
<1>2. Recorded(trades, now) /\ Recorded(memory, now)
  BY DEF ChartInv, TablesType
<1>3. Recorded(trades', now) /\ Recorded(memory', now)
  BY <1>1, <1>2, RecordMore DEF Record
<1>4. Source' = Source \/ Source' = Append(Source, now)
  BY DEF Record, Source
<1>5. ASSUME NEW r, Knows(r, Source, now) PROVE Knows(r, Source', now)
  <2> SUFFICES ASSUME "events" \in r.wants PROVE GoesOn(r.known, r.asof, Source') /\ r.asof <= now
    BY DEF Knows
  <2>1. GoesOn(r.known, r.asof, Source) /\ r.asof <= now
    BY <1>5 DEF Knows
  <2>2. GoesOn(r.known, r.asof, Append(Source, now))
    BY <1>1, <2>1, GoesOnMore
  <2> QED
    BY <1>4, <2>1, <2>2, Zenon
<1>6. ASSUME NEW r, Served(r, candles, Source, now, visit.backTest)
      PROVE  Served(r, candles', Source', now', visit.backTest')
  <2>1. candles' = candles /\ now' = now /\ visit' = visit
    OBVIOUS
  <2> QED
    BY <1>5, <1>6, <2>1, Zenon DEF Served
<1> QED
  BY <1>3, <1>6, DrawnStays DEF ChartInv

LEMMA TradedStep == ChartInv /\ Traded => ChartInv'
<1> SUFFICES ASSUME ChartInv, Traded PROVE ChartInv'
  OBVIOUS
<1>1. Record /\ UNCHANGED <<now, candles, requests, drawn, visit>>
  BY DEF Traded
<1>2. /\ Recorded(trades', now) /\ Recorded(memory', now) /\ Drawn'
      /\ \A r : Served(r, candles, Source, now, visit.backTest)
              => Served(r, candles', Source', now', visit.backTest')
  BY <1>1, RecordStep
<1>3. TablesType'
  BY <1>1, <1>2 DEF ChartInv, TablesType
<1>4. Requested'
  <2> SUFFICES ASSUME NEW s \in Slots, requests'[s] # Nil
               PROVE  Served(requests'[s], candles', Source', now', visit.backTest')
    BY Zenon DEF Requested
  <2>1. requests'[s] = requests[s]
    BY <1>1, Zenon
  <2> QED
    BY <1>2, <2>1, Zenon DEF ChartInv, Requested
<1> QED
  BY <1>2, <1>3, <1>4 DEF ChartInv

LEMMA RestartStep == ChartInv /\ Restart => ChartInv'
<1> SUFFICES ASSUME ChartInv, Restart PROVE ChartInv'
  OBVIOUS
<1>1. /\ requests' = [s \in Slots |-> Nil] /\ UNCHANGED <<now, candles, trades, drawn, visit>>
      /\ memory' = IF trades = << >> THEN << >> ELSE << trades[Len(trades)] >>
  BY DEF Restart
<1>2. Recorded(memory', now)
  <2>1. CASE trades = << >>
    <3>1. Recorded(<< >>, now)
      BY DEF Recorded
    <3> QED
      BY <1>1, <2>1, <3>1
  <2>2. CASE trades # << >>
    <3> DEFINE last == trades[Len(trades)]
    <3>1. trades \in Seq(Nat) /\ Len(trades) \in 1 .. Len(trades)
      <4>1. trades \in Seq(Nat)
        BY DEF ChartInv, TablesType, Recorded
      <4> QED
        BY <2>2, <4>1
    <3>2. last \in Nat /\ last <= now
      BY <3>1 DEF ChartInv, TablesType, Recorded
    <3> HIDE DEF last
    <3>3. << last >> \in Seq(Nat) /\ Len(<< last >>) = 1 /\ << last >>[1] = last
      BY <3>2
    <3>4. \A k \in 1 .. 1 : k = 1 /\ \A j \in 1 .. k : j = 1
      OBVIOUS
    <3>5. Recorded(<< last >>, now)
      BY <3>2, <3>3, <3>4 DEF Recorded
    <3> QED
      BY <1>1, <2>2, <3>5 DEF last
  <2> QED
    BY <2>1, <2>2
<1>3. TablesType'
  BY <1>1, <1>2 DEF ChartInv, TablesType
<1>4. Requested'
  BY <1>1 DEF Requested
<1> QED
  BY <1>1, <1>3, <1>4, DrawnStays DEF ChartInv

-----------------------------------------------------------------------------
(* Steps of the page and of the server.                                    *)

(* Requests of all slots but one stay as they are.                         *)
LEMMA OneRequest ==
    ASSUME ChartInv, UNCHANGED tables, NEW s \in Slots, NEW new,
           requests' = [requests EXCEPT ![s] = new],
           new # Nil => Served(new, candles, Source, now, visit.backTest)
    PROVE  TablesType' /\ Requested'
<1>1. requests = [q \in Slots |-> requests[q]]
  BY DEF ChartInv, TablesType
<1>2. requests' = [q \in Slots |-> IF q = s THEN new ELSE requests[q]]
  BY <1>1
<1>3. TablesType'
  BY <1>2 DEF ChartInv, TablesType, tables
<1>4. \A r : Served(r, candles', Source', now', visit.backTest')
             <=> Served(r, candles, Source, now, visit.backTest)
  BY DEF Served, HasTrades, Source, tables
<1>5. Requested'
  <2> SUFFICES ASSUME NEW q \in Slots, requests'[q] # Nil
               PROVE  Served(requests'[q], candles', Source', now', visit.backTest')
    BY Zenon DEF Requested
  <2>1. CASE q = s
    <3>1. requests'[q] = new
      BY <1>2, <2>1
    <3> QED
      BY <1>4, <3>1, Zenon
  <2>2. CASE q # s
    <3>1. requests'[q] = requests[q]
      BY <1>2, <2>2
    <3> QED
      BY <1>4, <3>1, Zenon DEF ChartInv, Requested
  <2> QED
    BY <2>1, <2>2
<1> QED
  BY <1>3, <1>5

LEMMA RequestStep ==
    ASSUME ChartInv, UNCHANGED <<tables, drawn>>, NEW s \in Slots, NEW new,
           requests' = [requests EXCEPT ![s] = new],
           new # Nil => Served(new, candles, Source, now, visit.backTest)
    PROVE  ChartInv'
<1>1. TablesType' /\ Requested'
  BY OneRequest
<1> QED
  BY <1>1, DrawnStays DEF ChartInv, tables

(* Steps that leave the tables and the requests.                           *)
LEMMA PageOnly ==
    ASSUME ChartInv, UNCHANGED <<tables, requests, drawn>>
    PROVE  ChartInv'
<1>1. TablesType'
  BY DEF ChartInv, TablesType, tables
<1>2. Requested'
  BY DEF ChartInv, Requested, Served, HasTrades, Source, tables
<1> QED
  BY <1>1, <1>2, DrawnStays DEF ChartInv, tables

LEMMA SendStep ==
    ASSUME ChartInv, UNCHANGED <<tables, drawn>>, NEW asking, Send(asking)
    PROVE  ChartInv'
<1>1. CASE ~asking.api
  BY <1>1, PageOnly DEF Send
<1>2. CASE asking.api
  <2>1. PICK s \in 1 .. visit.slots : requests' = [requests EXCEPT ![s] = Request(asking)]
    BY <1>2 DEF Send
  <2>2. s \in Slots
    BY DEF ChartInv, TablesType, Slots
  <2>3. Served(Request(asking), candles, Source, now, visit.backTest)
    <3> DEFINE r == Request(asking)
    <3>1. r.pc = "asked" /\ r.duration = asking.duration
          /\ r.table = IF asking.duration \in Durations THEN candles[asking.duration] ELSE {}
      BY DEF Request
    <3>2. IsRequest(r)
      <4>1. {} \in SUBSET Nat /\ IsFiniteSet({}) /\ << >> \in Seq(Int)
        BY FS_EmptySet
      <4> QED
        BY <4>1 DEF Request, IsRequest, Timed
    <3>3. Waiting(r, candles)
      BY <3>1 DEF Waiting
    <3> HIDE DEF r
    <3>4. "asked" # "read" /\ "asked" # "answered"
      OBVIOUS
    <3> QED
      BY <3>1, <3>2, <3>3, <3>4, Zenon DEF Served, r
  <2> QED
    BY <2>1, <2>2, <2>3, RequestStep
<1> QED
  BY <1>1, <1>2

(* What the two reads make of a request.                                   *)
WithCandles(r, c, n, a, l) ==
    [r EXCEPT !.pc = "read", !.candles = c, !.known = n, !.asof = a, !.lines = l]
WithEvents(r, e) == [r EXCEPT !.pc = "answered", !.events = e]

LEMMA RequestChanged ==
    ASSUME NEW r, IsRequest(r), NEW c, NEW n, NEW a, NEW e, NEW l
    PROVE  /\ WithCandles(r, c, n, a, l)
              = [pc |-> "read", duration |-> r.duration, wants |-> r.wants, table |-> r.table,
                 candles |-> c, known |-> n, asof |-> a, events |-> r.events, lines |-> l]
           /\ WithEvents(r, e)
              = [pc |-> "answered", duration |-> r.duration, wants |-> r.wants,
                 table |-> r.table, candles |-> r.candles, known |-> r.known,
                 asof |-> r.asof, events |-> e, lines |-> r.lines]
<1>1. WithCandles(r, c, n, a, l)
      \in [pc : {"read"}, duration : {r.duration}, wants : {r.wants}, table : {r.table},
           candles : {c}, known : {n}, asof : {a}, events : {r.events}, lines : {l}]
  BY DEF IsRequest, WithCandles
<1>2. WithEvents(r, e)
      \in [pc : {"answered"}, duration : {r.duration}, wants : {r.wants}, table : {r.table},
           candles : {r.candles}, known : {r.known}, asof : {r.asof}, events : {e},
           lines : {r.lines}]
  BY DEF IsRequest, WithEvents
<1> QED
  BY <1>1, <1>2

LEMMA GetAllCandleStep ==
    ASSUME ChartInv, NEW s \in Slots, GetAllCandle(s)
    PROVE  ChartInv'
<1> DEFINE r == requests[s]
           rows == SelectAll(candles[r.duration])
           known == IF "events" \in r.wants THEN Source ELSE << >>
           asof == IF "events" \in r.wants THEN now ELSE 0
           lines == {o \in r.wants : Adds(o, Cardinality(rows))}
           new == WithCandles(r, rows, known, asof, lines)
<1>1. UNCHANGED <<tables, drawn>> /\ r # Nil /\ r.pc = "asked"
  BY DEF GetAllCandle
<1>2. CASE r.duration \notin Durations
  <2>1. requests' = [requests EXCEPT ![s] = Nil]
    BY <1>2 DEF GetAllCandle, NoAnswer
  <2> QED
    BY <1>1, <2>1, RequestStep
<1>3. CASE r.duration \in Durations
  <2>1. requests' = [requests EXCEPT ![s] = new]
    BY <1>3 DEF GetAllCandle, WithCandles
  <2>2. IsRequest(r) /\ Waiting(r, candles)
    BY <1>1 DEF ChartInv, Requested, Served
  <2>3. "events" \in r.wants => known = Source /\ asof = now
    OBVIOUS
  <2> HIDE DEF r, rows, lines, known, asof
  <2>4. new = [pc |-> "read", duration |-> r.duration, wants |-> r.wants, table |-> r.table,
               candles |-> rows, known |-> known, asof |-> asof, events |-> r.events,
               lines |-> lines]
    BY <2>2, RequestChanged
  <2> HIDE DEF new
  <2>5. IsRequest(new) /\ new.pc = "read"
    <3>1. candles[r.duration] \in SUBSET Nat /\ IsFiniteSet(candles[r.duration])
      BY <1>3 DEF ChartInv, TablesType
    <3>2. rows \subseteq candles[r.duration]
      BY DEF rows, SelectAll
    <3>3. rows \in SUBSET Nat /\ IsFiniteSet(rows)
      BY <3>1, <3>2, FS_Subset
    <3>4. new.candles = rows /\ new.events = r.events /\ r.events \in Seq(Int)
      BY <2>2, <2>4 DEF IsRequest, Timed
    <3>5. Timed(new)
      BY <3>3, <3>4 DEF Timed
    <3> QED
      BY <2>4, <3>5 DEF IsRequest
  <2>6. Knows(new, Source, now)
    <3> SUFFICES ASSUME "events" \in r.wants
                 PROVE  GoesOn(new.known, new.asof, Source) /\ new.asof <= now
      BY <2>4 DEF Knows
    <3>1. Source \in Seq(Nat) /\ now \in Nat
      BY SourceRecorded
    <3>2. new.known = Source /\ new.asof = now
      BY <2>3, <2>4
    <3>3. GoesOn(Source, now, Source)
      BY <3>1 DEF GoesOn
    <3> QED
      BY <3>1, <3>2, <3>3
  <2>7. Newest(new)
    <3>1. new.candles = rows /\ new.table = r.table /\ new.duration = r.duration
      BY <2>4
    <3>2. candles[r.duration] \in SUBSET Nat /\ IsFiniteSet(candles[r.duration])
      BY <1>3 DEF ChartInv, TablesType
    <3>3. r.table \subseteq candles[r.duration]
      BY <1>3, <2>2 DEF Waiting
    <3> QED
      BY <1>3, <3>1, <3>2, <3>3, SelectedNewest DEF Newest, rows
  <2>8. Served(new, candles, Source, now, visit.backTest)
    <3>1. "read" # "asked" /\ "read" # "answered"
      OBVIOUS
    <3> QED
      BY <2>5, <2>6, <2>7, <3>1, Zenon DEF Served
  <2> QED
    BY <1>1, <2>1, <2>8, RequestStep
<1> QED
  BY <1>2, <1>3

(* A request that has read its candles gets its trades, or wants none.     *)
LEMMA Answered ==
    ASSUME ChartInv, NEW r, IsRequest(r), Newest(r), NEW e, e \in Seq(Int),
           "events" \in r.wants =>
               FromFirst(r.known, r.asof, Min(r.candles), e, visit.backTest),
           NEW new, new = WithEvents(r, e)
    PROVE  Served(new, candles, Source, now, visit.backTest)
<1>1. new = [pc |-> "answered", duration |-> r.duration, wants |-> r.wants, table |-> r.table,
             candles |-> r.candles, known |-> r.known, asof |-> r.asof, events |-> e,
             lines |-> r.lines]
  BY RequestChanged
<1>2. new.pc = "answered" /\ new.pc # "asked" /\ new.pc # "read"
  BY <1>1
<1>3. IsRequest(new)
  <2>1. Timed(new)
    BY <1>1 DEF IsRequest, Timed
  <2> QED
    BY <1>1, <2>1 DEF IsRequest
<1>4. Newest(new)
  <2>1. new.duration = r.duration /\ new.table = r.table /\ new.candles = r.candles
    BY <1>1
  <2> QED
    BY <2>1, Zenon DEF Newest
<1>5. HasTrades(new, visit.backTest)
  BY <1>1 DEF HasTrades
<1> QED
  BY <1>2, <1>3, <1>4, <1>5, Zenon DEF Served

LEMMA ReadTrades ==
    ASSUME ChartInv, NEW r, IsRequest(r), Knows(r, Source, now), "events" \in r.wants,
           r.candles # {}, NEW e, e = Since(Source, Min(r.candles))
    PROVE  e \in Seq(Nat) /\ FromFirst(r.known, r.asof, Min(r.candles), e, FALSE)
<1>1. r.candles \in SUBSET Nat
  BY DEF IsRequest, Timed
<1>2. Min(r.candles) \in Nat
  BY <1>1, MinIsLeast
<1>3. Recorded(Source, now) /\ now \in Nat
  BY SourceRecorded
<1>4. GoesOn(r.known, r.asof, Source)
  BY DEF Knows
<1> QED
  BY <1>2, <1>3, <1>4, KnownFirst

LEMMA NoneTorn ==
    ASSUME NEW known, NEW asof, NEW first, NEW events, NEW torn,
           FromFirst(known, asof, first, events, FALSE)
    PROVE  FromFirst(known, asof, first, events, torn)
  BY Zenon DEF FromFirst

LEMMA AddEventsStep ==
    ASSUME ChartInv, NEW s \in Slots, AddEvents(s)
    PROVE  ChartInv'
<1> DEFINE r == requests[s]
<1>1. UNCHANGED <<tables, drawn>> /\ r # Nil /\ r.pc = "read"
  BY DEF AddEvents
<1>2. IsRequest(r) /\ Newest(r) /\ Knows(r, Source, now)
  BY <1>1 DEF ChartInv, Requested, Served
<1>3. CASE "events" \notin r.wants
  <2> DEFINE new == WithEvents(r, r.events)
  <2>1. requests' = [requests EXCEPT ![s].pc = "answered"]
    BY <1>3 DEF AddEvents
  <2>2. requests' = [requests EXCEPT ![s] = [r EXCEPT !.pc = "answered"]]
    BY <2>1
  <2> HIDE DEF r
  <2>3. [r EXCEPT !.pc = "answered"] = new
    BY <1>2 DEF IsRequest, WithEvents
  <2> HIDE DEF new
  <2>4. r.events \in Seq(Int)
    BY <1>2 DEF IsRequest, Timed
  <2>5. Served(new, candles, Source, now, visit.backTest)
    BY <1>2, <1>3, <2>4, Answered DEF new
  <2> QED
    BY <1>1, <2>2, <2>3, <2>5, RequestStep
<1>4. CASE "events" \in r.wants /\ r.candles = {}
  <2>1. requests' = [requests EXCEPT ![s] = Nil]
    BY <1>4 DEF AddEvents, NoAnswer
  <2> QED
    BY <1>1, <2>1, RequestStep
<1>5. CASE "events" \in r.wants /\ r.candles # {}
  <2> DEFINE e == Since(Source, Min(r.candles))
             new == WithEvents(r, e)
  <2>1. Events(Min(r.candles)) = e
    BY DEF Events, CollectAfter, GetSignalEventsAfterTime, Source
  <2>2. requests' = [requests EXCEPT ![s] = new]
    BY <1>5, <2>1 DEF AddEvents, WithEvents
  <2> HIDE DEF r
  <2>3. e \in Seq(Nat) /\ FromFirst(r.known, r.asof, Min(r.candles), e, FALSE)
    BY <1>2, <1>5, ReadTrades
  <2> HIDE DEF e
  <2>4. FromFirst(r.known, r.asof, Min(r.candles), e, visit.backTest)
    BY <2>3, NoneTorn, Zenon
  <2>5. e \in Seq(Int)
    BY <2>3
  <2>6. Served(new, candles, Source, now, visit.backTest)
    BY <1>2, <2>4, <2>5, Answered
  <2> HIDE DEF new
  <2> QED
    BY <1>1, <2>2, <2>6, RequestStep DEF r
<1> QED
  BY <1>3, <1>4, <1>5

LEMMA ReadWhileTradedStep ==
    ASSUME ChartInv, NEW s \in Slots, ReadWhileTraded(s)
    PROVE  ChartInv'
<1> DEFINE r == requests[s]
           e == Since(memory, Min(r.candles))
           new == WithEvents(r, Append(e, Torn))
<1>1. /\ Record /\ UNCHANGED <<now, candles, drawn, visit>> /\ visit.backTest
      /\ r # Nil /\ r.pc = "read" /\ "events" \in r.wants /\ r.candles # {}
      /\ requests' = [requests EXCEPT ![s] = new]
  BY DEF ReadWhileTraded, CollectAfter, WithEvents
<1>2. IsRequest(r) /\ Newest(r) /\ Knows(r, Source, now)
  BY <1>1 DEF ChartInv, Requested, Served
<1>3. e = Since(Source, Min(r.candles))
  BY <1>1 DEF Source
<1> HIDE DEF r, e
<1>4. e \in Seq(Nat) /\ FromFirst(r.known, r.asof, Min(r.candles), e, FALSE)
  BY <1>1, <1>2, <1>3, ReadTrades
<1>5. r.known \in Seq(Nat)
  BY <1>1, <1>2 DEF Knows, GoesOn
<1>6. /\ Append(e, Torn) \in Seq(Int)
      /\ FromFirst(r.known, r.asof, Min(r.candles), Append(e, Torn), TRUE)
  BY <1>4, <1>5, TornLast
<1>7. visit.backTest = TRUE
  <2>1. visit.backTest \in BOOLEAN
    BY VisitsAssumption DEF ChartInv, TablesType
  <2> QED
    BY <1>1, <2>1
<1>8. Served(new, candles, Source, now, visit.backTest)
  BY <1>2, <1>6, <1>7, Answered
<1> HIDE DEF new
<1>9. /\ Recorded(trades', now) /\ Recorded(memory', now) /\ Drawn'
      /\ \A q : Served(q, candles, Source, now, visit.backTest)
              => Served(q, candles', Source', now', visit.backTest')
  BY <1>1, RecordStep
<1>10. requests = [q \in Slots |-> requests[q]]
  BY DEF ChartInv, TablesType
<1>11. requests' = [q \in Slots |-> IF q = s THEN new ELSE requests[q]]
  BY <1>1, <1>10
<1>12. TablesType'
  BY <1>1, <1>9, <1>11 DEF ChartInv, TablesType
<1>13. Requested'
  <2> SUFFICES ASSUME NEW q \in Slots, requests'[q] # Nil
               PROVE  Served(requests'[q], candles', Source', now', visit.backTest')
    BY Zenon DEF Requested
  <2>1. CASE q = s
    <3>1. requests'[q] = new
      BY <1>11, <2>1
    <3> QED
      BY <1>8, <1>9, <3>1, Zenon
  <2>2. CASE q # s
    <3>1. requests'[q] = requests[q]
      BY <1>11, <2>2
    <3> QED
      BY <1>9, <3>1, Zenon DEF ChartInv, Requested
  <2> QED
    BY <2>1, <2>2
<1> QED
  BY <1>9, <1>12, <1>13 DEF ChartInv

LEMMA DoneStep ==
    ASSUME ChartInv, NEW s \in Slots, Done(s)
    PROVE  ChartInv'
<1> DEFINE r == requests[s]
<1>1. UNCHANGED tables /\ r # Nil /\ r.pc = "answered" /\ requests' = [requests EXCEPT ![s] = Nil]
  BY DEF Done, NoAnswer
<1>2. TablesType' /\ Requested'
  BY <1>1, OneRequest
<1>3. Newest(r) /\ HasTrades(r, visit.backTest) /\ Timed(r)
  <2>1. Served(r, candles, Source, now, visit.backTest)
    BY <1>1 DEF ChartInv, Requested
  <2>2. "answered" # "asked"
    OBVIOUS
  <2> QED
    BY <1>1, <2>1, <2>2, Zenon DEF Served, IsRequest
<1>4. drawn' = drawn \/ drawn' = [duration |-> r.duration, wants |-> r.wants, table |-> r.table,
                                  candles |-> r.candles, known |-> r.known, asof |-> r.asof,
                                  events |-> r.events, lines |-> r.lines,
                                  marks |-> Marks(r.candles, r.events)]
  BY DEF Done
<1>5. CASE drawn' = drawn
  BY <1>1, <1>2, <1>5, DrawnStays DEF ChartInv, tables
<1>6. CASE drawn' # drawn
  <2> HIDE DEF r
  <2>1. /\ drawn'.wants = r.wants /\ drawn'.table = r.table /\ drawn'.candles = r.candles
        /\ drawn'.known = r.known /\ drawn'.asof = r.asof /\ drawn'.events = r.events
        /\ drawn'.duration = r.duration /\ drawn'.marks = Marks(r.candles, r.events)
    BY <1>4, <1>6
  <2>2. Newest(drawn')
    BY <1>3, <2>1 DEF Newest
  <2>3. HasTrades(drawn', visit'.backTest)
    BY <1>1, <1>3, <2>1 DEF HasTrades, tables
  <2>4. HasItsMarks(drawn')
    BY <1>3, <2>1 DEF HasItsMarks, Timed
  <2> QED
    BY <1>2, <2>2, <2>3, <2>4 DEF ChartInv, Drawn
<1> QED
  BY <1>5, <1>6

LEMMA ChartStep == ChartInv /\ [Next]_vars => ChartInv'
<1> SUFFICES ASSUME ChartInv, [Next]_vars PROVE ChartInv'
  OBVIOUS
<1>1. CASE Interval
  BY <1>1, SendStep DEF Interval
<1>2. CASE User
  <2>1. ASSUME NEW d \in Buttons, ChangeDuration(d) PROVE ChartInv'
    BY <2>1, SendStep DEF ChangeDuration
  <2>2. ASSUME NEW o \in visit.options, ChangeOption(o) PROVE ChartInv'
    BY <2>2, SendStep DEF ChangeOption
  <2>3. CASE MouseEnters \/ MouseLeaves
    BY <2>3, PageOnly DEF MouseEnters, MouseLeaves
  <2> QED
    BY <1>2, <2>1, <2>2, <2>3 DEF User
<1>3. ASSUME NEW s \in Slots, QueryFails(s) PROVE ChartInv'
  <2>1. UNCHANGED <<tables, drawn>> /\ requests' = [requests EXCEPT ![s] = Nil]
    BY <1>3 DEF QueryFails, NoAnswer
  <2> QED
    BY <2>1, RequestStep
<1>4. CASE UNCHANGED vars
  BY <1>4, PageOnly DEF vars, tables
<1> QED
  BY <1>1, <1>2, <1>3, <1>4, ClockStep, TradedStep, RestartStep, GetAllCandleStep,
     AddEventsStep, ReadWhileTradedStep, DoneStep
     DEF Next, Handler

LEMMA ChartInvariant == Spec => []ChartInv
<1>1. Init => ChartInv
  <2> SUFFICES ASSUME Init PROVE ChartInv
    OBVIOUS
  <2>1. visit \in Visits /\ now = 0 /\ candles = [d \in Durations |-> {}] /\ trades = << >>
        /\ memory = << >> /\ requests = [s \in Slots |-> Nil] /\ drawn = Nil
    BY DEF Init
  <2>2. \A d \in Durations : IsFiniteSet(candles[d])
    BY <2>1, FS_EmptySet
  <2>3. Recorded(<< >>, 0)
    BY DEF Recorded
  <2>4. TablesType
    BY <2>1, <2>2, <2>3 DEF TablesType
  <2> QED
    BY <2>1, <2>4 DEF ChartInv, Requested, Drawn
<1> QED
  BY <1>1, ChartStep, PTL DEF Spec

(* An answer misses no candle that could be shown and none of the trades that were
   there with its candles, in the table or, in BackTest mode, in memory, whatever is
   written between the two reads of the handler, whatever fails, and in whatever
   order answers arrive (webServer.go, chart.html). *)
THEOREM AnswerTheorem == Spec => []AnswerIsCoherent
<1>1. ChartInv => AnswerIsCoherent
  <2> SUFFICES ASSUME ChartInv, drawn # Nil
               PROVE  NewestCandles /\ ("events" \in drawn.wants => TradesFromFirstCandle)
    BY DEF AnswerIsCoherent
  <2>1. Newest(drawn) /\ HasTrades(drawn, visit.backTest) /\ drawn.events \in Seq(Int)
    BY DEF ChartInv, Drawn, HasItsMarks, Timed
  <2>2. ASSUME "events" \in drawn.wants PROVE TradesFromFirstCandle
    <3> DEFINE known == drawn.known
    <3>1. FromFirst(known, drawn.asof, Min(drawn.candles), drawn.events, visit.backTest)
      BY <2>1, <2>2 DEF HasTrades
    <3>2. DOMAIN drawn.events = 1 .. Len(drawn.events) /\ DOMAIN known = 1 .. Len(known)
      BY <2>1
    <3> QED
      BY <3>1, <3>2 DEF FromFirst, StartsAt, TradesFromFirstCandle
  <2>3. NewestCandles
    BY <2>1 DEF Newest, NewestCandles
  <2> QED
    BY <2>2, <2>3
<1> QED
  BY <1>1, ChartInvariant, PTL

(* A marker stands at the candle of its trade, the markers are in the order of the
   trades, and no trade has two, whatever the trades and the candles of the answer
   are (the loop over the candles, chart.html). *)
THEOREM MarkersTheorem == Spec => []MarkersInPlace
<1>1. ChartInv => MarkersInPlace
  <2> SUFFICES ASSUME ChartInv, drawn # Nil PROVE MarkersInPlace
    BY DEF MarkersInPlace
  <2>1. Timed(drawn) /\ drawn.marks = Marks(drawn.candles, drawn.events)
        /\ drawn.duration \in Nat \ {0}
    BY DurationsAssumption DEF ChartInv, Drawn, HasItsMarks, Newest
  <2>2. /\ \A m \in drawn.marks : /\ m.candle \in drawn.candles
                                  /\ m.event \in 1 .. Len(drawn.events)
                                  /\ drawn.events[m.event] = m.candle
        /\ \A m, n \in drawn.marks : m.candle < n.candle <=> m.event < n.event
    BY <2>1, MarksAre DEF Timed
  <2>3. DOMAIN drawn.events = 1 .. Len(drawn.events) /\ drawn.candles \in SUBSET Nat
    BY <2>1 DEF Timed
  <2>4. ASSUME NEW m \in drawn.marks
        PROVE  /\ m.candle \in drawn.candles /\ m.event \in DOMAIN drawn.events
               /\ m.candle <= drawn.events[m.event]
               /\ drawn.events[m.event] < m.candle + drawn.duration
    <3>1. m.candle \in Nat /\ drawn.events[m.event] = m.candle
      BY <2>2, <2>3
    <3> QED
      BY <2>1, <2>2, <2>3, <3>1
  <2> QED
    BY <2>2, <2>4 DEF MarkersInPlace
<1> QED
  BY <1>1, ChartInvariant, PTL

=============================================================================
