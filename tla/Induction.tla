------------------------------ MODULE Induction ------------------------------
(***************************************************************************)
(* Induction over the numbers, and functions that each value gives the     *)
(* next of: what the loops of the handlers and of the indicators compute   *)
(* is proved with them.                                                    *)
(***************************************************************************)
EXTENDS Integers, FiniteSets, FiniteSetTheorems, WellFoundedInduction, TLAPS

(* Induction, with a set in the place of a predicate: a least number that  *)
(* is not in the set would be the end of a shortest interval that is not.  *)
LEMMA SetInduction ==
    ASSUME NEW S, 0 \in S, \A n \in Nat : n \in S => n + 1 \in S
    PROVE  \A n \in Nat : n \in S
<1> SUFFICES ASSUME NEW m \in Nat, m \notin S PROVE FALSE
  OBVIOUS
<1> DEFINE T == {0 .. n : n \in Nat \ S}
           R == StrictSubsetOrdering(Nat)
<1>1. T # {} /\ T \subseteq FiniteSubsetsOf(Nat)
  <2>1. 0 .. m \in T
    OBVIOUS
  <2>2. \A n \in Nat : 0 .. n \subseteq Nat /\ IsFiniteSet(0 .. n)
    BY FS_Interval
  <2> QED
    BY <2>1, <2>2 DEF FiniteSubsetsOf
<1>2. IsWellFoundedOn(R, FiniteSubsetsOf(Nat))
  BY FS_StrictSubsetOrderingWellFounded
<1>3. PICK X \in T : \A Y \in T : <<Y, X>> \notin R
  <2> HIDE DEF T, R
  <2> QED
    BY <1>1, <1>2, WFMin
<1>4. PICK x \in Nat \ S : X = 0 .. x
  OBVIOUS
<1>5. x # 0 /\ x - 1 \in Nat /\ (x - 1) + 1 = x
  BY <1>4
<1>6. x - 1 \in S
  <2> SUFFICES ASSUME x - 1 \notin S PROVE FALSE
    OBVIOUS
  <2>1. 0 .. x - 1 \in T
    BY <1>5
  <2>2. 0 .. x - 1 \subseteq Nat /\ X \subseteq Nat /\ 0 .. x - 1 \subseteq X /\ 0 .. x - 1 # X
    BY <1>4, <1>5
  <2>3. <<0 .. x - 1, X>> \in R
    BY <2>2 DEF StrictSubsetOrdering
  <2> QED
    BY <1>3, <2>1, <2>3
<1> QED
  BY <1>4, <1>5, <1>6

(* A function that goes from each value to the next exists.                *)
Recurses(g, n, X, base, step) ==
    g \in [0 .. n -> X] /\ g[0] = base /\ \A k \in 1 .. n : g[k] = step[k][g[k - 1]]

LEMMA Recursion ==
    ASSUME NEW n \in Nat, NEW X, NEW base \in X, NEW step, step \in [1 .. n -> [X -> X]]
    PROVE  \E g : Recurses(g, n, X, base, step)
<1> DEFINE Partial(m) == \E g \in [0 .. m -> X] :
                             g[0] = base /\ \A k \in 1 .. m : g[k] = step[k][g[k - 1]]
           S == {m \in Nat : m <= n => Partial(m)}
<1>1. 0 \in S
  <2> DEFINE h == [k \in 0 .. 0 |-> base]
  <2>1. h \in [0 .. 0 -> X] /\ h[0] = base /\ \A k \in 1 .. 0 : h[k] = step[k][h[k - 1]]
    OBVIOUS
  <2> HIDE DEF h
  <2>2. Partial(0)
    BY <2>1
  <2> QED
    BY <2>2
<1>2. ASSUME NEW m \in Nat, m \in S PROVE m + 1 \in S
  <2> SUFFICES ASSUME m + 1 <= n PROVE Partial(m + 1)
    OBVIOUS
  <2>1. PICK g \in [0 .. m -> X] : g[0] = base /\ \A k \in 1 .. m : g[k] = step[k][g[k - 1]]
    BY <1>2
  <2> DEFINE h == [k \in 0 .. m + 1 |-> IF k <= m THEN g[k] ELSE step[m + 1][g[m]]]
  <2>2. step[m + 1] \in [X -> X] /\ g[m] \in X
    OBVIOUS
  <2>3. step[m + 1][g[m]] \in X
    BY <2>2
  <2>4. h \in [0 .. m + 1 -> X]
    BY <2>3
  <2>5. h[0] = base
    BY <2>1
  <2>6. ASSUME NEW k \in 1 .. m + 1 PROVE h[k] = step[k][h[k - 1]]
    <3>1. CASE k <= m
      <4>1. k \in 1 .. m /\ k - 1 \in 0 .. m /\ k \in 0 .. m + 1 /\ k - 1 \in 0 .. m + 1
            /\ k - 1 <= m
        BY <3>1
      <4>2. h[k] = g[k] /\ h[k - 1] = g[k - 1]
        BY <3>1, <4>1
      <4> QED
        BY <2>1, <4>1, <4>2
    <3>2. CASE k = m + 1
      <4>1. h[k] = step[m + 1][g[m]] /\ h[k - 1] = g[m]
        BY <3>2
      <4> QED
        BY <3>2, <4>1
    <3> QED
      BY <3>1, <3>2
  <2> HIDE DEF h
  <2> QED
    BY <2>4, <2>5, <2>6
<1> HIDE DEF S
<1>3. \A m \in Nat : m \in S
  BY <1>1, <1>2, SetInduction
<1> QED
  BY <1>3 DEF S, Recurses

(* A set of numbers has a least one.                                       *)
LEMMA Least ==
    ASSUME NEW T \in SUBSET Nat, T # {}
    PROVE  \E m \in T : \A j \in T : m <= j
<1> SUFFICES ASSUME \A m \in T : \E j \in T : j < m PROVE FALSE
  <2>1. \A m \in T, j \in T : ~(j < m) => m <= j
    OBVIOUS
  <2> QED
    BY <2>1, Zenon
<1> DEFINE S == {n \in Nat : \A k \in 0 .. n : k \notin T}
<1>1. 0 \in S
  OBVIOUS
<1>2. ASSUME NEW n \in Nat, n \in S PROVE n + 1 \in S
  <2>1. \A k \in 0 .. n : k \notin T
    BY <1>2
  <2>2. n + 1 \notin T
    <3> SUFFICES ASSUME n + 1 \in T PROVE FALSE
      OBVIOUS
    <3>1. PICK j \in T : j < n + 1
      OBVIOUS
    <3>2. j \in 0 .. n
      BY <3>1
    <3> QED
      BY <2>1, <3>2
  <2>3. \A k \in 0 .. n + 1 : k \in 0 .. n \/ k = n + 1
    OBVIOUS
  <2> QED
    BY <2>1, <2>2, <2>3
<1> HIDE DEF S
<1>3. \A n \in Nat : n \in S
  BY <1>1, <1>2, SetInduction
<1>4. PICK m \in Nat : m \in T
  OBVIOUS
<1> QED
  BY <1>3, <1>4 DEF S

=============================================================================
