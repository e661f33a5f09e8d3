------------------------- MODULE InductionTheorems --------------------------
(* Induction over the natural numbers, and the functions it defines, stated  *)
(* for sets and functions: from the least-number principle, that < is        *)
(* well-founded.                                                             *)
EXTENDS WellFoundedInduction, TLAPS

\* A set of numbers that is not empty has a least element.
LEMMA Least ==
    ASSUME NEW T \in SUBSET Nat, T # {}
    PROVE  \E x \in T : \A y \in T : x <= y
<1> DEFINE R == {s \in Nat \X Nat : s[1] < s[2]}
<1>1. IsWellFoundedOn(R, Nat)
  BY NatLessThanWellFounded DEF OpToRel
<1>2. \A x, y \in Nat : <<x, y>> \in R <=> x < y
  OBVIOUS
<1> HIDE DEF R
<1>3. PICK x \in T : \A y \in T : ~ (<<y, x>> \in R)
  BY <1>1, WFMin
<1>4. ASSUME NEW y \in T PROVE x <= y
  <2>1. x \in Nat /\ y \in Nat /\ ~ (<<y, x>> \in R)
    BY <1>3
  <2>2. ~ (y < x)
    BY <1>2, <2>1
  <2> QED
    BY <2>1, <2>2
<1> QED
  BY <1>4

\* A set with 0, and with n + 1 when n is in it, holds all numbers.
LEMMA SetInduction ==
    ASSUME NEW S, 0 \in S, \A n \in Nat : n \in S => n + 1 \in S
    PROVE  Nat \subseteq S
<1> DEFINE T == Nat \ S
<1>1. ASSUME T # {} PROVE FALSE
  <2>1. T \in SUBSET Nat
    OBVIOUS
  <2>2. PICK x \in T : \A y \in T : x <= y
    BY <1>1, <2>1, Least
  <2>3. x # 0 /\ x - 1 \in Nat
    OBVIOUS
  <2>4. x - 1 \in S
    BY <2>2, <2>3
  <2> QED
    BY <2>3, <2>4
<1> QED
  BY <1>1

\* The same up to a bound.
LEMMA BoundedInduction ==
    ASSUME NEW n \in Nat, NEW S, 0 \in S, \A m \in 0 .. n - 1 : m \in S => m + 1 \in S
    PROVE  0 .. n \subseteq S
<1> DEFINE T == {m \in Nat : m <= n => m \in S}
<1>1. 0 \in T
  OBVIOUS
<1>2. ASSUME NEW m \in Nat, m \in T PROVE m + 1 \in T
  <2>1. ASSUME m + 1 <= n PROVE m + 1 \in S
    <3>1. m \in 0 .. n - 1 /\ m \in S
      BY <1>2, <2>1
    <3> QED
      BY <3>1
  <2> QED
    BY <2>1
<1>3. Nat \subseteq T
  BY <1>1, <1>2, SetInduction
<1> QED
  BY <1>3

\* A set that holds every number below which it holds all holds all numbers.
LEMMA StrongInduction ==
    ASSUME NEW S, \A n \in Nat : (0 .. n - 1 \subseteq S) => n \in S
    PROVE  Nat \subseteq S
<1>1. ASSUME Nat \ S # {} PROVE FALSE
  <2>1. PICK x \in Nat \ S : \A y \in Nat \ S : x <= y
    BY <1>1, Least
  <2>2. 0 .. x - 1 \subseteq S
    <3> SUFFICES ASSUME NEW y \in 0 .. x - 1 PROVE y \in S
      OBVIOUS
    <3>1. y \in Nat /\ ~(x <= y)
      OBVIOUS
    <3> QED
      BY <2>1, <3>1
  <2> QED
    BY <2>1, <2>2
<1> QED
  BY <1>1

-----------------------------------------------------------------------------
(* Recursive functions.  TLA+ reads f[k \in 0 .. n] == ... as some function  *)
(* that satisfies the equation: that there is one has to be shown.           *)

\* f starts at base and is carried from k to k + 1 by step.
Follows(f, V, base, step, n) ==
  /\ f \in [0 .. n -> V]
  /\ f[0] = base
  /\ \A k \in 0 .. n - 1 : f[k + 1] = step[<<k, f[k]>>]

\* There is such a function.
LEMMA RecursionExists ==
    ASSUME NEW V, NEW base \in V, NEW step \in [Nat \X V -> V], NEW n \in Nat
    PROVE  \E f : Follows(f, V, base, step, n)
<1> DEFINE S == {m \in Nat : \E f : Follows(f, V, base, step, m)}
<1>1. 0 \in S
  <2> DEFINE f == [k \in 0 .. 0 |-> base]
  <2>1. Follows(f, V, base, step, 0)
    BY DEF Follows
  <2> QED
    BY <2>1
<1>2. ASSUME NEW m \in Nat, m \in S PROVE m + 1 \in S
  <2>1. PICK f : Follows(f, V, base, step, m)
    BY <1>2
  <2>2. f \in [0 .. m -> V] /\ f[0] = base /\ \A k \in 0 .. m - 1 : f[k + 1] = step[<<k, f[k]>>]
    BY <2>1 DEF Follows
  <2> DEFINE v == step[<<m, f[m]>>]
  <2>3. v \in V
    <3>1. f[m] \in V
      BY <2>2
    <3> QED
      BY <3>1
  <2>4. v = step[<<m, f[m]>>]
    OBVIOUS
  <2> HIDE DEF v
  <2> DEFINE g == [k \in 0 .. m + 1 |-> IF k = m + 1 THEN v ELSE f[k]]
  <2>5. g \in [0 .. m + 1 -> V]
    BY <2>2, <2>3
  <2>6. g[m + 1] = v /\ \A k \in 0 .. m : g[k] = f[k]
    OBVIOUS
  <2> HIDE DEF g
  <2>7. g[0] = base
    BY <2>2, <2>6
  <2>8. ASSUME NEW k \in 0 .. (m + 1) - 1 PROVE g[k + 1] = step[<<k, g[k]>>]
    <3>1. CASE k = m
      <4>1. g[k + 1] = v /\ g[k] = f[m]
        BY <3>1, <2>6
      <4> QED
        BY <3>1, <4>1, <2>4
    <3>2. CASE k # m
      <4>1. k \in 0 .. m - 1 /\ k + 1 \in 0 .. m /\ k \in 0 .. m
        BY <3>2
      <4>2. g[k + 1] = f[k + 1] /\ g[k] = f[k]
        BY <4>1, <2>6
      <4> QED
        BY <4>1, <4>2, <2>2
    <3> QED
      BY <3>1, <3>2
  <2>9. Follows(g, V, base, step, m + 1)
    BY <2>5, <2>7, <2>8 DEF Follows
  <2> QED
    BY <2>9
<1>3. Nat \subseteq S
  BY <1>1, <1>2, SetInduction
<1> QED
  BY <1>3

\* What starts and steps like it is one, and its values have the right type.
LEMMA Conforms ==
    ASSUME NEW V, NEW base \in V, NEW step \in [Nat \X V -> V], NEW n \in Nat,
           NEW f, f = [k \in 0 .. n |-> f[k]], f[0] = base,
           \A k \in 0 .. n - 1 : f[k] \in V => f[k + 1] = step[<<k, f[k]>>]
    PROVE  Follows(f, V, base, step, n)
<1> DEFINE S == {m \in Nat : f[m] \in V}
<1>1. 0 \in S
  OBVIOUS
<1>2. ASSUME NEW m \in 0 .. n - 1, m \in S PROVE m + 1 \in S
  <2>1. f[m] \in V /\ m \in Nat /\ m + 1 \in Nat
    BY <1>2
  <2>2. step[<<m, f[m]>>] \in V
    BY <2>1
  <2> QED
    BY <2>1, <2>2
<1>3. 0 .. n \subseteq S
  BY <1>1, <1>2, BoundedInduction
<1>4. \A k \in 0 .. n : f[k] \in V
  BY <1>3
<1>5. f \in [0 .. n -> V]
  BY <1>4
<1>6. \A k \in 0 .. n - 1 : f[k + 1] = step[<<k, f[k]>>]
  <2> TAKE k \in 0 .. n - 1
  <2>1. f[k] \in V
    BY <1>4
  <2> QED
    BY <2>1
<1> QED
  BY <1>5, <1>6 DEF Follows

\* There is only one.
LEMMA RecursionUnique ==
    ASSUME NEW V, NEW base, NEW step, NEW n \in Nat,
           NEW f, Follows(f, V, base, step, n), NEW g, Follows(g, V, base, step, n)
    PROVE  f = g
<1>1. f \in [0 .. n -> V] /\ f[0] = base /\ \A k \in 0 .. n - 1 : f[k + 1] = step[<<k, f[k]>>]
  BY DEF Follows
<1>2. g \in [0 .. n -> V] /\ g[0] = base /\ \A k \in 0 .. n - 1 : g[k + 1] = step[<<k, g[k]>>]
  BY DEF Follows
<1> DEFINE S == {m \in Nat : m <= n => f[m] = g[m]}
<1>3. 0 \in S
  BY <1>1, <1>2
<1>4. ASSUME NEW m \in Nat, m \in S PROVE m + 1 \in S
  <2>1. ASSUME m + 1 <= n PROVE f[m + 1] = g[m + 1]
    <3>1. m \in 0 .. n - 1 /\ f[m] = g[m]
      BY <1>4, <2>1
    <3> QED
      BY <1>1, <1>2, <3>1
  <2> QED
    BY <2>1
<1>5. Nat \subseteq S
  BY <1>3, <1>4, SetInduction
<1> QED
  BY <1>1, <1>2, <1>5

=============================================================================
