----------------------------- MODULE Recursion -----------------------------
(* Induction over the natural numbers, stated with a set in place of the    *)
(* library's operator parameter, and the existence of the functions that a *)
(* recursive definition chooses.                                           *)
EXTENDS Integers, FiniteSetTheorems, TLAPS

(* A counterexample n would make 0 .. n a smallest set without one. *)
LEMMA Induction ==
  ASSUME NEW T, 0 \in T, \A n \in Nat : n \in T => n + 1 \in T
  PROVE  Nat \subseteq T
<1> DEFINE R == StrictSubsetOrdering(Nat)
           F == FiniteSubsetsOf(Nat)
           U == {0 .. n : n \in Nat \ T}
<1>1. IsWellFoundedOn(R, F)
  BY FS_StrictSubsetOrderingWellFounded
<1>2. SUFFICES ASSUME Nat \ T # {} PROVE FALSE
  OBVIOUS
<1>3. U \subseteq F /\ U # {}
  <2>1. ASSUME NEW n \in Nat PROVE 0 .. n \in F
    <3>1. IsFiniteSet(0 .. n)
      BY FS_Interval
    <3>2. 0 .. n \in SUBSET Nat
      OBVIOUS
    <3> QED BY <3>1, <3>2 DEF FiniteSubsetsOf
  <2> QED BY <1>2, <2>1
<1>4. PICK a \in U : \A y \in U : ~ (<<y, a>> \in R)
  <2> HIDE DEF R, F, U
  <2> QED BY <1>1, <1>3, WFMin
<1>5. PICK x \in Nat \ T : a = 0 .. x
  OBVIOUS
<1>6. x # 0 /\ x - 1 \in Nat \ T
  OBVIOUS
<1>7. 0 .. x - 1 \in U
  BY <1>6
<1>8. 0 .. x - 1 \subseteq Nat /\ 0 .. x \subseteq Nat /\ 0 .. x - 1 \subseteq 0 .. x /\ 0 .. x - 1 # 0 .. x
  <2>1. x \in 0 .. x /\ x \notin 0 .. x - 1
    OBVIOUS
  <2> QED BY <2>1
<1>9. <<0 .. x - 1, 0 .. x>> \in R
  BY <1>8 DEF StrictSubsetOrdering
<1> QED BY <1>4, <1>5, <1>7, <1>9

Inductive(T, n) == 0 \in T /\ \A i \in 1 .. n : i - 1 \in T => i \in T

LEMMA InductionUpTo ==
  ASSUME NEW n \in Nat, NEW T, Inductive(T, n)
  PROVE  \A i \in 0 .. n : i \in T
<1> USE DEF Inductive
<1> DEFINE U == {i \in Nat : i <= n => i \in T}
<1>1. Nat \subseteq U
  <2>1. 0 \in U
    OBVIOUS
  <2>2. ASSUME NEW i \in Nat, i \in U PROVE i + 1 \in U
    <3>1. i + 1 <= n => i \in T /\ i + 1 \in 1 .. n /\ (i + 1) - 1 = i
      BY <2>2
    <3> QED BY <3>1
  <2> HIDE DEF U
  <2> QED BY <2>1, <2>2, Induction
<1> QED BY <1>1

(* ... from one number to another *)
LEMMA InductionFrom ==
  ASSUME NEW a \in Nat, NEW b \in Nat, NEW T, a \in T, \A i \in a .. b - 1 : i \in T => i + 1 \in T
  PROVE  \A i \in a .. b : i \in T
<1> DEFINE U == {i \in Nat : a + i <= b => a + i \in T}
<1>1. 0 \in U
  OBVIOUS
<1>2. ASSUME NEW i \in Nat, i \in U PROVE i + 1 \in U
  <2>1. CASE a + (i + 1) <= b
    <3>1. a + i \in a .. b - 1 /\ a + (i + 1) = (a + i) + 1
      BY <2>1
    <3>2. a + i \in T
      BY <1>2, <3>1
    <3> QED BY <3>1, <3>2
  <2>2. CASE ~(a + (i + 1) <= b)
    BY <2>2
  <2> QED BY <2>1, <2>2
<1>3. Nat \subseteq U
  <2> HIDE DEF U
  <2> QED BY <1>1, <1>2, Induction
<1>4. ASSUME NEW i \in a .. b PROVE i \in T
  <2>1. i - a \in Nat /\ a + (i - a) = i
    OBVIOUS
  <2>2. i - a \in U
    BY <1>3, <2>1
  <2> QED BY <2>1, <2>2
<1> QED BY <1>4

(* The same, from n + 1 down to 1 *)
LEMMA InductionDown ==
  ASSUME NEW n \in Nat, NEW T, n + 1 \in T, \A p \in 1 .. n : p + 1 \in T => p \in T
  PROVE  \A p \in 1 .. n + 1 : p \in T
<1> DEFINE U == {i \in 0 .. n : n + 1 - i \in T}
<1>1. 0 \in U
  OBVIOUS
<1>2. ASSUME NEW i \in 1 .. n, i - 1 \in U PROVE i \in U
  <2>1. n + 1 - i \in 1 .. n /\ (n + 1 - i) + 1 = n + 1 - (i - 1)
    OBVIOUS
  <2> QED BY <1>2, <2>1
<1>3. \A i \in 0 .. n : i \in U
  <2> HIDE DEF U
  <2>1. Inductive(U, n)
    BY <1>1, <1>2 DEF Inductive
  <2> QED BY <2>1, InductionUpTo
<1> SUFFICES ASSUME NEW p \in 1 .. n + 1 PROVE p \in T
  OBVIOUS
<1>4. n + 1 - p \in 0 .. n /\ n + 1 - (n + 1 - p) = p
  OBVIOUS
<1> QED BY <1>3, <1>4

(* f takes n steps, each of which depends on its number and on the value so  *)
(* far.                                                                    *)
Iterates(f, first, step, n) == f[0] = first /\ \A i \in 1 .. n : f[i] = step[<<f[i - 1], i>>]

(* A recursive definition f[i \in 0 .. n] whose value at i is a function of  *)
(* the one at i - 1 has something to choose: there is such a function.     *)
LEMMA RecursiveFunction ==
  ASSUME NEW n \in Nat, NEW X, NEW first \in X, NEW step \in [X \X (1 .. n) -> X]
  PROVE  \E f \in [0 .. n -> X] : Iterates(f, first, step, n)
<1> USE DEF Iterates
<1> DEFINE Good(m, f) == Iterates(f, first, step, m)
           T == {m \in 0 .. n : \E f \in [0 .. m -> X] : Good(m, f)}
<1>1. 0 \in T
  <2> DEFINE f == [i \in 0 .. 0 |-> first]
  <2>1. f \in [0 .. 0 -> X] /\ f[0] = first
    OBVIOUS
  <2>2. \A i \in 1 .. 0 : f[i] = step[<<f[i - 1], i>>]
    OBVIOUS
  <2> HIDE DEF f
  <2> QED BY <2>1, <2>2
<1>2. ASSUME NEW m \in 1 .. n, m - 1 \in T PROVE m \in T
  <2>1. PICK f \in [0 .. m - 1 -> X] : Good(m - 1, f)
    BY <1>2
  <2> DEFINE g == [i \in 0 .. m |-> IF i = m THEN step[<<f[m - 1], m>>] ELSE f[i]]
  <2>2. f[m - 1] \in X /\ step[<<f[m - 1], m>>] \in X
    OBVIOUS
  <2>3. g \in [0 .. m -> X]
    BY <2>2
  <2>4. g[0] = first
    BY <2>1
  <2>5. ASSUME NEW i \in 1 .. m PROVE g[i] = step[<<g[i - 1], i>>]
    <3>1. CASE i = m
      <4>1. g[m] = step[<<f[m - 1], m>>] /\ g[m - 1] = f[m - 1]
        OBVIOUS
      <4> QED BY <3>1, <4>1
    <3>2. CASE i # m
      <4>1. i \in 1 .. m - 1 /\ g[i] = f[i] /\ g[i - 1] = f[i - 1]
        BY <3>2
      <4> QED BY <2>1, <4>1
    <3> QED BY <3>1, <3>2
  <2> HIDE DEF g
  <2> QED BY <2>3, <2>4, <2>5
<1>3. n \in T
  <2> HIDE DEF T
  <2>1. Inductive(T, n)
    BY <1>1, <1>2 DEF Inductive
  <2> QED BY <2>1, InductionUpTo
<1> QED BY <1>3
=============================================================================
