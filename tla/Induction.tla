------------------------------ MODULE Induction ------------------------------
(***************************************************************************)
(* Induction over the naturals, stated of sets instead of predicates, and  *)
(* what follows from it: functions defined by recursion on a number exist, *)
(* there is one only, and the powers of 2 grow.  The proofs of what sums   *)
(* and selections compute rest on these lemmas.                            *)
(***************************************************************************)
EXTENDS Integers, FiniteSets, Functions, WellFoundedInduction, FunctionTheorems, FiniteSetTheorems, TLAPS

\* A set that holds 0 and with each number the next one holds all of them: otherwise there
\* were a least one that it does not hold.
LEMMA SetInduction ==
  ASSUME NEW S, 0 \in S, \A n \in Nat : n \in S => n + 1 \in S
  PROVE  Nat \subseteq S
<1> DEFINE T == Nat \ S
           R == {ss \in Nat \X Nat : ss[1] < ss[2]}
<1> SUFFICES ASSUME T # {} PROVE FALSE
  OBVIOUS
<1>1. IsWellFoundedOn(R, Nat)
  BY NatLessThanWellFounded DEF OpToRel
<1>2. PICK x \in T : \A y \in T : <<y, x>> \notin R
  <2>1. T \subseteq Nat /\ T # {}
    OBVIOUS
  <2> HIDE DEF R, T
  <2> QED BY <1>1, <2>1, WFMin
<1>3. x \in Nat /\ x # 0
  OBVIOUS
<1>4. x - 1 \in Nat /\ x - 1 < x /\ (x - 1) + 1 = x
  BY <1>3
<1>5. x - 1 \in S
  BY <1>2, <1>4
<1> QED BY <1>4, <1>5

\* The same up to a bound.
LEMMA BoundedInduction ==
  ASSUME NEW n \in Nat, NEW S, 0 \in S, \A i \in 0..n - 1 : i \in S => i + 1 \in S
  PROVE  0..n \subseteq S
<1> DEFINE T == S \cup {i \in Nat : i > n}
<1>1. 0 \in T
  OBVIOUS
<1>2. ASSUME NEW i \in Nat, i \in T PROVE i + 1 \in T
  <2>1. CASE i < n
    <3>1. i \in S /\ i \in 0..n - 1
      BY <1>2, <2>1
    <3> QED BY <3>1
  <2>2. CASE i >= n
    BY <2>2
  <2> QED BY <2>1, <2>2
<1>3. Nat \subseteq T
  <2> HIDE DEF T
  <2> QED BY <1>1, <1>2, SetInduction
<1> QED BY <1>3

-----------------------------------------------------------------------------
(* Recursion: f[0] is first, and f[i] is step[i] of f[i - 1].              *)

\* What such a function is, on 0..n.
Recursion(f, n, first, step) ==
    f = [i \in 0..n |-> IF i = 0 THEN first ELSE step[i][f[i - 1]]]

\* There is such a function, and its values stay in the set the steps stay in.
LEMMA RecursionExists ==
  ASSUME NEW n \in Nat, NEW V, NEW first \in V, NEW step \in [1..n -> [V -> V]]
  PROVE  \E f \in [0..n -> V] : Recursion(f, n, first, step)
<1> DEFINE S == {m \in 0..n : \E f \in [0..m -> V] : Recursion(f, m, first, step)}
<1>1. 0 \in S
  <2> DEFINE f == [i \in 0..0 |-> first]
  <2>1. f \in [0..0 -> V]
    OBVIOUS
  <2>2. Recursion(f, 0, first, step)
    BY DEF Recursion
  <2> QED BY <2>1, <2>2
<1>2. ASSUME NEW m \in 0..n - 1, m \in S PROVE m + 1 \in S
  <2>1. PICK f \in [0..m -> V] : Recursion(f, m, first, step)
    BY <1>2
  <2>2. m \in 0..m /\ m \in Nat /\ m + 1 \in 1..n
    OBVIOUS
  <2>3. f[m] \in V /\ step[m + 1] \in [V -> V]
    BY <2>2
  <2> DEFINE new == step[m + 1][f[m]]
             g == [i \in 0..m + 1 |-> IF i = m + 1 THEN new ELSE f[i]]
  <2>4. new \in V
    BY <2>3
  <2>5. g \in [0..m + 1 -> V]
    BY <2>2, <2>4
  <2>6. ASSUME NEW i \in 0..m + 1 PROVE g[i] = IF i = 0 THEN first ELSE step[i][g[i - 1]]
    <3>1. CASE i = m + 1
      <4>1. g[i] = new /\ i # 0 /\ i - 1 = m /\ g[i - 1] = f[m]
        BY <2>2, <3>1
      <4> QED BY <3>1, <4>1
    <3>2. CASE i # m + 1
      <4>1. i \in 0..m /\ g[i] = f[i] /\ (i # 0 => i - 1 \in 0..m /\ g[i - 1] = f[i - 1])
        BY <2>2, <3>2
      <4>2. f[i] = IF i = 0 THEN first ELSE step[i][f[i - 1]]
        BY <2>1, <4>1 DEF Recursion
      <4> QED BY <4>1, <4>2
    <3> QED BY <3>1, <3>2
  <2>7. Recursion(g, m + 1, first, step)
    <3>1. g = [i \in 0..m + 1 |-> g[i]]
      OBVIOUS
    <3> HIDE DEF g
    <3> QED BY <2>6, <3>1 DEF Recursion
  <2>8. m + 1 \in 0..n
    BY <2>2
  <2> HIDE DEF g
  <2> QED BY <2>5, <2>7, <2>8
<1>3. n \in S
  <2>1. n \in 0..n
    OBVIOUS
  <2> HIDE DEF S
  <2> QED BY <1>1, <1>2, <2>1, BoundedInduction
<1> QED BY <1>3

\* f goes from step to step, as far as n at least.
Follows(f, n, step) == \A i \in 1..n : f[i] = step[i][f[i - 1]]

\* Two functions that begin with the same and follow the same steps are the same so far.
LEMMA RecursionUnique ==
  ASSUME NEW n \in Nat, NEW f, NEW g, NEW step, f[0] = g[0],
         Follows(f, n, step), Follows(g, n, step)
  PROVE  \A i \in 0..n : f[i] = g[i]
<1> DEFINE S == {i \in 0..n : f[i] = g[i]}
<1>1. 0 \in S
  OBVIOUS
<1>2. ASSUME NEW i \in 0..n - 1, i \in S PROVE i + 1 \in S
  <2>1. i + 1 \in 1..n /\ (i + 1) - 1 = i /\ i + 1 \in 0..n
    OBVIOUS
  <2>2. f[i + 1] = step[i + 1][f[i]] /\ g[i + 1] = step[i + 1][g[i]]
    BY <2>1 DEF Follows
  <2> QED BY <1>2, <2>1, <2>2
<1>3. 0..n \subseteq S
  <2> HIDE DEF S
  <2> QED BY <1>1, <1>2, BoundedInduction
<1> QED BY <1>3
-----------------------------------------------------------------------------
(* The powers of 2, which count subsets (FS_SUBSET). *)

\* One more element doubles the subsets: those without it, and those with it.
LEMMA TwiceAsManySubsets ==
  ASSUME NEW S, IsFiniteSet(S), NEW x, x \notin S
  PROVE  Cardinality(SUBSET (S \cup {x})) = 2 * Cardinality(SUBSET S)
<1> DEFINE A == SUBSET S
           B == {T \cup {x} : T \in A}
           f == [T \in A |-> T \cup {x}]
<1>1. IsFiniteSet(A) /\ Cardinality(A) \in Nat
  BY FS_SUBSET, FS_CardinalityType
<1>2. f \in Bijection(A, B)
  <2>1. f \in [A -> B]
    OBVIOUS
  <2>2. \A T, U \in A : f[T] = f[U] => T = U
    OBVIOUS
  <2>3. \A b \in B : \E T \in A : f[T] = b
    OBVIOUS
  <2> HIDE DEF f, A, B
  <2> QED BY <2>1, <2>2, <2>3, Fun_IsBij
<1>3. IsFiniteSet(B) /\ Cardinality(B) = Cardinality(A)
  <2>1. ExistsBijection(A, B)
    BY <1>2, Zenon DEF ExistsBijection
  <2> HIDE DEF A, B
  <2> QED BY <1>1, <2>1, FS_Bijection
<1>4. SUBSET (S \cup {x}) = A \cup B
  <2>1. ASSUME NEW T \in SUBSET (S \cup {x}) PROVE T \in A \cup B
    <3>1. CASE x \in T
      <4>1. T \ {x} \in A /\ T = (T \ {x}) \cup {x}
        BY <3>1
      <4> QED BY <4>1
    <3>2. CASE x \notin T
      BY <3>2
    <3> QED BY <3>1, <3>2
  <2>2. \A T \in A \cup B : T \in SUBSET (S \cup {x})
    OBVIOUS
  <2> QED BY <2>1, <2>2
<1>5. A \cap B = {}
  OBVIOUS
<1>6. Cardinality(A \cup B) = Cardinality(A) + Cardinality(B) - Cardinality(A \cap B)
  <2> HIDE DEF A, B
  <2> QED BY <1>1, <1>3, FS_Union
<1>7. Cardinality(A \cap B) = 0
  BY <1>5, FS_EmptySet
<1>8. Cardinality(A \cup B) = 2 * Cardinality(A)
  <2> HIDE DEF A, B
  <2>1. Cardinality(A) \in Nat /\ Cardinality(B) = Cardinality(A)
    BY <1>1, <1>3
  <2> QED BY <2>1, <1>6, <1>7
<1>9. Cardinality(SUBSET (S \cup {x})) = 2 * Cardinality(A)
  <2> HIDE DEF A, B
  <2> QED BY <1>4, <1>8
<1> QED BY <1>9

\* What follows of the powers of 2: each is twice the one before.
LEMMA PowersOfTwo ==
  /\ 2^0 = 1
  /\ \A n \in Nat : 2^n \in Nat \ {0} /\ 2^(n + 1) = 2 * 2^n
<1>1. \A n \in Nat : IsFiniteSet(1..n) /\ Cardinality(1..n) = n
  BY FS_Interval
<1>2. \A n \in Nat : Cardinality(SUBSET (1..n)) = 2^n /\ 2^n \in Nat
  <2> SUFFICES ASSUME NEW n \in Nat PROVE Cardinality(SUBSET (1..n)) = 2^n /\ 2^n \in Nat
    OBVIOUS
  <2>1. Cardinality(SUBSET (1..n)) = 2^n /\ IsFiniteSet(SUBSET (1..n))
    BY <1>1, FS_SUBSET
  <2> QED BY <2>1, FS_CardinalityType
<1>3. ASSUME NEW n \in Nat PROVE 2^(n + 1) = 2 * 2^n
  <2>1. 1..n + 1 = (1..n) \cup {n + 1} /\ n + 1 \notin 1..n /\ n + 1 \in Nat
    OBVIOUS
  <2>2. Cardinality(SUBSET ((1..n) \cup {n + 1})) = 2 * Cardinality(SUBSET (1..n))
    BY <1>1, <2>1, TwiceAsManySubsets
  <2> QED BY <1>2, <2>1, <2>2
<1>4. 2^0 = 1
  OBVIOUS
<1>5. \A n \in Nat : 2^n # 0
  <2> DEFINE S == {n \in Nat : 2^n # 0}
  <2>1. 0 \in S
    BY <1>4
  <2>2. \A n \in Nat : n \in S => n + 1 \in S
    BY <1>2, <1>3
  <2>3. Nat \subseteq S
    <3> HIDE DEF S
    <3> QED BY <2>1, <2>2, SetInduction
  <2> QED BY <2>3
<1> QED BY <1>2, <1>3, <1>4, <1>5

\* They grow.
LEMMA PowersGrow ==
  ASSUME NEW m \in Nat, NEW n \in Nat, m <= n
  PROVE  2^m <= 2^n
<1> DEFINE S == {k \in Nat : 2^m <= 2^(m + k)}
<1>1. 0 \in S
  BY PowersOfTwo
<1>2. ASSUME NEW k \in Nat, k \in S PROVE k + 1 \in S
  <2>1. m + k \in Nat /\ m + (k + 1) = (m + k) + 1
    OBVIOUS
  <2>2. 2^(m + (k + 1)) = 2 * 2^(m + k) /\ 2^(m + k) \in Nat /\ 2^m \in Nat
    BY <2>1, PowersOfTwo
  <2>3. 2^m <= 2^(m + k)
    BY <1>2
  <2> QED BY <2>2, <2>3
<1>3. Nat \subseteq S
  <2> HIDE DEF S
  <2> QED BY <1>1, <1>2, SetInduction
<1>4. n - m \in Nat /\ m + (n - m) = n
  OBVIOUS
<1>5. n - m \in S
  BY <1>3, <1>4
<1> QED BY <1>4, <1>5
=============================================================================
