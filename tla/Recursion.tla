------------------------------ MODULE Recursion ------------------------------
(***************************************************************************)
(* Induction over the natural numbers and the existence of recursively     *)
(* defined functions, from the well-foundedness of < alone.  A property of *)
(* numbers is the set of those that have it, and a step of a recursion a   *)
(* function, so that each lemma is about constants and can be cited.       *)
(***************************************************************************)
EXTENDS Integers, WellFoundedInduction, TLAPS

\* A set of numbers that is not empty has a least one.
LEMMA Least ==
  ASSUME NEW S \in SUBSET Nat, S # {}
  PROVE  \E n \in S : \A m \in S : n <= m
  <1> DEFINE R == OpToRel(<, Nat)
  <1>1. IsWellFoundedOn(R, Nat)
    BY NatLessThanWellFounded
  <1>2. \A x, y \in Nat : y < x => <<y, x>> \in R
    BY DEF OpToRel
  <1> HIDE DEF R
  <1>3. PICK n \in S : \A m \in S : ~ (<<m, n>> \in R)
    BY <1>1, WFMin, Zenon
  <1>4. \A m \in S : ~ (m < n)
    BY <1>2, <1>3
  <1> QED BY <1>4

\* A set with 0 and the successor of each of its members has every number.
LEMMA Induct ==
  ASSUME NEW S \in SUBSET Nat, 0 \in S, \A n \in S : n + 1 \in S
  PROVE  S = Nat
  <1> DEFINE T == Nat \ S
  <1> SUFFICES ASSUME T # {} PROVE FALSE
    OBVIOUS
  <1>1. T \in SUBSET Nat
    OBVIOUS
  <1> HIDE DEF T
  <1>2. PICK n \in T : \A m \in T : n <= m
    BY <1>1, Least
  <1>3. n \in Nat /\ n # 0 /\ n - 1 \in Nat /\ n - 1 \notin T
    BY <1>2 DEF T
  <1> QED BY <1>3 DEF T

\* The same up to a bound.
LEMMA InductTo ==
  ASSUME NEW N \in Nat, NEW S, 0 \in S, \A n \in 0 .. N - 1 : n \in S => n + 1 \in S
  PROVE  \A n \in 0 .. N : n \in S
  <1> DEFINE U == {n \in Nat : n <= N => n \in S}
  <1>1. U \in SUBSET Nat /\ 0 \in U /\ \A n \in U : n + 1 \in U
    OBVIOUS
  <1> HIDE DEF U
  <1>2. U = Nat
    BY <1>1, Induct
  <1> QED BY <1>2 DEF U

\* A run of the recursion from a by F up to N.
Run(T, a, F, N, g) ==
  /\ g \in [0 .. N -> T] /\ g[0] = a
  /\ \A n \in 0 .. N - 1 : g[n + 1] = F[<<g[n], n>>]

\* There is one.
LEMMA RecursionTo ==
  ASSUME NEW T, NEW a \in T, NEW F \in [T \X Nat -> T], NEW N \in Nat
  PROVE  \E g : Run(T, a, F, N, g)
  <1> USE DEF Run
  <1> DEFINE S == {m \in Nat : \E g : Run(T, a, F, m, g)}
  <1>1. 0 \in S
    <2>1. Run(T, a, F, 0, [n \in 0 .. 0 |-> a])
      OBVIOUS
    <2> QED BY <2>1
  <1>2. ASSUME NEW m \in S PROVE m + 1 \in S
    <2>1. m \in Nat /\ m + 1 \in Nat
      OBVIOUS
    <2>2. PICK g : Run(T, a, F, m, g)
      BY <1>2
    <2> DEFINE h == [n \in 0 .. m + 1 |-> IF n = m + 1 THEN F[<<g[m], m>>] ELSE g[n]]
    <2>3. h[0] = a /\ h \in [0 .. m + 1 -> T]
      <3>1. m \in 0 .. m /\ g[m] \in T /\ F[<<g[m], m>>] \in T
        BY <2>1, <2>2
      <3>2. \A n \in 0 .. m + 1 : n # m + 1 => n \in 0 .. m
        BY <2>1
      <3>3. 0 \in 0 .. m + 1 /\ 0 # m + 1
        BY <2>1
      <3> QED BY <2>2, <3>1, <3>2, <3>3
    <2>4. ASSUME NEW n \in 0 .. m PROVE h[n + 1] = F[<<h[n], n>>]
      <3>1. n \in 0 .. m + 1 /\ n + 1 \in 0 .. m + 1 /\ n # m + 1
        BY <2>1
      <3>2. h[n] = g[n]
        BY <3>1
      <3>3. CASE n = m
        BY <3>1, <3>2, <3>3
      <3>4. CASE n # m
        <4>1. n \in 0 .. m - 1 /\ n + 1 # m + 1
          BY <2>1, <3>4
        <4> QED BY <2>2, <3>1, <3>2, <4>1
      <3> QED BY <3>3, <3>4
    <2>5. 0 .. m = 0 .. (m + 1) - 1
      BY <2>1
    <2> HIDE DEF h
    <2>6. Run(T, a, F, m + 1, h)
      BY <2>3, <2>4, <2>5
    <2> QED BY <2>1, <2>6
  <1>3. S \in SUBSET Nat
    OBVIOUS
  <1>4. S = Nat
    <2> HIDE DEF S
    <2> QED BY <1>1, <1>2, <1>3, Induct
  <1> QED BY <1>4

\* A function on 0 .. N that is a at 0 and else F of its predecessor: the
\* equation of a recursive definition, which demands that there be one.
Solves(a, F, N, g) ==
  g = [k \in 0 .. N |-> IF k = 0 THEN a ELSE F[<<g[k - 1], k - 1>>]]

LEMMA Solvable ==
  ASSUME NEW T, NEW a \in T, NEW F \in [T \X Nat -> T], NEW N \in Nat
  PROVE  \E g \in [0 .. N -> T] : Solves(a, F, N, g)
  <1>1. PICK g : Run(T, a, F, N, g)
    BY RecursionTo
  <1> USE <1>1 DEF Run
  <1>2. ASSUME NEW k \in 0 .. N
        PROVE  g[k] = IF k = 0 THEN a ELSE F[<<g[k - 1], k - 1>>]
    <2>1. CASE k # 0
      <3>1. k - 1 \in 0 .. N - 1 /\ (k - 1) + 1 = k
        BY <2>1
      <3> QED BY <2>1, <3>1
    <2> QED BY <2>1
  <1>3. g = [k \in 0 .. N |-> g[k]]
    OBVIOUS
  <1>4. Solves(a, F, N, g)
    BY <1>2, <1>3 DEF Solves
  <1> QED BY <1>4
=============================================================================
