------------------------------ MODULE Induction ------------------------------
(***************************************************************************)
(* Induction and recursion over numbers, in a form that the provers can    *)
(* use: the installed ones cannot instantiate the library's theorems that  *)
(* take an operator, but they can those that take a set.                   *)
(***************************************************************************)
EXTENDS Integers, NaturalsInduction, WellFoundedInduction, TLAPS

\* A set of numbers that is not empty has a least member.
LEMMA Least ==
    ASSUME NEW T \in SUBSET Nat, T # {}
    PROVE  \E n \in T : \A m \in T : n <= m
<1> DEFINE R == OpToRel(<, Nat)
<1>1. IsWellFoundedOn(R, Nat)
  BY NatLessThanWellFounded, Zenon
<1> HIDE DEF R
<1>2. PICK n \in T : \A m \in T : ~(<<m, n>> \in R)
  BY <1>1, WFMin, Zenon
<1>3. \A m, k \in Nat : m < k => <<m, k>> \in R
  BY SMT DEF R, OpToRel
<1>4. \A m \in T : ~(m < n) /\ m \in Nat /\ n \in Nat
  BY <1>2, <1>3, Zenon
<1>5. \A m \in T : n <= m
  BY <1>4, SMT
<1> QED
  BY <1>5, Zenon

\* N steps on S, and a function that starts with b and takes them.
Steps(S, N) == [1 .. N -> [S -> S]]
Takes(S, N, b, G) == \E f \in [0 .. N -> S] : f[0] = b /\ \A n \in 1 .. N : f[n] = G[n][f[n - 1]]

\* There is a function that starts with b and takes the steps of G.
LEMMA Recursion ==
    ASSUME NEW S, NEW N \in Nat, NEW b \in S, NEW G \in Steps(S, N)
    PROVE  Takes(S, N, b, G)
<1> DEFINE Up(f, n) == f[0] = b /\ \A m \in 1 .. n : f[m] = G[m][f[m - 1]]
           T == {n \in 0 .. N : ~\E f \in [0 .. N -> S] : Up(f, n)}
<1>1. \A m \in 1 .. N : m - 1 \in 0 .. N /\ m \in 0 .. N
  OBVIOUS
<1>2. SUFFICES ASSUME T # {}
               PROVE  FALSE
  <2>1. N \in 0 .. N
    OBVIOUS
  <2>2. T = {} => \E f \in [0 .. N -> S] : Up(f, N)
    BY <2>1, Zenon
  <2> QED
    BY <2>2, Zenon DEF Takes
<1>3. T \in SUBSET Nat
  OBVIOUS
<1> HIDE DEF T
<1>4. PICK n \in T : \A m \in T : n <= m
  BY <1>2, <1>3, Least, Zenon
<1>5. n \in 0 .. N /\ ~\E f \in [0 .. N -> S] : Up(f, n)
  BY <1>4, Zenon DEF T
<1>6. CASE n = 0
  <2> DEFINE f == [k \in 0 .. N |-> b]
  <2>1. f \in [0 .. N -> S] /\ f[0] = b /\ 1 .. 0 = {}
    BY <1>5
  <2> QED
    BY <1>5, <1>6, <2>1, Zenon
<1>7. CASE n # 0
  <2>1. /\ n \in 1 .. N /\ n - 1 \in 0 .. N /\ ~(n <= n - 1)
        /\ \A m \in 1 .. n : m = n \/ (m \in 1 .. n - 1 /\ m # n)
        /\ \A m \in 1 .. n : m \in 0 .. N /\ m - 1 # n /\ m - 1 \in 0 .. N
        /\ 0 # n /\ 0 \in 0 .. N
    BY <1>5, <1>7
  <2>2. n - 1 \notin T
    BY <1>4, <2>1, Zenon
  <2>3. PICK f \in [0 .. N -> S] : Up(f, n - 1)
    BY <2>1, <2>2, Zenon DEF T
  <2> DEFINE x == G[n][f[n - 1]]
             g == [f EXCEPT ![n] = x]
  <2>4. x \in S
    <3>1. f[n - 1] \in S /\ G[n] \in [S -> S]
      BY <2>1, <2>3, Zenon DEF Steps
    <3> QED
      BY <3>1, Zenon
  <2> HIDE DEF x
  <2>5. g \in [0 .. N -> S] /\ g[n] = x /\ \A k \in 0 .. N : k # n => g[k] = f[k]
    BY <2>1, <2>3, <2>4
  <2> HIDE DEF g
  <2>6. g[0] = b
    BY <2>1, <2>3, <2>5, Zenon
  <2>7. ASSUME NEW m \in 1 .. n
        PROVE  g[m] = G[m][g[m - 1]]
    <3>1. g[m - 1] = f[m - 1]
      BY <2>1, <2>5, Zenon
    <3>2. CASE m = n
      BY <2>5, <3>1, <3>2, Zenon DEF x
    <3>3. CASE m \in 1 .. n - 1 /\ m # n
      BY <2>1, <2>3, <2>5, <3>1, <3>3, Zenon
    <3> QED
      BY <2>1, <3>2, <3>3, Zenon
  <2> QED
    BY <1>5, <2>5, <2>6, <2>7, Zenon
<1> QED
  BY <1>6, <1>7, Zenon

\* Rules that give a value for every number, each from the values for smaller
\* ones, and a function that obeys them.
Rules(S) == [Nat -> [[Nat -> S] -> S]]
Agree(f, g, n) == \A m \in 0 .. n - 1 : f[m] = g[m]
Local(S, G) == \A n \in Nat : \A f, g \in [Nat -> S] : Agree(f, g, n) => G[n][f] = G[n][g]
ObeysBelow(f, G, n) == \A m \in 0 .. n - 1 : f[m] = G[m][f]
Obeyed(S, G) == \E f \in [Nat -> S] : \A n \in Nat : f[n] = G[n][f]

\* There is a function that obeys the rules below any n.
LEMMA ObeyedBelow ==
    ASSUME NEW S, NEW b \in S, NEW G \in Rules(S), Local(S, G), NEW n \in Nat
    PROVE  \E f \in [Nat -> S] : ObeysBelow(f, G, n)
<1> DEFINE T == {k \in Nat : ~\E f \in [Nat -> S] : ObeysBelow(f, G, k)}
<1>1. SUFFICES ASSUME T # {}
               PROVE  FALSE
  BY Zenon
<1>2. PICK k \in T : \A m \in T : k <= m
  <2>1. T \in SUBSET Nat
    BY Zenon
  <2> QED
    BY <1>1, <2>1, Least, Zenon
<1>3. k \in Nat /\ ~\E f \in [Nat -> S] : ObeysBelow(f, G, k)
  BY <1>2, Zenon
<1>4. k # 0
  <2> DEFINE f == [m \in Nat |-> b]
  <2>1. 0 .. 0 - 1 = {}
    OBVIOUS
  <2>2. f \in [Nat -> S]
    BY Zenon
  <2> QED
    BY <1>3, <2>1, <2>2, Zenon DEF ObeysBelow
<1>5. /\ k - 1 \in Nat /\ ~(k <= k - 1)
      /\ \A m \in 0 .. k - 1 : m \in Nat /\ (m = k - 1 \/ m \in 0 .. (k - 1) - 1)
      /\ \A m \in 0 .. k - 1 : \A i \in 0 .. m - 1 : i \in Nat /\ i # k - 1
      /\ \A m \in 0 .. (k - 1) - 1 : m # k - 1
  BY <1>3, <1>4
<1>6. PICK f \in [Nat -> S] : ObeysBelow(f, G, k - 1)
  BY <1>2, <1>5, Zenon
<1> DEFINE x == G[k - 1][f]
           g == [f EXCEPT ![k - 1] = x]
<1>7. x \in S
  <2>1. G[k - 1] \in [[Nat -> S] -> S]
    BY <1>5, Zenon DEF Rules
  <2> QED
    BY <1>6, <2>1, Zenon
<1> HIDE DEF x
<1>8. g \in [Nat -> S] /\ g[k - 1] = x /\ \A m \in Nat : m # k - 1 => g[m] = f[m]
  BY <1>5, <1>6, <1>7
<1> HIDE DEF g
<1>9. ASSUME NEW m \in 0 .. k - 1
      PROVE  g[m] = G[m][g]
  <2>1. Agree(g, f, m)
    BY <1>5, <1>8, Zenon DEF Agree
  <2>2. G[m][g] = G[m][f]
    BY <1>5, <1>8, <1>6, <2>1, Zenon DEF Local
  <2>3. CASE m = k - 1
    BY <1>8, <2>2, <2>3, Zenon DEF x
  <2>4. CASE m \in 0 .. (k - 1) - 1
    BY <1>5, <1>6, <1>8, <2>2, <2>4, Zenon DEF ObeysBelow
  <2> QED
    BY <1>5, <2>3, <2>4, Zenon
<1> QED
  BY <1>3, <1>8, <1>9, Zenon DEF ObeysBelow

\* Two functions that obey the rules agree as far as they do.
LEMMA ObeyedOnce ==
    ASSUME NEW S, NEW G, Local(S, G), NEW k \in Nat, NEW n \in 0 .. k,
           NEW f \in [Nat -> S], NEW g \in [Nat -> S],
           ObeysBelow(f, G, n), ObeysBelow(g, G, k)
    PROVE  Agree(f, g, n)
<1> DEFINE T == {m \in 0 .. n - 1 : f[m] # g[m]}
<1>1. SUFFICES ASSUME T # {}
               PROVE  FALSE
  BY Zenon DEF Agree
<1>2. PICK m \in T : \A i \in T : m <= i
  <2>1. T \in SUBSET Nat
    OBVIOUS
  <2> QED
    BY <1>1, <2>1, Least, Zenon
<1>3. m \in 0 .. n - 1 /\ f[m] # g[m]
  BY <1>2, Zenon
<1>4. /\ m \in Nat /\ m \in 0 .. k - 1
      /\ \A i \in 0 .. m - 1 : ~(m <= i) /\ i \in 0 .. n - 1
  BY <1>3
<1>5. Agree(f, g, m)
  BY <1>2, <1>4, Zenon DEF Agree
<1>6. G[m][f] = G[m][g]
  BY <1>4, <1>5, Zenon DEF Local
<1> QED
  BY <1>3, <1>4, <1>6, Zenon DEF ObeysBelow

\* There is a function that obeys the rules for every number.
LEMMA CourseOfValues ==
    ASSUME NEW S, NEW b \in S, NEW G \in Rules(S), Local(S, G)
    PROVE  Obeyed(S, G)
<1> DEFINE P == [n \in Nat |-> CHOOSE f \in [Nat -> S] : ObeysBelow(f, G, n)]
           F == [n \in Nat |-> P[n + 1][n]]
<1>1. ASSUME NEW n \in Nat
      PROVE  P[n] \in [Nat -> S] /\ ObeysBelow(P[n], G, n)
  <2>1. \E f \in [Nat -> S] : ObeysBelow(f, G, n)
    BY ObeyedBelow, Zenon
  <2> QED
    BY <2>1, Zenon
<1> HIDE DEF P
<1>2. \A n \in Nat : n + 1 \in Nat /\ n \in 0 .. (n + 1) - 1
  OBVIOUS
<1>3. F \in [Nat -> S]
  <2>1. \A n \in Nat : P[n + 1] \in [Nat -> S]
    BY <1>1, <1>2, Zenon
  <2> QED
    BY <2>1, Zenon
<1>4. ASSUME NEW n \in Nat
      PROVE  F[n] = G[n][F]
  <2>1. ASSUME NEW m \in 0 .. n - 1
        PROVE  F[m] = P[n + 1][m]
    <3>1. m \in Nat /\ m + 1 \in 0 .. n + 1
      OBVIOUS
    <3>2. Agree(P[m + 1], P[n + 1], m + 1)
      BY <1>1, <1>2, <3>1, ObeyedOnce, Zenon
    <3> QED
      BY <1>2, <3>1, <3>2, Zenon DEF Agree
  <2>2. Agree(F, P[n + 1], n)
    BY <2>1, Zenon DEF Agree
  <2>3. P[n + 1] \in [Nat -> S] /\ ObeysBelow(P[n + 1], G, n + 1)
    BY <1>1, <1>2, Zenon
  <2>4. G[n][F] = G[n][P[n + 1]]
    BY <1>3, <2>2, <2>3, Zenon DEF Local
  <2>5. P[n + 1][n] = G[n][P[n + 1]]
    BY <1>2, <2>3, Zenon DEF ObeysBelow
  <2> QED
    BY <2>4, <2>5, Zenon
<1> QED
  BY <1>3, <1>4, Zenon DEF Obeyed
=============================================================================
