------------------------------ MODULE Recursion ------------------------------
(***************************************************************************)
(* Induction, and functions defined by recursion, as theorems about sets:  *)
(* a set that holds 0, and with a number the next, holds every number; and *)
(* there is a function that is what its definition says, forward, backward *)
(* or as a loop that may not end.  The proofs about sums, scanners,        *)
(* parsers and decoders rest on them.                                      *)
(***************************************************************************)
EXTENDS Integers, Sequences, FiniteSetTheorems, SequenceTheorems, TLAPS

\* Every set of numbers that is not empty has a least one: among the intervals that
\* end in it, one is within all the others.
LEMMA LeastNumber ==
    ASSUME NEW T \in SUBSET Nat, T # {}
    PROVE  \E m \in T : \A k \in T : m <= k
<1> DEFINE R == StrictSubsetOrdering(Nat)
           U == {1..n : n \in T}
<1>1. IsWellFoundedOn(R, FiniteSubsetsOf(Nat))
  BY FS_StrictSubsetOrderingWellFounded
<1>2. U \subseteq FiniteSubsetsOf(Nat) /\ U # {}
  <2>1. \A n \in Nat : IsFiniteSet(1..n) /\ 1..n \in SUBSET Nat
    BY FS_Interval
  <2>2. \A n \in Nat : 1..n \in FiniteSubsetsOf(Nat)
    BY <2>1 DEF FiniteSubsetsOf
  <2> QED BY <2>2
<1>3. PICK x \in U : \A y \in U : ~ (<<y, x>> \in R)
  <2> HIDE DEF R, U
  <2> QED BY <1>1, <1>2, WFMin
<1>4. PICK m \in T : x = 1..m
  OBVIOUS
<1>5. ASSUME NEW k \in T, k < m PROVE FALSE
  <2>1. 1..k \in U /\ 1..k \subseteq x /\ 1..k # x
    <3>1. m \in 1..m /\ m \notin 1..k
      BY <1>5
    <3> QED BY <1>4, <1>5, <3>1
  <2>2. <<1..k, x>> \in R
    BY <2>1, <1>4 DEF StrictSubsetOrdering
  <2> QED BY <2>1, <2>2, <1>3
<1> QED BY <1>5

\* Induction.
LEMMA Induction ==
    ASSUME NEW T, 0 \in T, \A n \in Nat : n \in T => n + 1 \in T
    PROVE  Nat \subseteq T
<1> DEFINE B == Nat \ T
<1>1. CASE B # {}
  <2>1. PICK m \in B : \A k \in B : m <= k
    BY <1>1, LeastNumber
  <2>2. m # 0 /\ m - 1 \in Nat /\ m - 1 \notin B
    BY <2>1
  <2> QED BY <2>2
<1> QED BY <1>1

\* The functions on 0..n that are a at 0, and F of k and the value at k - 1 at k.
Maps(n, S) == [(1..n) \X S -> S]
Iterated(n, S, a, F) ==
    {g \in [0..n -> S] : g[0] = a /\ \A k \in 1..n : g[k] = F[<<k, g[k - 1]>>]}

\* There is such a function.
LEMMA Iterates ==
    ASSUME NEW n \in Nat, NEW S, NEW a \in S, NEW F \in Maps(n, S)
    PROVE  Iterated(n, S, a, F) # {}
<1> USE DEF Maps, Iterated
<1> DEFINE Good(m, g) == g[0] = a /\ \A k \in 1..m : g[k] = F[<<k, g[k - 1]>>]
           T == {m \in Nat : m <= n => \E g \in [0..m -> S] : Good(m, g)}
<1>1. 0 \in T
  <2>1. [k \in {0} |-> a] \in [0..0 -> S] /\ Good(0, [k \in {0} |-> a])
    OBVIOUS
  <2> QED BY <2>1
<1>2. ASSUME NEW m \in Nat, m \in T PROVE m + 1 \in T
  <2> SUFFICES ASSUME m + 1 <= n PROVE \E g \in [0..m + 1 -> S] : Good(m + 1, g)
    OBVIOUS
  <2>1. PICK g \in [0..m -> S] : Good(m, g)
    BY <1>2
  <2> DEFINE h == [k \in 0..m + 1 |-> IF k <= m THEN g[k] ELSE F[<<k, g[m]>>]]
  <2>2. h \in [0..m + 1 -> S]
    BY <2>1
  <2>3. \A k \in 0..m : h[k] = g[k]
    OBVIOUS
  <2>4. h[m + 1] = F[<<m + 1, h[m]>>]
    BY <2>3
  <2>5. \A k \in 1..m : h[k] = F[<<k, h[k - 1]>>]
    BY <2>1, <2>3
  <2> HIDE DEF h
  <2>6. \A k \in 1..m + 1 : h[k] = F[<<k, h[k - 1]>>]
    <3> SUFFICES ASSUME NEW k \in 1..m + 1 PROVE h[k] = F[<<k, h[k - 1]>>]
      OBVIOUS
    <3>1. CASE k = m + 1
      BY <3>1, <2>4
    <3>2. CASE k # m + 1
      BY <3>2, <2>5
    <3> QED BY <3>1, <3>2
  <2>7. h[0] = a
    BY <2>1, <2>3
  <2>8. Good(m + 1, h)
    BY <2>6, <2>7
  <2> QED BY <2>2, <2>8
<1>3. n \in T
  <2>1. Nat \subseteq T
    <3> HIDE DEF T
    <3> QED BY <1>1, <1>2, Induction
  <2> QED BY <2>1
<1> QED BY <1>3

\* The functions on 1..n that are, at k, what F makes of k and of their values after k.
After(k, n, S) == [k + 1 .. n -> S]
BackMaps(n, S) == [UNION {{k} \X After(k, n, S) : k \in 1..n} -> S]
Rest(g, k, n) == [j \in k + 1 .. n |-> g[j]]
Backward(n, S, F) == {g \in [1..n -> S] : \A k \in 1..n : g[k] = F[<<k, Rest(g, k, n)>>]}

\* There is such a function.
LEMMA Recurs ==
    ASSUME NEW n \in Nat, NEW S, NEW F \in BackMaps(n, S)
    PROVE  Backward(n, S, F) # {}
<1> DEFINE Good(m, g) == \A k \in m + 1 .. n : g[k] = F[<<k, Rest(g, k, n)>>]
           T == {d \in Nat : d <= n => \E g \in [n - d + 1 .. n -> S] : Good(n - d, g)}
<1>1. 0 \in T
  <2>1. [k \in {} |-> k] \in [n - 0 + 1 .. n -> S] /\ Good(n - 0, [k \in {} |-> k])
    OBVIOUS
  <2> QED BY <2>1
<1>2. ASSUME NEW d \in Nat, d \in T PROVE d + 1 \in T
  <2> SUFFICES ASSUME d + 1 <= n PROVE \E g \in [n - (d + 1) + 1 .. n -> S] : Good(n - (d + 1), g)
    OBVIOUS
  <2>1. PICK g \in [n - d + 1 .. n -> S] : Good(n - d, g)
    BY <1>2
  <2> DEFINE m == n - d
             h == [k \in m .. n |-> IF k = m THEN F[<<m, g>>] ELSE g[k]]
  <2>2. m \in 1..n /\ n - (d + 1) = m - 1 /\ (m - 1) + 1 = m /\ n - (d + 1) + 1 = m
    OBVIOUS
  <2>3. g \in After(m, n, S) /\ Good(m, g)
    BY <2>1 DEF After
  <2> HIDE DEF m
  <2>4. F[<<m, g>>] \in S
    <3>1. <<m, g>> \in UNION {{k} \X After(k, n, S) : k \in 1..n}
      BY <2>2, <2>3
    <3> QED BY <3>1 DEF BackMaps
  <2>5. h \in [m .. n -> S]
    BY <2>2, <2>3, <2>4 DEF After
  <2>6. h[m] = F[<<m, g>>] /\ \A k \in m + 1 .. n : h[k] = g[k]
    BY <2>2
  <2> HIDE DEF h
  <2>7. \A k \in m .. n : Rest(h, k, n) = Rest(g, k, n)
    BY <2>2, <2>6 DEF Rest
  <2>8. Rest(g, m, n) = g
    BY <2>3 DEF Rest, After
  <2>9. \A k \in m .. n : h[k] = F[<<k, Rest(h, k, n)>>]
    <3> SUFFICES ASSUME NEW k \in m .. n PROVE h[k] = F[<<k, Rest(h, k, n)>>]
      OBVIOUS
    <3>1. CASE k = m
      BY <3>1, <2>6, <2>7, <2>8
    <3>2. CASE k # m
      <4>1. k \in m + 1 .. n
        BY <3>2, <2>2
      <4> QED BY <4>1, <2>3, <2>6, <2>7
    <3> QED BY <3>1, <3>2
  <2> QED BY <2>2, <2>5, <2>9
<1>3. n \in T
  <2>1. Nat \subseteq T
    <3> HIDE DEF T
    <3> QED BY <1>1, <1>2, Induction
  <2> QED BY <2>1
<1>4. PICK g \in [n - n + 1 .. n -> S] : Good(n - n, g)
  BY <1>3
<1> QED BY <1>4 DEF Backward

\* Loops: what is left when the states in Done are reached by steps of D, and c where
\* they never are.
Leads(S, O, Done, D, Out) ==
    {X \in SUBSET (S \X O) :
        /\ \A s \in Done : <<s, Out[s]>> \in X
        /\ \A s \in S \ Done, o \in O : <<D[s], o>> \in X => <<s, o>> \in X}
Left(S, O, Done, D, Out) == {p \in S \X O : \A X \in Leads(S, O, Done, D, Out) : p \in X}
Looped(S, O, Done, D, Out, c) ==
    [s \in S |-> IF \E o \in O : <<s, o>> \in Left(S, O, Done, D, Out)
                 THEN CHOOSE o \in O : <<s, o>> \in Left(S, O, Done, D, Out) ELSE c]

LoopOf(f, S, O, Done, D, Out) ==
    f \in [S -> O] /\ \A s \in S : f[s] = IF s \in Done THEN Out[s] ELSE f[D[s]]

\* A loop is a function that is what its definition says, whether it ends or not.
LEMMA Loops ==
    ASSUME NEW S, NEW O, NEW c \in O
    PROVE  \A Done \in SUBSET S, D \in [S -> S], Out \in [S -> O] :
              LoopOf(Looped(S, O, Done, D, Out, c), S, O, Done, D, Out)
<1> SUFFICES ASSUME NEW Done \in SUBSET S, NEW D \in [S -> S], NEW Out \in [S -> O]
             PROVE  LoopOf(Looped(S, O, Done, D, Out, c), S, O, Done, D, Out)
  OBVIOUS
<1> DEFINE Closed == Leads(S, O, Done, D, Out)
           V == Left(S, O, Done, D, Out)
<1>1. /\ V \subseteq S \X O
      /\ \A s \in Done : <<s, Out[s]>> \in V
      /\ \A s \in S \ Done, o \in O : <<D[s], o>> \in V => <<s, o>> \in V
  BY DEF Left, Leads
<1>2. \A X \in Closed : V \subseteq X
  BY DEF Left
<1> DEFINE Made == {p \in V : IF p[1] \in Done THEN p[2] = Out[p[1]] ELSE <<D[p[1]], p[2]>> \in V}
<1>3. \A s \in S, o \in O : <<s, o>> \in V =>
         IF s \in Done THEN o = Out[s] ELSE <<D[s], o>> \in V
  <2>1. Made \in Closed
    <3>1. Made \in SUBSET (S \X O)
      BY <1>1
    <3>2. \A s \in Done : <<s, Out[s]>> \in Made
      BY <1>1
    <3>3. ASSUME NEW s \in S \ Done, NEW o \in O, <<D[s], o>> \in Made PROVE <<s, o>> \in Made
      <4>1. <<D[s], o>> \in V
        BY <3>3
      <4>2. <<s, o>> \in V
        BY <4>1, <1>1
      <4> QED BY <4>1, <4>2
    <3> HIDE DEF Made
    <3> QED BY <3>1, <3>2, <3>3 DEF Leads
  <2>2. V \subseteq Made
    <3> HIDE DEF Made, V, Closed
    <3> QED BY <2>1, <1>2
  <2> HIDE DEF V
  <2> QED BY <2>2
<1> DEFINE Sole == {p \in V : \A o \in O : <<p[1], o>> \in V => o = p[2]}
<1>4. \A s \in S, o \in O : <<s, o>> \in V => \A p \in O : <<s, p>> \in V => p = o
  <2>1. Sole \in Closed
    <3>1. Sole \in SUBSET (S \X O)
      BY <1>1
    <3>2. ASSUME NEW s \in Done PROVE <<s, Out[s]>> \in Sole
      <4> HIDE DEF V
      <4>1. <<s, Out[s]>> \in V /\ s \in S
        BY <1>1
      <4>2. \A o \in O : <<s, o>> \in V => o = Out[s]
        BY <4>1, <1>3
      <4> QED BY <4>1, <4>2
    <3>3. ASSUME NEW s \in S \ Done, NEW o \in O, <<D[s], o>> \in Sole PROVE <<s, o>> \in Sole
      <4> HIDE DEF V
      <4>1. <<D[s], o>> \in V /\ \A p \in O : <<D[s], p>> \in V => p = o
        BY <3>3
      <4>2. <<s, o>> \in V
        BY <4>1, <1>1
      <4>3. \A p \in O : <<s, p>> \in V => p = o
        BY <4>1, <1>3
      <4> QED BY <4>2, <4>3
    <3> HIDE DEF Sole
    <3> QED BY <3>1, <3>2, <3>3 DEF Leads
  <2>2. V \subseteq Sole
    <3> HIDE DEF Sole, V, Closed
    <3> QED BY <2>1, <1>2
  <2> HIDE DEF V
  <2> QED BY <2>2
<1> DEFINE L == Looped(S, O, Done, D, Out, c)
<1> HIDE DEF V
<1>5. \A s \in S : L[s] = IF \E o \in O : <<s, o>> \in V THEN CHOOSE o \in O : <<s, o>> \in V ELSE c
  BY DEF Looped, V
<1>6. \A s \in S, o \in O : <<s, o>> \in V => L[s] = o
  <2> SUFFICES ASSUME NEW s \in S, NEW o \in O, <<s, o>> \in V PROVE L[s] = o
    OBVIOUS
  <2>1. L[s] = CHOOSE p \in O : <<s, p>> \in V
    BY <1>5
  <2>2. L[s] \in O /\ <<s, L[s]>> \in V
    BY <2>1
  <2> QED BY <2>2, <1>4
<1>7. L \in [S -> O]
  <2>1. \A s \in S : L[s] \in O
    BY <1>5, <1>6
  <2>2. L = [s \in S |-> L[s]]
    BY DEF Looped
  <2> QED BY <2>1, <2>2
<1>8. ASSUME NEW s \in S PROVE L[s] = IF s \in Done THEN Out[s] ELSE L[D[s]]
  <2>1. CASE s \in Done
    <3>1. <<s, Out[s]>> \in V /\ Out[s] \in O
      BY <1>1, <2>1
    <3> QED BY <3>1, <2>1, <1>6
  <2>2. CASE s \notin Done /\ \E o \in O : <<s, o>> \in V
    <3>1. PICK o \in O : <<s, o>> \in V
      BY <2>2
    <3>2. <<D[s], o>> \in V /\ D[s] \in S
      BY <3>1, <2>2, <1>3
    <3> QED BY <3>1, <3>2, <2>2, <1>6
  <2>3. CASE s \notin Done /\ ~\E o \in O : <<s, o>> \in V
    <3>1. D[s] \in S /\ ~\E o \in O : <<D[s], o>> \in V
      BY <2>3, <1>1
    <3> QED BY <3>1, <2>3, <1>5
  <2> QED BY <2>1, <2>2, <2>3
<1> QED BY <1>7, <1>8 DEF LoopOf
=============================================================================
