------------------------------- MODULE Loops -------------------------------
(***************************************************************************)
(* A loop as a recursive function: it has exactly one run.  The facts by   *)
(* which the loops of the program are treated in the proofs.               *)
(***************************************************************************)
EXTENDS Integers, Sequences, WellFoundedInduction, TLAPS

(* A set of naturals that is not empty has a least element. *)
LEMMA Least ==
    ASSUME NEW S, S \subseteq Nat, S # {}
    PROVE  \E m \in S : \A n \in S : m <= n
<1> DEFINE R == {p \in Nat \X Nat : p[1] < p[2]}
<1>1. IsWellFoundedOn(R, Nat)
  BY NatLessThanWellFounded, Zenon DEF OpToRel
<1>2. \A x, y \in Nat : x < y => <<x, y>> \in R
  OBVIOUS
<1> HIDE DEF R
<1>3. PICK m \in S : \A n \in S : ~(<<n, m>> \in R)
  BY <1>1, WFMin, Zenon
<1>4. ASSUME NEW n \in S PROVE m <= n
  <2>1. ~(n < m)
    BY <1>2, <1>3
  <2> QED BY <2>1
<1> QED BY <1>4

(* A set of naturals that has 0 and every successor has them all: the      *)
(* least number it lacked would follow one that it has.                    *)
LEMMA NatInduct ==
    ASSUME NEW S, S \subseteq Nat, 0 \in S, \A n \in S : n + 1 \in S
    PROVE  S = Nat
<1> SUFFICES ASSUME Nat \ S # {} PROVE FALSE
  OBVIOUS
<1>1. PICK m \in Nat \ S : \A n \in Nat \ S : m <= n
  <2> DEFINE T == Nat \ S
  <2>1. T \subseteq Nat /\ T # {}
    OBVIOUS
  <2> HIDE DEF T
  <2>2. \E m \in T : \A n \in T : m <= n
    BY <2>1, Least
  <2> QED BY <2>2 DEF T
<1>2. m - 1 \in Nat /\ (m - 1) + 1 = m
  OBVIOUS
<1>3. m - 1 \in S
  BY <1>1, <1>2
<1> QED BY <1>2, <1>3

(* A step that can be taken from everywhere in S can be taken for ever.    *)
Run(f, S, a, F) ==
    f \in [Nat -> S] /\ f[0] = a /\ \A n \in Nat : f[n + 1] = F[n][f[n]]

LEMMA Iterates ==
    ASSUME NEW S, NEW a \in S, NEW F \in [Nat -> [S -> S]]
    PROVE  \E f : Run(f, S, a, F)
<1> DEFINE Approx(g, n) == /\ g \in [0..n -> S] /\ g[0] = a
                           /\ \A i \in 0..(n - 1) : g[i + 1] = F[i][g[i]]
<1>1. \A n \in Nat : \E g : Approx(g, n)
  <2> DEFINE G == {n \in Nat : \E g : Approx(g, n)}
  <2>1. 0 \in G
    <3>1. Approx([i \in 0..0 |-> a], 0)
      OBVIOUS
    <3> QED BY <3>1
  <2>2. ASSUME NEW n \in G PROVE n + 1 \in G
    <3>1. PICK g : Approx(g, n)
      OBVIOUS
    <3> DEFINE b == F[n][g[n]]
               h == [i \in 0..(n + 1) |-> IF i = n + 1 THEN b ELSE g[i]]
    <3>2. n \in Nat /\ g[n] \in S /\ b \in S
      BY <3>1
    <3>3. h \in [0..(n + 1) -> S]
      BY <3>1, <3>2
    <3>4. h[0] = a
      BY <3>1, <3>2
    <3>5. ASSUME NEW i \in 0..n PROVE h[i + 1] = F[i][h[i]]
      <4>1. h[i] = g[i] /\ h[i + 1] = (IF i = n THEN b ELSE g[i + 1])
        BY <3>2
      <4>2. i # n => g[i + 1] = F[i][g[i]]
        BY <3>1, <3>2
      <4> QED BY <4>1, <4>2
    <3>6. (n + 1) - 1 = n
      BY <3>2
    <3>7. Approx(h, n + 1)
      <4> HIDE DEF h
      <4> QED BY <3>3, <3>4, <3>5, <3>6
    <3>8. n + 1 \in Nat /\ \E g2 : Approx(g2, n + 1)
      <4> HIDE DEF Approx, h
      <4> QED BY <3>2, <3>7
    <3> HIDE DEF Approx
    <3> QED BY <3>8
  <2> HIDE DEF G, Approx
  <2>3. G \subseteq Nat
    BY DEF G
  <2>4. G = Nat
    BY <2>1, <2>2, <2>3, NatInduct
  <2> QED BY <2>4 DEF G
<1>2. \A i, m, n \in Nat : \A g, h :
          i <= m /\ i <= n /\ Approx(g, m) /\ Approx(h, n) => g[i] = h[i]
  <2> DEFINE G == {i \in Nat : \A m, n \in Nat : \A g, h :
                      i <= m /\ i <= n /\ Approx(g, m) /\ Approx(h, n) => g[i] = h[i]}
  <2>1. 0 \in G
    OBVIOUS
  <2>2. ASSUME NEW i \in G PROVE i + 1 \in G
    <3>1. i \in Nat
      OBVIOUS
    <3>2. SUFFICES ASSUME NEW m \in Nat, NEW n \in Nat, NEW g, NEW h,
                          i + 1 <= m, i + 1 <= n, Approx(g, m), Approx(h, n)
                   PROVE  g[i + 1] = h[i + 1]
      <4> HIDE DEF Approx
      <4> QED BY <3>1
    <3>3. g[i] = h[i]
      <4>1. i <= m /\ i <= n
        BY <3>1, <3>2
      <4> HIDE DEF Approx
      <4> QED BY <3>2, <4>1
    <3>4. i \in 0..(m - 1) /\ i \in 0..(n - 1)
      BY <3>1, <3>2
    <3>5. g[i + 1] = F[i][g[i]] /\ h[i + 1] = F[i][h[i]]
      BY <3>2, <3>4
    <3> QED BY <3>3, <3>5
  <2> HIDE DEF G, Approx
  <2>3. G \subseteq Nat
    BY DEF G
  <2>4. G = Nat
    BY <2>1, <2>2, <2>3, NatInduct
  <2> QED BY <2>4 DEF G
<1> DEFINE at(n) == CHOOSE g : Approx(g, n)
           f == [n \in Nat |-> at(n)[n]]
<1>3. \A n \in Nat : Approx(at(n), n)
  <2> HIDE DEF Approx
  <2> QED BY <1>1
<1> HIDE DEF at
<1>4. f \in [Nat -> S] /\ f[0] = a
  BY <1>3
<1>5. ASSUME NEW n \in Nat PROVE f[n + 1] = F[n][f[n]]
  <2>1. Approx(at(n + 1), n + 1) /\ Approx(at(n), n)
    <3> HIDE DEF Approx
    <3> QED BY <1>3
  <2>2. at(n + 1)[n + 1] = F[n][at(n + 1)[n]]
    BY <2>1
  <2>3. at(n + 1)[n] = at(n)[n]
    <3>1. n + 1 \in Nat /\ n <= n + 1 /\ n <= n
      OBVIOUS
    <3> HIDE DEF Approx
    <3> QED BY <1>2, <2>1, <3>1
  <2> QED BY <2>2, <2>3
<1> HIDE DEF f
<1> QED BY <1>4, <1>5 DEF Run

(* A loop of N iterations has a value after each of them.                  *)
Iterated(f, S, a, N, F) ==
    f \in [0..N -> S] /\ f[0] = a /\ \A n \in 1..N : f[n] = F[n][f[n - 1]]

LEMMA Loop ==
    ASSUME NEW S, NEW a \in S, NEW N \in Nat, NEW F \in [1..N -> [S -> S]]
    PROVE  \E f : Iterated(f, S, a, N, F)
<1> DEFINE G == [n \in Nat |-> IF n + 1 \in 1..N THEN F[n + 1] ELSE [x \in S |-> x]]
<1>1. G \in [Nat -> [S -> S]]
  OBVIOUS
<1>2. \A n \in 1..N : n - 1 \in Nat /\ G[n - 1] = F[n]
  OBVIOUS
<1> HIDE DEF G
<1>3. PICK g : Run(g, S, a, G)
  BY <1>1, Iterates
<1> DEFINE f == [n \in 0..N |-> g[n]]
<1>4. f \in [0..N -> S] /\ f[0] = a
  BY <1>3 DEF Run
<1>5. ASSUME NEW n \in 1..N PROVE f[n] = F[n][f[n - 1]]
  <2>1. n - 1 \in Nat /\ n - 1 \in 0..N /\ n \in 0..N /\ (n - 1) + 1 = n
    OBVIOUS
  <2>2. g[n] = G[n - 1][g[n - 1]]
    BY <1>3, <2>1 DEF Run
  <2> QED BY <1>2, <2>1, <2>2
<1> HIDE DEF f
<1>6. Iterated(f, S, a, N, F)
  BY <1>4, <1>5 DEF Iterated
<1> QED BY <1>6
=============================================================================
