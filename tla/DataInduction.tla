---------------------------- MODULE DataInduction ----------------------------
(***************************************************************************)
(* Induction and recursion over the naturals without an operator for a     *)
(* parameter: a predicate is the set of the numbers that satisfy it, a     *)
(* step of a recursion is a function.  The proofs about the data of the    *)
(* models (powers, joined lines, split paths) rest on these facts.         *)
(***************************************************************************)
EXTENDS Naturals, TLAPS, WellFoundedInduction

(* A set of naturals that is not empty has a least element.                *)
LEMMA LeastNatural ==
    ASSUME NEW T, T \subseteq Nat, T # {}
    PROVE  \E m \in T : \A k \in T : m <= k
<1>1. PICK m \in T : \A k \in T : <<k, m>> \notin OpToRel(<, Nat)
  BY NatLessThanWellFounded, WFMin, Zenon
<1>2. \A k \in T : ~(k < m)
  BY <1>1 DEF OpToRel
<1> QED
  BY <1>2

(* A set that has zero, and with a number the next one, has them all.      *)
LEMMA Induction ==
    ASSUME NEW S, 0 \in S, \A n \in Nat : n \in S => n + 1 \in S
    PROVE  \A n \in Nat : n \in S
<1> SUFFICES ASSUME Nat \ S # {} PROVE FALSE
  OBVIOUS
<1>1. PICK m \in Nat \ S : \A k \in Nat \ S : m <= k
  BY LeastNatural
<1>2. m # 0 /\ m - 1 \in Nat
  BY <1>1
<1>3. m - 1 \in S
  BY <1>1, <1>2
<1> QED
  BY <1>1, <1>2, <1>3

-----------------------------------------------------------------------------
(* The first n steps of the recursion that starts at a and goes on by g.   *)
Begins(a, g, h, n) ==
    h[0] = a /\ \A k \in 0..n : k < n => h[k + 1] = g[k][h[k]]

(* Two beginnings of a recursion agree as far as both go.                  *)
LEMMA BeginningsAgree ==
    ASSUME NEW a, NEW g, NEW h1, NEW h2, NEW n1 \in Nat, NEW n2 \in Nat,
           Begins(a, g, h1, n1), Begins(a, g, h2, n2)
    PROVE  \A k \in Nat : k <= n1 /\ k <= n2 => h1[k] = h2[k]
<1> DEFINE S == {k \in Nat : k <= n1 /\ k <= n2 => h1[k] = h2[k]}
<1>1. 0 \in S
  BY DEF Begins
<1>2. ASSUME NEW k \in Nat, k \in S PROVE k + 1 \in S
  <2> SUFFICES ASSUME k + 1 <= n1, k + 1 <= n2 PROVE h1[k + 1] = h2[k + 1]
    OBVIOUS
  <2>1. h1[k] = h2[k]
    BY <1>2
  <2>2. h1[k + 1] = g[k][h1[k]] /\ h2[k + 1] = g[k][h2[k]]
    BY DEF Begins
  <2> QED
    BY <2>1, <2>2
<1> HIDE DEF S
<1>3. \A k \in Nat : k \in S
  BY <1>1, <1>2, Induction
<1> QED
  BY <1>3 DEF S

(* However far, there is a beginning of the recursion.                     *)
LEMMA BeginningsExist ==
    ASSUME NEW S, NEW a \in S, NEW g \in [Nat -> [S -> S]]
    PROVE  \A n \in Nat : \E h \in [0..n -> S] : Begins(a, g, h, n)
<1> DEFINE T == {n \in Nat : \E h \in [0..n -> S] : Begins(a, g, h, n)}
<1>1. 0 \in T
  <2> DEFINE h == [k \in 0..0 |-> a]
  <2>1. h \in [0..0 -> S] /\ Begins(a, g, h, 0)
    BY DEF Begins
  <2> QED
    BY <2>1
<1>2. ASSUME NEW n \in Nat, n \in T PROVE n + 1 \in T
  <2>1. PICK h \in [0..n -> S] : Begins(a, g, h, n)
    BY <1>2
  <2> DEFINE i == [k \in 0..n + 1 |-> IF k = n + 1 THEN g[n][h[n]] ELSE h[k]]
  <2>2. g[n][h[n]] \in S
    BY <2>1
  <2>3. i \in [0..n + 1 -> S]
    BY <2>1, <2>2
  <2>4. i[0] = a
    BY <2>1 DEF Begins
  <2>5. ASSUME NEW k \in 0..n + 1, k < n + 1 PROVE i[k + 1] = g[k][i[k]]
    <3>1. CASE k = n
      <4>1. i[n + 1] = g[n][h[n]] /\ i[n] = h[n]
        OBVIOUS
      <4> QED
        BY <3>1, <4>1
    <3>2. CASE k < n
      BY <2>1, <3>2 DEF Begins
    <3> QED
      BY <2>5, <3>1, <3>2
  <2> HIDE DEF i
  <2>6. Begins(a, g, i, n + 1)
    BY <2>4, <2>5 DEF Begins
  <2> QED
    BY <2>3, <2>6
<1> HIDE DEF T
<1>3. \A n \in Nat : n \in T
  BY <1>1, <1>2, Induction
<1> QED
  BY <1>3 DEF T

(* Recursion over the naturals defines a function.                         *)
Recurs(a, g, f) == f[0] = a /\ \A n \in Nat : f[n + 1] = g[n][f[n]]

(* Every start and every step have their recursion.                        *)
LEMMA Recursion ==
    ASSUME NEW S, NEW a \in S, NEW g \in [Nat -> [S -> S]]
    PROVE  \E f \in [Nat -> S] : Recurs(a, g, f)
<1> DEFINE Upto(n) == CHOOSE h \in [0..n -> S] : Begins(a, g, h, n)
           f == [n \in Nat |-> Upto(n)[n]]
<1>1. \A n \in Nat : Upto(n) \in [0..n -> S] /\ Begins(a, g, Upto(n), n)
  BY BeginningsExist
<1> HIDE DEF Upto
<1>2. f \in [Nat -> S]
  BY <1>1
<1>3. f[0] = a
  BY <1>1 DEF Begins
<1>4. ASSUME NEW n \in Nat PROVE f[n + 1] = g[n][f[n]]
  <2>1. Upto(n + 1)[n] = Upto(n)[n]
    <3>1. Begins(a, g, Upto(n + 1), n + 1) /\ Begins(a, g, Upto(n), n)
      BY <1>1
    <3> QED
      BY <3>1, BeginningsAgree
  <2>2. Upto(n + 1)[n + 1] = g[n][Upto(n + 1)[n]]
    BY <1>1 DEF Begins
  <2> QED
    BY <2>1, <2>2
<1> HIDE DEF f
<1> QED
  BY <1>2, <1>3, <1>4 DEF Recurs
=============================================================================
