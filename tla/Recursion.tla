----------------------------- MODULE Recursion -----------------------------
(***************************************************************************)
(* Induction over the naturals, and the existence of what is defined by    *)
(* recursion over them, as facts about sets and functions.                 *)
(***************************************************************************)
EXTENDS Naturals, WellFoundedInduction, TLAPS

(* A non-empty set of naturals has a least element.                        *)
LEMMA LeastNat ==
  ASSUME NEW T, T \subseteq Nat, T # {}
  PROVE  \E x \in T : \A y \in T : x <= y
<1> DEFINE Less == {ss \in Nat \X Nat : ss[1] < ss[2]}
<1>1. IsWellFoundedOn(Less, Nat)
  BY NatLessThanWellFounded DEF OpToRel
<1> HIDE DEF Less
<1>2. PICK x \in T : \A y \in T : ~ (<<y, x>> \in Less)
  BY <1>1, WFMin
<1>3. \A y \in T : ~ (y < x)
  BY <1>2 DEF Less
<1> QED BY <1>3

(* A set that has 0 and the successor of each of its naturals has them all. *)
LEMMA Induction ==
  ASSUME NEW T, 0 \in T, \A n \in Nat : n \in T => n + 1 \in T
  PROVE  Nat \subseteq T
<1> SUFFICES ASSUME Nat \ T # {} PROVE FALSE
  OBVIOUS
<1>1. PICK x \in Nat \ T : \A y \in Nat \ T : x <= y
  BY LeastNat
<1>2. x - 1 \in Nat /\ x - 1 \in T
  BY <1>1
<1>3. (x - 1) + 1 = x
  BY <1>1
<1> QED BY <1>1, <1>2, <1>3

(* The functions G[1], G[2] and so on, applied one after the other to x0.  *)
Iterates(f, N, X, x0, G) ==
  f \in [0 .. N -> X] /\ f[0] = x0 /\ \A k \in 1 .. N : f[k] = G[k][f[k - 1]]

LEMMA Iteration ==
  ASSUME NEW N \in Nat, NEW X, NEW x0 \in X, NEW G, G \in [1 .. N -> [X -> X]]
  PROVE  \E f : Iterates(f, N, X, x0, G)
<1> DEFINE T == {n \in Nat : n <= N => \E f : Iterates(f, n, X, x0, G)}
<1>1. 0 \in T
  <2> DEFINE f == [k \in 0 .. 0 |-> x0]
  <2>1. Iterates(f, 0, X, x0, G)
    BY DEF Iterates
  <2> QED BY <2>1
<1>2. ASSUME NEW n \in Nat, n \in T PROVE n + 1 \in T
  <2> SUFFICES ASSUME n + 1 <= N PROVE \E f : Iterates(f, n + 1, X, x0, G)
    OBVIOUS
  <2>1. PICK f : Iterates(f, n, X, x0, G)
    BY <1>2
  <2> DEFINE g == [k \in 0 .. n + 1 |-> IF k = n + 1 THEN G[n + 1][f[n]] ELSE f[k]]
  <2>2. G[n + 1] \in [X -> X] /\ f[n] \in X
    BY <2>1 DEF Iterates
  <2>3. g \in [0 .. n + 1 -> X]
    BY <2>1, <2>2 DEF Iterates
  <2>4. ASSUME NEW k \in 1 .. n + 1 PROVE g[k] = G[k][g[k - 1]]
    <3>1. CASE k = n + 1
      BY <3>1
    <3>2. CASE k # n + 1
      <4>1. k \in 1 .. n /\ k - 1 \in 0 .. n /\ k - 1 # n + 1 /\ k \in 0 .. n + 1 /\ k - 1 \in 0 .. n + 1
        BY <3>2
      <4> QED BY <2>1, <3>2, <4>1 DEF Iterates
    <3> QED BY <3>1, <3>2
  <2>5. g[0] = x0
    BY <2>1 DEF Iterates
  <2> HIDE DEF g
  <2> QED BY <2>3, <2>4, <2>5 DEF Iterates
<1> HIDE DEF T
<1>3. N \in T
  BY <1>1, <1>2, Induction
<1> QED BY <1>3 DEF T

(* There are no two ways to iterate: what starts equal stays equal.        *)
StayEqual(f, g, N) ==
  f[0] = g[0] /\ \A k \in 1 .. N : f[k - 1] = g[k - 1] => f[k] = g[k]

AreEqual(f, g, N) == \A k \in 0 .. N : f[k] = g[k]

LEMMA SameIteration ==
  ASSUME NEW N \in Nat, NEW f, NEW g, StayEqual(f, g, N)
  PROVE  AreEqual(f, g, N)
<1> DEFINE T == {k \in Nat : k <= N => f[k] = g[k]}
<1>1. 0 \in T
  BY DEF StayEqual
<1>2. ASSUME NEW n \in Nat, n \in T PROVE n + 1 \in T
  <2>1. n + 1 \in Nat /\ (n + 1) - 1 = n /\ (n + 1 <= N => n <= N /\ n + 1 \in 1 .. N)
    OBVIOUS
  <2> QED BY <1>2, <2>1 DEF StayEqual
<1> HIDE DEF T
<1>3. Nat \subseteq T
  BY <1>1, <1>2, Induction
<1> QED BY <1>3 DEF T, AreEqual

(* The same for as many iterations as there are naturals.                  *)
IteratesOnNat(f, X, x0, G) ==
  f \in [Nat -> X] /\ f[0] = x0 /\ \A k \in Nat \ {0} : f[k] = G[k][f[k - 1]]

LEMMA IterationOnNat ==
  ASSUME NEW X, NEW x0 \in X, NEW G, G \in [Nat \ {0} -> [X -> X]]
  PROVE  \E f : IteratesOnNat(f, X, x0, G)
<1> DEFINE upto(N) == CHOOSE f : Iterates(f, N, X, x0, G)
           all == [N \in Nat |-> upto(N)[N]]
<1>1. ASSUME NEW N \in Nat PROVE Iterates(upto(N), N, X, x0, G)
  <2> DEFINE H == [k \in 1 .. N |-> G[k]]
  <2>1. H \in [1 .. N -> [X -> X]] /\ \A k \in 1 .. N : H[k] = G[k]
    OBVIOUS
  <2> HIDE DEF H
  <2>2. PICK f : Iterates(f, N, X, x0, H)
    BY <2>1, Iteration
  <2>3. Iterates(f, N, X, x0, G)
    BY <2>1, <2>2 DEF Iterates
  <2> QED BY <2>3
<1> HIDE DEF upto
<1>2. ASSUME NEW N \in Nat PROVE upto(N + 1)[N] = upto(N)[N]
  <2> DEFINE f == upto(N + 1)  g == upto(N)
  <2>1. StayEqual(f, g, N)
    <3>1. N + 1 \in Nat /\ \A k \in 1 .. N : k \in 1 .. N + 1
      OBVIOUS
    <3>2. Iterates(f, N + 1, X, x0, G) /\ Iterates(g, N, X, x0, G)
      BY <1>1, <3>1
    <3> QED BY <3>1, <3>2 DEF Iterates, StayEqual
  <2> HIDE DEF f, g
  <2>2. AreEqual(f, g, N)
    BY <2>1, SameIteration
  <2> QED BY <2>2 DEF f, g, AreEqual
<1>3. all \in [Nat -> X]
  BY <1>1 DEF Iterates
<1>4. all[0] = x0
  BY <1>1 DEF Iterates
<1>5. ASSUME NEW k \in Nat \ {0} PROVE all[k] = G[k][all[k - 1]]
  <2>1. k - 1 \in Nat /\ (k - 1) + 1 = k /\ k \in 1 .. k
    OBVIOUS
  <2>2. upto(k)[k - 1] = upto(k - 1)[k - 1]
    BY <1>2, <2>1
  <2> QED BY <1>1, <2>1, <2>2 DEF Iterates
<1> HIDE DEF all
<1> QED BY <1>3, <1>4, <1>5 DEF IteratesOnNat

=============================================================================
