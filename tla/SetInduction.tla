----------------------------- MODULE SetInduction -----------------------------
(***************************************************************************)
(* Induction over the natural numbers and recursive definitions, with sets *)
(* and functions in the place of predicates and operators.                 *)
(***************************************************************************)
EXTENDS Integers, WellFoundedInduction, TLAPS

Below == {pair \in Nat \X Nat : pair[1] < pair[2]}

(* No sequence of natural numbers falls for ever. *)
LEMMA BelowWellFounded == IsWellFoundedOn(Below, Nat)
BY NatLessThanWellFounded DEF OpToRel, Below

(* A set of natural numbers has a least element. *)
LEMMA LeastElement ==
  ASSUME NEW S, S \subseteq Nat, S # {} PROVE \E x \in S : \A y \in S : x <= y
<1>1. PICK x \in S : \A y \in S : ~ (<<y, x>> \in Below)
  BY BelowWellFounded, WFMin
<1>2. \A y \in S : ~(y < x)
  BY <1>1 DEF Below
<1> QED BY <1>2

(* A bounded one has a greatest element. *)
LEMMA GreatestElement ==
  ASSUME NEW n \in Nat, NEW S, S \subseteq 0 .. n, S # {}
  PROVE  \E x \in S : \A y \in S : x >= y
<1> DEFINE mirrored == {n - x : x \in S}
<1>1. \A x \in S : x \in Nat /\ n - x \in Nat
  OBVIOUS
<1>2. mirrored \subseteq Nat
  BY <1>1
<1>3. PICK any \in S : TRUE
  OBVIOUS
<1>4. n - any \in mirrored
  OBVIOUS
<1>5. mirrored # {}
  BY <1>4
<1>6. PICK m \in mirrored : \A l \in mirrored : m <= l
  <2> HIDE DEF mirrored
  <2> QED BY <1>2, <1>5, LeastElement
<1>7. PICK x \in S : m = n - x
  OBVIOUS
<1>8. \A y \in S : n - x <= n - y
  BY <1>6, <1>7
<1> QED BY <1>1, <1>8

(* A set that holds zero, and with each number the next, holds all. *)
THEOREM SetInduction ==
  ASSUME NEW S, 0 \in S, \A n \in Nat : n \in S => n + 1 \in S
  PROVE  Nat \subseteq S
<1> SUFFICES ASSUME ~(Nat \subseteq S) PROVE FALSE
  OBVIOUS
<1> DEFINE T == Nat \ S
<1>1. PICK x \in T : \A y \in T : x <= y
  BY LeastElement
<1>2. x # 0 /\ x - 1 \in Nat
  OBVIOUS
<1>3. x - 1 \in S
  BY <1>1, <1>2
<1> QED BY <1>2, <1>3

(* What S holds below an x of D brings x into S. *)
Rises(D, rank, S) ==
  /\ rank \in [D -> Nat]
  /\ \A x \in D : (\A y \in D : rank[y] < rank[x] => y \in S) => x \in S

(* An element of D follows once all those of lower rank have been shown. *)
THEOREM RankInduction ==
  ASSUME NEW D, NEW rank, NEW S, Rises(D, rank, S)
  PROVE  D \subseteq S
<1> USE DEF Rises
<1> DEFINE T == {k \in Nat : \A x \in D : rank[x] < k => x \in S}
<1>1. 0 \in T
  OBVIOUS
<1>2. ASSUME NEW k \in Nat, k \in T PROVE k + 1 \in T
  <2> SUFFICES ASSUME NEW x \in D, rank[x] < k + 1 PROVE x \in S
    OBVIOUS
  <2>1. \A y \in D : rank[y] < rank[x] => rank[y] < k
    OBVIOUS
  <2>2. \A y \in D : rank[y] < rank[x] => y \in S
    BY <1>2, <2>1
  <2> QED BY <2>2
<1> HIDE DEF T
<1>3. Nat \subseteq T
  BY <1>1, <1>2, SetInduction
<1>4. ASSUME NEW x \in D PROVE x \in S
  <2>1. rank[x] + 1 \in Nat /\ rank[x] < rank[x] + 1
    OBVIOUS
  <2> QED BY <1>3, <2>1 DEF T
<1> QED BY <1>4

(* What a recursive function on D is to be at x, said of it at the x of a rank
   below k: step[g] is the body of its definition, with g for the function. *)
Solves(D, rank, step, g, k) == \A x \in D : rank[x] < k => g[x] = step[g][x]

(* step[g] at x says nothing of g but below x. *)
Falls(D, V, rank, step) ==
  \A g, h \in [D -> V] : \A x \in D :
    (\A y \in D : rank[y] < rank[x] => g[y] = h[y]) => step[g][x] = step[h][x]

(* Up to any rank there is such a function. *)
LEMMA Approximation ==
  ASSUME NEW D, NEW V, V # {}, NEW rank \in [D -> Nat],
         NEW step \in [[D -> V] -> [D -> V]], Falls(D, V, rank, step)
  PROVE  \A k \in Nat : \E g \in [D -> V] : Solves(D, rank, step, g, k)
<1> DEFINE S == {k \in Nat : \E g \in [D -> V] : Solves(D, rank, step, g, k)}
<1>0. \A x \in D : rank[x] \in Nat
  OBVIOUS
<1>1. 0 \in S
  <2>1. PICK v \in V : TRUE
    OBVIOUS
  <2>2. [x \in D |-> v] \in [D -> V]
    OBVIOUS
  <2>3. Solves(D, rank, step, [x \in D |-> v], 0)
    BY <1>0 DEF Solves
  <2> QED BY <2>2, <2>3
<1>2. ASSUME NEW k \in Nat, k \in S PROVE k + 1 \in S
  <2>1. PICK g \in [D -> V] : Solves(D, rank, step, g, k)
    BY <1>2
  <2> DEFINE h == [x \in D |-> IF rank[x] <= k THEN step[g][x] ELSE g[x]]
  <2>2. h \in [D -> V]
    OBVIOUS
  <2>3. \A x \in D : rank[x] < k => h[x] = g[x]
    BY <1>0, <2>1 DEF Solves
  <2>4. ASSUME NEW x \in D, rank[x] < k + 1 PROVE h[x] = step[h][x]
    <3>1. rank[x] <= k
      BY <1>0, <2>4
    <3>2. \A y \in D : rank[y] < rank[x] => rank[y] < k
      BY <1>0, <3>1
    <3>3. h[x] = step[g][x]
      BY <3>1
    <3> HIDE DEF h
    <3>4. \A y \in D : rank[y] < rank[x] => h[y] = g[y]
      BY <2>3, <3>2
    <3>5. step[h][x] = step[g][x]
      BY <2>2, <3>4 DEF Falls
    <3> QED BY <3>3, <3>5
  <2> HIDE DEF h
  <2>5. Solves(D, rank, step, h, k + 1)
    BY <2>4 DEF Solves
  <2>6. \E f \in [D -> V] : Solves(D, rank, step, f, k + 1)
    BY <2>2, <2>5
  <2> QED BY <2>6
<1> HIDE DEF S
<1>3. Nat \subseteq S
  BY <1>1, <1>2, SetInduction
<1> QED BY <1>3 DEF S

(* Two of them agree where both have been said. *)
Agree(D, V, rank, step) ==
  \A k, l \in Nat : \A g, h \in [D -> V] :
    Solves(D, rank, step, g, k) /\ Solves(D, rank, step, h, l)
      => \A x \in D : rank[x] < k /\ rank[x] < l => g[x] = h[x]

LEMMA Agreement ==
  ASSUME NEW D, NEW V, NEW rank \in [D -> Nat],
         NEW step \in [[D -> V] -> [D -> V]], Falls(D, V, rank, step)
  PROVE  Agree(D, V, rank, step)
<1> SUFFICES ASSUME NEW k \in Nat, NEW l \in Nat, NEW g \in [D -> V], NEW h \in [D -> V],
                    Solves(D, rank, step, g, k), Solves(D, rank, step, h, l)
             PROVE  \A x \in D : rank[x] < k /\ rank[x] < l => g[x] = h[x]
  BY DEF Agree
<1> DEFINE S == {x \in D : rank[x] < k /\ rank[x] < l => g[x] = h[x]}
<1>1. ASSUME NEW x \in D, \A y \in D : rank[y] < rank[x] => y \in S PROVE x \in S
  <2> SUFFICES ASSUME rank[x] < k, rank[x] < l PROVE g[x] = h[x]
    OBVIOUS
  <2>1. \A y \in D : rank[y] < rank[x] => rank[y] < k /\ rank[y] < l
    OBVIOUS
  <2>2. \A y \in D : rank[y] < rank[x] => g[y] = h[y]
    BY <1>1, <2>1
  <2>3. step[g][x] = step[h][x]
    BY <2>2 DEF Falls
  <2> QED BY <2>3 DEF Solves
<1> HIDE DEF S
<1>2. Rises(D, rank, S)
  BY <1>1 DEF Rises
<1>3. D \subseteq S
  BY <1>2, RankInduction
<1> QED BY <1>3 DEF S

(* What makes a definition of a function on D with values in V well defined. *)
WellDefined(D, V, rank, step) ==
  /\ V # {}
  /\ rank \in [D -> Nat]
  /\ step \in [[D -> V] -> [D -> V]]
  /\ Falls(D, V, rank, step)

(* A recursive definition defines a function: its body at x takes the function
   at lower ranks, whatever D, its ranks and the values V are. *)
THEOREM Recursion ==
  ASSUME NEW D, NEW V, NEW rank, NEW step, WellDefined(D, V, rank, step)
  PROVE  \E f \in [D -> V] : f = step[f]
<1> USE DEF WellDefined
<1> DEFINE G(k) == CHOOSE g \in [D -> V] : Solves(D, rank, step, g, k)
           f == [x \in D |-> G(rank[x] + 1)[x]]
<1>1. \A k \in Nat : G(k) \in [D -> V] /\ Solves(D, rank, step, G(k), k)
  BY Approximation
<1> HIDE DEF G
<1>a. Agree(D, V, rank, step)
  BY Agreement
<1>2. \A x \in D : rank[x] \in Nat /\ rank[x] + 1 \in Nat /\ rank[x] < rank[x] + 1
  OBVIOUS
<1>3. f \in [D -> V]
  BY <1>1, <1>2
<1>4. ASSUME NEW x \in D PROVE f[x] = step[f][x]
  <2> DEFINE g == G(rank[x] + 1)
  <2>1. g \in [D -> V] /\ Solves(D, rank, step, g, rank[x] + 1)
    BY <1>1, <1>2
  <2>2. f[x] = g[x]
    OBVIOUS
  <2>3. g[x] = step[g][x]
    BY <1>2, <2>1 DEF Solves
  <2>4. ASSUME NEW y \in D, rank[y] < rank[x] PROVE f[y] = g[y]
    <3>1. rank[y] + 1 \in Nat /\ rank[y] < rank[y] + 1 /\ rank[y] < rank[x] + 1
          /\ rank[x] + 1 \in Nat
      BY <2>4, <1>2
    <3>2. G(rank[y] + 1) \in [D -> V]
          /\ Solves(D, rank, step, G(rank[y] + 1), rank[y] + 1)
      BY <1>1, <3>1
    <3>3. G(rank[y] + 1)[y] = g[y]
      <4> HIDE DEF g, f
      <4> QED BY <1>a, <2>1, <3>1, <3>2 DEF Agree
    <3> QED BY <3>3
  <2> HIDE DEF f, g
  <2>5. step[f][x] = step[g][x]
    BY <1>3, <2>1, <2>4 DEF Falls
  <2> QED BY <2>2, <2>3, <2>5
<1> HIDE DEF f
<1>5. step[f] \in [D -> V]
  BY <1>3
<1>6. f = step[f]
  BY <1>3, <1>4, <1>5
<1> QED BY <1>3, <1>6
=============================================================================
