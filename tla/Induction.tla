------------------------------ MODULE Induction ------------------------------
(***************************************************************************)
(* Induction on the natural numbers, stated for sets.  The theorems of the *)
(* library take a predicate as a parameter, which the provers do not       *)
(* instantiate; the set of the numbers that have a property will do.       *)
(***************************************************************************)
EXTENDS Integers, TLAPS, WellFoundedInduction

(* A set of natural numbers that is not empty has a least element.         *)
LEMMA LeastElement ==
    ASSUME NEW S, S \subseteq Nat, S # {}
    PROVE  \E n \in S : \A m \in S : n <= m
<1> DEFINE R == {pair \in Nat \X Nat : pair[1] < pair[2]}
<1>1. OpToRel(<, Nat) = R
    BY DEF OpToRel
<1>2. IsWellFoundedOn(R, Nat)
    BY <1>1, NatLessThanWellFounded
<1>3. PICK n \in S : \A m \in S : <<m, n>> \notin R
    <2> HIDE DEF R
    <2> QED BY <1>2, WFMin
<1>4. \A m \in S : ~(m < n)
    BY <1>3
<1> QED
    BY <1>4, n \in Nat

(* What holds of 0, and of n + 1 if it holds of n, holds of every number.  *)
LEMMA NatInductive ==
    ASSUME NEW S, 0 \in S, \A n \in Nat : n \in S => n + 1 \in S
    PROVE  Nat \subseteq S
<1> SUFFICES ASSUME ~(Nat \subseteq S) PROVE FALSE
    OBVIOUS
<1> DEFINE T == {n \in Nat : n \notin S}
<1>1. T # {} /\ T \subseteq Nat
    OBVIOUS
<1>2. PICK n \in T : \A m \in T : n <= m
    <2> HIDE DEF T
    <2> QED BY <1>1, LeastElement
<1>3. n \in Nat /\ n \notin S /\ n # 0
    BY <1>2
<1>4. n - 1 \in Nat /\ n - 1 \notin T
    BY <1>2, <1>3
<1>5. n - 1 \in S
    BY <1>4
<1> QED
    BY <1>3, <1>4, <1>5, n - 1 + 1 = n

(***************************************************************************)
(* Functions that are defined by recursion.  G stands for the equation of  *)
(* the definition, and a value depends on those of a smaller rank only.    *)
(***************************************************************************)
Contractive(S, V, rank, G) ==
    /\ rank \in [S -> Nat]
    /\ G \in [[S -> V] -> [S -> V]]
    /\ \A f, g \in [S -> V], s \in S :
          (\A r \in S : rank[r] < rank[s] => f[r] = g[r]) => G[f][s] = G[g][s]

(* f satisfies the equation for what has a smaller rank than n.            *)
SolvesBelow(S, rank, G, f, n) == \A s \in S : rank[s] < n => f[s] = G[f][s]

LEMMA SolutionsAgree ==
    ASSUME NEW S, NEW V, NEW rank, NEW G, Contractive(S, V, rank, G), NEW n \in Nat,
           NEW f \in [S -> V], NEW g \in [S -> V],
           SolvesBelow(S, rank, G, f, n), SolvesBelow(S, rank, G, g, n)
    PROVE  \A s \in S : rank[s] < n => f[s] = g[s]
<1> DEFINE Agree == {m \in Nat : m <= n => \A s \in S : rank[s] < m => f[s] = g[s]}
<1>1. rank \in [S -> Nat]
    BY DEF Contractive
<1>2. 0 \in Agree
    BY <1>1
<1>3. ASSUME NEW m \in Nat, m \in Agree
      PROVE  m + 1 \in Agree
    <2> SUFFICES ASSUME m + 1 <= n, NEW s \in S, rank[s] < m + 1
                 PROVE  f[s] = g[s]
        OBVIOUS
    <2>1. rank[s] \in Nat /\ rank[s] < n /\ m <= n
        BY <1>1
    <2>2. \A r \in S : rank[r] < rank[s] => f[r] = g[r]
        BY <1>1, <1>3, <2>1
    <2>3. G[f][s] = G[g][s]
        BY <2>2 DEF Contractive
    <2> QED
        BY <2>1, <2>3 DEF SolvesBelow
<1>4. n \in Agree
    <2> HIDE DEF Agree
    <2> QED BY <1>2, <1>3, NatInductive
<1> QED
    BY <1>4

(* There is such a function.                                               *)
LEMMA Recursion ==
    ASSUME NEW S, NEW V, V # {}, NEW rank, NEW G, Contractive(S, V, rank, G)
    PROVE  \E f \in [S -> V] : \A s \in S : f[s] = G[f][s]
<1> DEFINE Solved == {n \in Nat : \E f \in [S -> V] : SolvesBelow(S, rank, G, f, n)}
           chosen(n) == CHOOSE f \in [S -> V] : SolvesBelow(S, rank, G, f, n)
           glued == [s \in S |-> chosen(rank[s] + 1)[s]]
<1>1. rank \in [S -> Nat] /\ G \in [[S -> V] -> [S -> V]]
    BY DEF Contractive
<1>2. 0 \in Solved
    <2>1. PICK v \in V : TRUE
        OBVIOUS
    <2>2. [s \in S |-> v] \in [S -> V]
        OBVIOUS
    <2>3. SolvesBelow(S, rank, G, [s \in S |-> v], 0)
        BY <1>1 DEF SolvesBelow
    <2> QED
        BY <2>2, <2>3
<1>3. ASSUME NEW n \in Nat, n \in Solved
      PROVE  n + 1 \in Solved
    <2>1. PICK f \in [S -> V] : SolvesBelow(S, rank, G, f, n)
        BY <1>3
    <2>2. G[f] \in [S -> V]
        BY <1>1
    <2>3. ASSUME NEW s \in S, rank[s] < n + 1
          PROVE  G[f][s] = G[G[f]][s]
        <3>1. \A r \in S : rank[r] < rank[s] => f[r] = G[f][r]
            BY <1>1, <2>1, <2>3 DEF SolvesBelow
        <3> QED
            BY <2>2, <3>1 DEF Contractive
    <2>4. SolvesBelow(S, rank, G, G[f], n + 1)
        BY <2>3 DEF SolvesBelow
    <2> QED
        BY <2>2, <2>4
<1>4. Nat \subseteq Solved
    <2> HIDE DEF Solved
    <2> QED BY <1>2, <1>3, NatInductive
<1>5. ASSUME NEW n \in Nat
      PROVE  chosen(n) \in [S -> V] /\ SolvesBelow(S, rank, G, chosen(n), n)
    BY <1>4
<1> HIDE DEF chosen
<1>6. glued \in [S -> V]
    BY <1>1, <1>5
<1>7. ASSUME NEW s \in S
      PROVE  glued[s] = G[glued][s]
    <2> DEFINE n == rank[s] + 1
               f == chosen(n)
    <2>1. n \in Nat /\ rank[s] < n /\ rank[s] \in Nat
        BY <1>1
    <2>2. f \in [S -> V] /\ SolvesBelow(S, rank, G, f, n)
        BY <1>5, <2>1
    <2>3. ASSUME NEW r \in S, rank[r] < rank[s]
          PROVE  glued[r] = f[r]
        <3>1. rank[r] \in Nat /\ rank[r] + 1 \in Nat /\ rank[r] < rank[r] + 1
            BY <1>1
        <3>2. /\ chosen(rank[r] + 1) \in [S -> V]
              /\ SolvesBelow(S, rank, G, chosen(rank[r] + 1), rank[r] + 1)
            BY <1>5, <3>1
        <3>3. SolvesBelow(S, rank, G, f, rank[r] + 1)
            BY <1>1, <2>1, <2>2, <2>3, <3>1 DEF SolvesBelow
        <3>4. chosen(rank[r] + 1)[r] = f[r]
            <4> HIDE DEF f
            <4> QED BY <2>2, <3>1, <3>2, <3>3, SolutionsAgree
        <3> QED
            BY <3>4
    <2>4. G[glued][s] = G[f][s]
        <3> HIDE DEF glued, f
        <3> QED BY <1>6, <2>2, <2>3 DEF Contractive
    <2>5. f[s] = G[f][s]
        BY <2>1, <2>2 DEF SolvesBelow
    <2>6. glued[s] = f[s]
        OBVIOUS
    <2> QED
        BY <2>4, <2>5, <2>6
<1> QED
    BY <1>6, <1>7

(* Two functions are equal where every value follows from those of a       *)
(* smaller rank.                                                           *)
SameByRank(S, rank, f, g) ==
    \A s \in S : (\A r \in S : rank[r] < rank[s] => f[r] = g[r]) => f[s] = g[s]

LEMMA AgreeByRank ==
    ASSUME NEW S, NEW rank \in [S -> Nat], NEW f, NEW g, SameByRank(S, rank, f, g)
    PROVE  \A s \in S : f[s] = g[s]
<1> DEFINE Agree == {n \in Nat : \A s \in S : rank[s] < n => f[s] = g[s]}
<1>1. 0 \in Agree
    OBVIOUS
<1>2. ASSUME NEW n \in Nat, n \in Agree
      PROVE  n + 1 \in Agree
    <2> SUFFICES ASSUME NEW s \in S, rank[s] < n + 1
                 PROVE  f[s] = g[s]
        OBVIOUS
    <2>1. \A r \in S : rank[r] < rank[s] => rank[r] < n
        OBVIOUS
    <2> QED
        BY <1>2, <2>1 DEF SameByRank
<1>3. Nat \subseteq Agree
    <2> HIDE DEF Agree
    <2> QED BY <1>1, <1>2, NatInductive
<1>4. \A s \in S : rank[s] + 1 \in Nat /\ rank[s] < rank[s] + 1
    OBVIOUS
<1> QED
    BY <1>3, <1>4
=============================================================================
