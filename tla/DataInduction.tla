---------------------------- MODULE DataInduction ----------------------------
(***************************************************************************)
(* Facts about numbers, sums, sequences and recursive functions that the   *)
(* proofs about the pages cite.  Induction is over a set here: what holds  *)
(* of a number or a node is that it is in the set.                         *)
(***************************************************************************)
EXTENDS Integers, SequencesExt, FiniteSetTheorems, SequenceTheorems,
        WellFoundedInduction, TLAPS

-----------------------------------------------------------------------------
(* Induction. *)

(* A non-empty set of naturals has a least element. *)
LEMMA LeastElement ==
    ASSUME NEW T \in SUBSET Nat, T # {}
    PROVE  \E x \in T : \A y \in T : x <= y
<1>1. IsWellFoundedOn(OpToRel(<, Nat), Nat)
    BY NatLessThanWellFounded
<1>2. \E x \in T : \A y \in T : ~(<<y, x>> \in OpToRel(<, Nat))
    BY <1>1, WFMin
<1>3. \E x \in T : \A y \in T : ~(y < x)
    BY <1>2 DEF OpToRel
<1> QED BY <1>3

(* A non-empty set of naturals with a bound has a greatest element. *)
LEMMA GreatestElement ==
    ASSUME NEW N \in Nat, NEW T \in SUBSET (0 .. N), T # {}
    PROVE  \E x \in T : \A y \in T : y <= x
<1> DEFINE Bounds == {n \in Nat : \A y \in T : y <= n}
<1>1. Bounds \in SUBSET Nat /\ N \in Bounds
    OBVIOUS
<1>2. PICK n \in Bounds : \A m \in Bounds : n <= m
    BY <1>1, LeastElement
<1>3. n \in T
    <2> SUFFICES ASSUME n \notin T PROVE FALSE
        OBVIOUS
    <2>1. n \in Nat /\ \A y \in T : y <= n
        BY <1>2
    <2>2. \A y \in T : y \in Nat /\ y <= n - 1
        BY <2>1
    <2>3. n - 1 \in Nat
        <3>1. PICK y \in T : TRUE
            OBVIOUS
        <3> QED BY <2>1, <2>2, <3>1
    <2>4. n - 1 \in Bounds
        BY <2>2, <2>3
    <2> QED BY <1>2, <2>1, <2>4
<1> QED BY <1>2, <1>3

\* induction, with a set for the statement
LEMMA SetInduction ==
    ASSUME NEW W, 0 \in W, \A n \in Nat : n \in W => n + 1 \in W
    PROVE  Nat \subseteq W
<1> SUFFICES ASSUME Nat \ W # {} PROVE FALSE
    OBVIOUS
<1>1. PICK x \in Nat \ W : \A y \in Nat \ W : x <= y
    BY LeastElement
<1>2. x - 1 \in Nat /\ x - 1 \in W
    BY <1>1
<1> QED BY <1>1, <1>2

\* induction over the elements of N, each after those of lower rank
LEMMA RankInduction ==
    ASSUME NEW N, NEW rank \in [N -> Nat], NEW W,
           \A x \in N : (\A y \in N : rank[y] < rank[x] => y \in W) => x \in W
    PROVE  N \subseteq W
<1> SUFFICES ASSUME NEW x \in N, x \notin W PROVE FALSE
    OBVIOUS
<1> DEFINE T == {rank[y] : y \in N \ W}
<1>1. T \in SUBSET Nat /\ rank[x] \in T
    OBVIOUS
<1>2. PICK r \in T : \A s \in T : r <= s
    BY <1>1, LeastElement
<1>3. PICK y \in N \ W : rank[y] = r
    OBVIOUS
<1>4. \A z \in N : rank[z] < rank[y] => z \in W
    BY <1>1, <1>2, <1>3
<1> QED BY <1>3, <1>4

(***************************************************************************)
(* A recursive function over N is there if its value at x, given by step,  *)
(* depends on its values at elements of lower rank only.                   *)
(***************************************************************************)
StepByRank(N, rank, V, step) ==
    /\ rank \in [N -> Nat] /\ V # {} /\ step \in [N \X [N -> V] -> V]
    /\ \A x \in N, g, h \in [N -> V] :
            (\A y \in N : rank[y] < rank[x] => g[y] = h[y])
            => step[<<x, g>>] = step[<<x, h>>]

(* A function defined from its values at elements of smaller rank exists. *)
LEMMA Recursion ==
    ASSUME NEW N, NEW rank, NEW V, NEW step, StepByRank(N, rank, V, step)
    PROVE  \E f \in [N -> V] : \A x \in N : f[x] = step[<<x, f>>]
<1>0. /\ rank \in [N -> Nat] /\ V # {} /\ step \in [N \X [N -> V] -> V]
      /\ \A x \in N, g, h \in [N -> V] :
            (\A y \in N : rank[y] < rank[x] => g[y] = h[y])
            => step[<<x, g>>] = step[<<x, h>>]
    BY DEF StepByRank
<1> USE <1>0
<1> DEFINE Solves(f, n) == \A x \in N : rank[x] < n => f[x] = step[<<x, f>>]
           W == {n \in Nat : \E f \in [N -> V] : Solves(f, n)}
<1>1. 0 \in W
    <2>1. PICK v \in V : TRUE
        OBVIOUS
    <2>2. [x \in N |-> v] \in [N -> V] /\ Solves([x \in N |-> v], 0)
        BY <2>1
    <2> QED BY <2>2
<1>2. \A n \in Nat : \A f, g \in [N -> V] :
        Solves(f, n) /\ Solves(g, n) => \A x \in N : rank[x] < n => f[x] = g[x]
    <2> SUFFICES ASSUME NEW n \in Nat, NEW f \in [N -> V], NEW g \in [N -> V],
                        Solves(f, n), Solves(g, n)
                 PROVE  \A x \in N : rank[x] < n => f[x] = g[x]
        OBVIOUS
    <2> DEFINE A == {x \in N : rank[x] < n => f[x] = g[x]}
    <2>1. ASSUME NEW x \in N, \A y \in N : rank[y] < rank[x] => y \in A
          PROVE  x \in A
        <3> SUFFICES ASSUME rank[x] < n PROVE f[x] = g[x]
            OBVIOUS
        <3>1. \A y \in N : rank[y] < rank[x] => f[y] = g[y]
            BY <2>1
        <3> QED BY <3>1
    <2> HIDE DEF A
    <2>2. N \subseteq A
        BY <2>1, RankInduction
    <2> QED BY <2>2 DEF A
<1>3. ASSUME NEW n \in Nat, n \in W PROVE n + 1 \in W
    <2>1. PICK f \in [N -> V] : Solves(f, n)
        BY <1>3
    <2> DEFINE g == [x \in N |-> step[<<x, f>>]]
    <2>2. g \in [N -> V]
        OBVIOUS
    <2>3. \A x \in N : rank[x] < n => g[x] = f[x]
        BY <2>1
    <2>4. Solves(g, n + 1)
        <3> SUFFICES ASSUME NEW x \in N, rank[x] < n + 1 PROVE g[x] = step[<<x, g>>]
            OBVIOUS
        <3>1. \A y \in N : rank[y] < rank[x] => f[y] = g[y]
            BY <2>3
        <3> HIDE DEF g
        <3>2. step[<<x, f>>] = step[<<x, g>>]
            BY <2>2, <3>1
        <3> QED BY <3>2 DEF g
    <2> HIDE DEF g
    <2> QED BY <2>2, <2>4
<1> HIDE DEF W
<1>4. Nat \subseteq W
    BY <1>1, <1>3, SetInduction
<1>5. \A n \in Nat : \E f \in [N -> V] : Solves(f, n)
    BY <1>4 DEF W
<1> DEFINE at(n) == CHOOSE f : f \in [N -> V] /\ Solves(f, n)
           F == [x \in N |-> at(rank[x] + 1)[x]]
<1>6. ASSUME NEW n \in Nat PROVE at(n) \in [N -> V] /\ Solves(at(n), n)
    <2> HIDE DEF Solves
    <2>1. \E f : f \in [N -> V] /\ Solves(f, n)
        BY <1>5
    <2> QED BY <2>1
<1>7. F \in [N -> V]
    <2> SUFFICES ASSUME NEW x \in N PROVE at(rank[x] + 1)[x] \in V
        OBVIOUS
    <2>1. rank[x] + 1 \in Nat
        OBVIOUS
    <2> HIDE DEF at, Solves
    <2>2. at(rank[x] + 1) \in [N -> V]
        BY <1>6, <2>1
    <2> QED BY <2>2
<1>8. ASSUME NEW x \in N PROVE F[x] = step[<<x, F>>]
    <2>1. \A y \in N : rank[y] < rank[x] => F[y] = at(rank[x] + 1)[y]
        <3> SUFFICES ASSUME NEW y \in N, rank[y] < rank[x]
                     PROVE  at(rank[y] + 1)[y] = at(rank[x] + 1)[y]
            OBVIOUS
        <3>1. rank[y] + 1 \in Nat /\ rank[x] + 1 \in Nat
            OBVIOUS
        <3>2. Solves(at(rank[x] + 1), rank[y] + 1)
            <4>1. Solves(at(rank[x] + 1), rank[x] + 1)
                BY <1>6, <3>1
            <4>2. \A z \in N : rank[z] < rank[y] + 1 => rank[z] < rank[x] + 1
                BY <3>1
            <4> HIDE DEF at
            <4> QED BY <4>1, <4>2
        <3> HIDE DEF at, Solves
        <3> QED BY <1>2, <1>6, <3>1, <3>2
    <2>2. rank[x] + 1 \in Nat /\ rank[x] < rank[x] + 1
        OBVIOUS
    <2>3. at(rank[x] + 1) \in [N -> V]
        BY <1>6, <2>2
    <2>4. at(rank[x] + 1)[x] = step[<<x, at(rank[x] + 1)>>]
        BY <1>6, <2>2
    <2> HIDE DEF at
    <2>5. F[x] = at(rank[x] + 1)[x]
        OBVIOUS
    <2> HIDE DEF F
    <2>6. step[<<x, F>>] = step[<<x, at(rank[x] + 1)>>]
        BY <1>7, <2>1, <2>3
    <2> QED BY <2>4, <2>5, <2>6
<1> HIDE DEF F
<1> QED BY <1>7, <1>8

\* the values a variable takes in a loop
LEMMA Loop ==
    ASSUME NEW N \in Nat, NEW V, NEW init \in V, NEW step \in [V \X (1 .. N) -> V]
    PROVE  \E F \in [0 .. N -> V] :
              F[0] = init /\ \A i \in 1 .. N : F[i] = step[<<F[i - 1], i>>]
<1> DEFINE Runs(F, n) == F[0] = init /\ \A i \in 1 .. n : F[i] = step[<<F[i - 1], i>>]
           W == {n \in Nat : n <= N => \E F \in [0 .. N -> V] : Runs(F, n)}
<1>1. 0 \in W
    <2> DEFINE F == [i \in 0 .. N |-> init]
    <2>1. F \in [0 .. N -> V] /\ Runs(F, 0)
        OBVIOUS
    <2> QED BY <2>1
<1>2. ASSUME NEW n \in Nat, n \in W PROVE n + 1 \in W
    <2> SUFFICES ASSUME n + 1 <= N PROVE \E F \in [0 .. N -> V] : Runs(F, n + 1)
        OBVIOUS
    <2>1. PICK F \in [0 .. N -> V] : Runs(F, n)
        BY <1>2
    <2> DEFINE K == [F EXCEPT ![n + 1] = step[<<F[n], n + 1>>]]
    <2>2. F[n] \in V /\ step[<<F[n], n + 1>>] \in V
        OBVIOUS
    <2>3. K \in [0 .. N -> V]
        BY <2>2
    <2>4. \A i \in 0 .. n : K[i] = F[i]
        OBVIOUS
    <2>5. K[n + 1] = step[<<K[n], n + 1>>]
        BY <2>4
    <2> HIDE DEF K
    <2>6. Runs(K, n + 1)
        <3>1. K[0] = init
            BY <2>1, <2>4
        <3>2. ASSUME NEW i \in 1 .. n + 1 PROVE K[i] = step[<<K[i - 1], i>>]
            <4>1. CASE i = n + 1
                BY <2>5, <4>1
            <4>2. CASE i # n + 1
                <5>1. i \in 1 .. n /\ i \in 0 .. n /\ i - 1 \in 0 .. n
                    BY <4>2
                <5> QED BY <2>1, <2>4, <5>1
            <4> QED BY <4>1, <4>2
        <3> QED BY <3>1, <3>2
    <2> QED BY <2>3, <2>6
<1> HIDE DEF W
<1>3. N \in W
    BY <1>1, <1>2, SetInduction
<1> QED BY <1>3 DEF W

-----------------------------------------------------------------------------
(* Sums. *)

\* G is the sum of the values of f over every subset of S
Additive(G, f, S) ==
    /\ G \in [SUBSET S -> Nat] /\ G[{}] = 0
    /\ \A T \in SUBSET S : \A x \in T : G[T] = f[x] + G[T \ {x}]

(* Some function on the subsets of a finite set adds f up, one element at a time. *)
LEMMA AdditiveExists ==
    ASSUME NEW S, IsFiniteSet(S), NEW f, \A x \in S : f[x] \in Nat
    PROVE  \E G : Additive(G, f, S)
<1> DEFINE W == {n \in Nat : \A T \in SUBSET S : Cardinality(T) = n
                                => \E G : Additive(G, f, T)}
<1>0. \A T \in SUBSET S : IsFiniteSet(T) /\ Cardinality(T) \in Nat
    BY FS_Subset, FS_CardinalityType
<1>1. 0 \in W
    <2> SUFFICES ASSUME NEW T \in SUBSET S, Cardinality(T) = 0
                 PROVE  \E G : Additive(G, f, T)
        OBVIOUS
    <2>1. T = {}
        BY <1>0, FS_EmptySet
    <2>2. Additive([U \in SUBSET T |-> 0], f, T)
        BY <2>1 DEF Additive
    <2> QED BY <2>2
<1>2. ASSUME NEW n \in Nat, n \in W PROVE n + 1 \in W
    <2> SUFFICES ASSUME NEW T \in SUBSET S, Cardinality(T) = n + 1
                 PROVE  \E G : Additive(G, f, T)
        OBVIOUS
    <2>1. T # {}
        BY FS_EmptySet
    <2>2. PICK z \in T : TRUE
        BY <2>1
    <2> DEFINE R == T \ {z}
    <2>3. R \in SUBSET S /\ Cardinality(R) = n
        <3>1. IsFiniteSet(T)
            BY <1>0
        <3>2. Cardinality(T \ {z}) = Cardinality(T) - 1
            BY <2>2, <3>1, FS_RemoveElement
        <3> QED BY <3>2
    <2>4. PICK G : Additive(G, f, R)
        BY <1>2, <2>3
    <2> DEFINE H == [U \in SUBSET T |-> IF z \in U THEN f[z] + G[U \ {z}] ELSE G[U]]
    <2>5. \A U \in SUBSET T : U \ {z} \in SUBSET R /\ (z \notin U => U \in SUBSET R)
        OBVIOUS
    <2>6. H \in [SUBSET T -> Nat]
        <3>1. \A U \in SUBSET R : G[U] \in Nat
            BY <2>4 DEF Additive
        <3>2. f[z] \in Nat
            BY <2>2
        <3> SUFFICES ASSUME NEW U \in SUBSET T
                     PROVE  (IF z \in U THEN f[z] + G[U \ {z}] ELSE G[U]) \in Nat
            OBVIOUS
        <3>3. G[U \ {z}] \in Nat
            BY <2>5, <3>1
        <3>4. CASE z \in U
            BY <3>2, <3>3, <3>4
        <3>5. CASE z \notin U
            BY <2>5, <3>1, <3>5
        <3> QED BY <3>4, <3>5
    <2>7. H[{}] = 0
        BY <2>4 DEF Additive
    <2>8. ASSUME NEW U \in SUBSET T, NEW x \in U PROVE H[U] = f[x] + H[U \ {x}]
        <3>1. U \ {x} \in SUBSET T
            OBVIOUS
        <3>2. CASE x = z
            <4>1. H[U] = f[z] + G[U \ {z}]
                BY <3>2
            <4>2. H[U \ {z}] = G[U \ {z}]
                BY <3>1, <3>2
            <4> QED BY <3>2, <4>1, <4>2
        <3>3. CASE x # z /\ z \in U
            <4>1. H[U] = f[z] + G[U \ {z}]
                BY <3>3
            <4>2. H[U \ {x}] = f[z] + G[(U \ {x}) \ {z}]
                BY <3>1, <3>3
            <4>3. (U \ {x}) \ {z} = (U \ {z}) \ {x} /\ x \in U \ {z}
                BY <3>3
            <4>7. H[U \ {x}] = f[z] + G[(U \ {z}) \ {x}]
                BY <4>2, <4>3
            <4>4. G[U \ {z}] = f[x] + G[(U \ {z}) \ {x}]
                BY <2>4, <2>5, <4>3 DEF Additive
            <4>5. G[(U \ {z}) \ {x}] \in Nat
                <5>1. (U \ {z}) \ {x} \in SUBSET R
                    OBVIOUS
                <5> QED BY <2>4, <5>1 DEF Additive
            <4>6. f[x] \in Nat /\ f[z] \in Nat
                BY <2>2
            <4> HIDE DEF H
            <4> QED BY <4>1, <4>4, <4>5, <4>6, <4>7
        <3>4. CASE z \notin U
            <4>1. H[U] = G[U]
                BY <3>4
            <4>2. H[U \ {x}] = G[U \ {x}]
                BY <3>1, <3>4
            <4>3. G[U] = f[x] + G[U \ {x}]
                BY <2>4, <2>5, <3>4 DEF Additive
            <4> HIDE DEF H
            <4> QED BY <4>1, <4>2, <4>3
        <3> QED BY <3>2, <3>3, <3>4
    <2> HIDE DEF H
    <2>9. Additive(H, f, T)
        BY <2>6, <2>7, <2>8 DEF Additive
    <2> QED BY <2>9
<1> HIDE DEF W
<1>3. Nat \subseteq W
    BY <1>1, <1>2, SetInduction
<1>4. Cardinality(S) \in W /\ S \in SUBSET S
    BY <1>0, <1>3
<1> QED BY <1>4 DEF W

(* The library's sum over a finite set is the value of such a function. *)
LEMMA SumIsAdditive ==
    ASSUME NEW S, IsFiniteSet(S), NEW f, \A x \in S : f[x] \in Nat
    PROVE  \E G : Additive(G, f, S) /\ SumFunctionOnSet(f, S) = G[S]
<1> DEFINE step(g, T) == IF T = {} THEN 0
                         ELSE LET x == CHOOSE x \in T : TRUE IN f[x] + g[T \ {x}]
           iter == CHOOSE g : g = [T \in SUBSET S |-> step(g, T)]
<1>1. SumFunctionOnSet(f, S) = iter[S]
    BY DEF SumFunctionOnSet, FoldFunctionOnSet, MapThenFoldSet
<1>2. PICK G : Additive(G, f, S)
    BY AdditiveExists
<1>3. G = [T \in SUBSET S |-> step(G, T)]
    <2>1. G = [T \in SUBSET S |-> G[T]]
        BY <1>2 DEF Additive
    <2>2. ASSUME NEW T \in SUBSET S PROVE G[T] = step(G, T)
        <3>1. CASE T = {}
            BY <1>2, <3>1 DEF Additive
        <3>2. CASE T # {}
            <4> DEFINE x == CHOOSE x \in T : TRUE
            <4>1. x \in T
                BY <3>2
            <4> HIDE DEF x
            <4>2. G[T] = f[x] + G[T \ {x}]
                BY <1>2, <4>1 DEF Additive
            <4> QED BY <3>2, <4>2 DEF x
        <3> QED BY <3>1, <3>2
    <2> HIDE DEF step
    <2> QED BY <2>1, <2>2
<1>4. iter = [T \in SUBSET S |-> step(iter, T)]
    <2> HIDE DEF step
    <2> QED BY <1>3
<1> DEFINE W == {n \in Nat : \A T \in SUBSET S : Cardinality(T) = n => iter[T] = G[T]}
<1> HIDE DEF iter
<1>5. \A T \in SUBSET S : IsFiniteSet(T) /\ Cardinality(T) \in Nat
    BY FS_Subset, FS_CardinalityType
<1>6. 0 \in W
    <2> SUFFICES ASSUME NEW T \in SUBSET S, Cardinality(T) = 0 PROVE iter[T] = G[T]
        OBVIOUS
    <2>1. T = {}
        BY <1>5, FS_EmptySet
    <2>2. iter[T] = step(iter, T)
        <3> HIDE DEF step
        <3> QED BY <1>4
    <2> QED BY <1>2, <2>1, <2>2 DEF Additive
<1>7. ASSUME NEW n \in Nat, n \in W PROVE n + 1 \in W
    <2> SUFFICES ASSUME NEW T \in SUBSET S, Cardinality(T) = n + 1 PROVE iter[T] = G[T]
        OBVIOUS
    <2>1. T # {}
        BY FS_EmptySet
    <2>2. iter[T] = step(iter, T)
        <3> HIDE DEF step
        <3> QED BY <1>4
    <2> DEFINE x == CHOOSE x \in T : TRUE
    <2>3. x \in T
        BY <2>1
    <2>4. iter[T] = f[x] + iter[T \ {x}]
        BY <2>1, <2>2
    <2> HIDE DEF x
    <2>5. T \ {x} \in SUBSET S /\ Cardinality(T \ {x}) = n
        <3>1. IsFiniteSet(T)
            BY <1>5
        <3>2. Cardinality(T \ {x}) = Cardinality(T) - 1
            BY <2>3, <3>1, FS_RemoveElement
        <3> QED BY <3>2
    <2>6. iter[T \ {x}] = G[T \ {x}]
        BY <1>7, <2>5
    <2>7. G[T] = f[x] + G[T \ {x}]
        BY <1>2, <2>3 DEF Additive
    <2> QED BY <2>4, <2>6, <2>7
<1> HIDE DEF W
<1>8. Nat \subseteq W
    BY <1>6, <1>7, SetInduction
<1>9. Cardinality(S) \in W /\ S \in SUBSET S
    BY <1>5, <1>8
<1>10. iter[S] = G[S]
    BY <1>9 DEF W
<1> QED BY <1>1, <1>2, <1>10

(* Two such functions agree where the summands do. *)
LEMMA AdditiveUnique ==
    ASSUME NEW S, IsFiniteSet(S), NEW f, NEW g, NEW G, NEW H, NEW T \in SUBSET S,
           Additive(G, f, S), Additive(H, g, T), \A x \in T : f[x] = g[x]
    PROVE  G[T] = H[T]
<1> DEFINE W == {n \in Nat : \A U \in SUBSET T : Cardinality(U) = n => G[U] = H[U]}
<1>1. \A U \in SUBSET T : IsFiniteSet(U) /\ Cardinality(U) \in Nat
    BY FS_Subset, FS_CardinalityType
<1>2. 0 \in W
    <2> SUFFICES ASSUME NEW U \in SUBSET T, Cardinality(U) = 0 PROVE G[U] = H[U]
        OBVIOUS
    <2>1. U = {}
        BY <1>1, FS_EmptySet
    <2> QED BY <2>1 DEF Additive
<1>3. ASSUME NEW n \in Nat, n \in W PROVE n + 1 \in W
    <2> SUFFICES ASSUME NEW U \in SUBSET T, Cardinality(U) = n + 1 PROVE G[U] = H[U]
        OBVIOUS
    <2>1. IsFiniteSet(U) /\ U # {}
        BY <1>1, FS_EmptySet
    <2>2. PICK x \in U : TRUE
        BY <2>1
    <2>3. Cardinality(U \ {x}) = Cardinality(U) - 1
        BY <2>1, <2>2, FS_RemoveElement
    <2>4. G[U \ {x}] = H[U \ {x}]
        BY <1>3, <2>3
    <2>5. G[U] = f[x] + G[U \ {x}] /\ H[U] = g[x] + H[U \ {x}]
        BY <2>2 DEF Additive
    <2> QED BY <2>2, <2>4, <2>5
<1> HIDE DEF W
<1>4. Nat \subseteq W
    BY <1>2, <1>3, SetInduction
<1>5. Cardinality(T) \in W
    BY <1>1, <1>4
<1> QED BY <1>5 DEF W

\* one G gives the sums over all subsets of a finite set
LEMMA SumsOfSubsets ==
    ASSUME NEW S, IsFiniteSet(S), NEW f, \A x \in S : f[x] \in Nat
    PROVE  \E G : /\ Additive(G, f, S)
                  /\ \A T \in SUBSET S : SumFunctionOnSet(f, T) = G[T]
<1>1. PICK G : Additive(G, f, S)
    BY AdditiveExists
<1>2. ASSUME NEW T \in SUBSET S PROVE SumFunctionOnSet(f, T) = G[T]
    <2>1. IsFiniteSet(T) /\ \A x \in T : f[x] \in Nat
        BY FS_Subset
    <2>2. PICK H : Additive(H, f, T) /\ SumFunctionOnSet(f, T) = H[T]
        BY <2>1, SumIsAdditive
    <2>3. G[T] = H[T]
        BY <1>1, <2>2, AdditiveUnique
    <2> QED BY <2>2, <2>3
<1> QED BY <1>1, <1>2

(* The sum over no elements. *)
LEMMA SumOfNone == ASSUME NEW f PROVE SumFunctionOnSet(f, {}) = 0
<1>1. PICK G : Additive(G, f, {}) /\ \A T \in SUBSET {} : SumFunctionOnSet(f, T) = G[T]
    BY FS_EmptySet, SumsOfSubsets
<1> QED BY <1>1 DEF Additive

(* Any element may be taken out of a sum. *)
LEMMA SumElement ==
    ASSUME NEW S, IsFiniteSet(S), NEW f, \A x \in S : f[x] \in Nat
    PROVE  /\ SumFunctionOnSet(f, S) \in Nat
           /\ \A x \in S : SumFunctionOnSet(f, S) = f[x] + SumFunctionOnSet(f, S \ {x})
<1>1. PICK G : Additive(G, f, S) /\ \A T \in SUBSET S : SumFunctionOnSet(f, T) = G[T]
    BY SumsOfSubsets
<1>2. SumFunctionOnSet(f, S) = G[S] /\ G[S] \in Nat
    BY <1>1 DEF Additive
<1>3. ASSUME NEW x \in S
      PROVE  SumFunctionOnSet(f, S) = f[x] + SumFunctionOnSet(f, S \ {x})
    <2>1. S \ {x} \in SUBSET S /\ S \in SUBSET S
        OBVIOUS
    <2>2. SumFunctionOnSet(f, S \ {x}) = G[S \ {x}]
        BY <1>1, <2>1
    <2>3. G[S] = f[x] + G[S \ {x}]
        BY <1>1, <2>1 DEF Additive
    <2> QED BY <1>2, <2>2, <2>3
<1> QED BY <1>2, <1>3

(* A sum depends on its summands only. *)
LEMMA SumSame ==
    ASSUME NEW S, IsFiniteSet(S), NEW f, NEW g,
           \A x \in S : f[x] \in Nat /\ f[x] = g[x]
    PROVE  SumFunctionOnSet(f, S) = SumFunctionOnSet(g, S)
<1>1. PICK G : Additive(G, f, S) /\ \A T \in SUBSET S : SumFunctionOnSet(f, T) = G[T]
    BY SumsOfSubsets
<1>2. \A x \in S : g[x] \in Nat
    OBVIOUS
<1>3. PICK H : Additive(H, g, S) /\ \A T \in SUBSET S : SumFunctionOnSet(g, T) = H[T]
    BY <1>2, SumsOfSubsets
<1>4. S \in SUBSET S
    OBVIOUS
<1>5. G[S] = H[S]
    BY <1>1, <1>3, <1>4, AdditiveUnique
<1> QED BY <1>1, <1>3, <1>4, <1>5

(* A new element adds its summand. *)
LEMMA SumAdded ==
    ASSUME NEW S, IsFiniteSet(S), NEW x, x \notin S, NEW f,
           f[x] \in Nat, \A y \in S : f[y] \in Nat
    PROVE  SumFunctionOnSet(f, S \cup {x}) = SumFunctionOnSet(f, S) + f[x]
<1> DEFINE T == S \cup {x}
<1>1. IsFiniteSet(T) /\ T \ {x} = S /\ x \in T /\ \A y \in T : f[y] \in Nat
    BY FS_AddElement
<1>2. SumFunctionOnSet(f, S) \in Nat
    BY SumElement
<1> HIDE DEF T
<1>3. SumFunctionOnSet(f, T) = f[x] + SumFunctionOnSet(f, T \ {x})
    BY <1>1, SumElement
<1>4. SumFunctionOnSet(f, T) = SumFunctionOnSet(f, S) + f[x]
    BY <1>1, <1>2, <1>3
<1> QED BY <1>4 DEF T

(* The sum over two disjoint sets is the sum of their sums. *)
LEMMA SumDisjoint ==
    ASSUME NEW A, NEW B, IsFiniteSet(A), IsFiniteSet(B), A \cap B = {}, NEW f,
           \A x \in A \cup B : f[x] \in Nat
    PROVE  SumFunctionOnSet(f, A \cup B) = SumFunctionOnSet(f, A) + SumFunctionOnSet(f, B)
<1> DEFINE Sum(T) == SumFunctionOnSet(f, T)
           W == {n \in Nat : \A T \in SUBSET B : Cardinality(T) = n
                                => Sum(A \cup T) = Sum(A) + Sum(T)}
<1>1. \A T \in SUBSET B : IsFiniteSet(T) /\ Cardinality(T) \in Nat
    BY FS_Subset, FS_CardinalityType
<1>2. Sum(A) \in Nat
    BY SumElement
<1>3. 0 \in W
    <2> SUFFICES ASSUME NEW T \in SUBSET B, Cardinality(T) = 0
                 PROVE  Sum(A \cup T) = Sum(A) + Sum(T)
        OBVIOUS
    <2>1. T = {} /\ A \cup T = A
        BY <1>1, FS_EmptySet
    <2>2. Sum(T) = 0
        BY <2>1, SumOfNone
    <2> HIDE DEF Sum
    <2> QED BY <1>2, <2>1, <2>2
<1>4. ASSUME NEW n \in Nat, n \in W PROVE n + 1 \in W
    <2> SUFFICES ASSUME NEW T \in SUBSET B, Cardinality(T) = n + 1
                 PROVE  Sum(A \cup T) = Sum(A) + Sum(T)
        OBVIOUS
    <2>1. IsFiniteSet(T) /\ T # {}
        BY <1>1, FS_EmptySet
    <2>2. PICK x \in T : TRUE
        BY <2>1
    <2>3. IsFiniteSet(T \ {x}) /\ Cardinality(T \ {x}) = Cardinality(T) - 1
        BY <2>1, <2>2, FS_RemoveElement
    <2>4. Sum(A \cup (T \ {x})) = Sum(A) + Sum(T \ {x})
        BY <1>4, <2>3
    <2>5. Sum(T) = f[x] + Sum(T \ {x}) /\ f[x] \in Nat
        <3>1. \A y \in T : f[y] \in Nat
            OBVIOUS
        <3> QED BY <2>1, <2>2, <3>1, SumElement
    <2>6. Sum(T \ {x}) \in Nat
        <3>1. \A y \in T \ {x} : f[y] \in Nat
            OBVIOUS
        <3> QED BY <2>3, <3>1, SumElement
    <2>7. IsFiniteSet(A \cup T) /\ (A \cup T) \ {x} = A \cup (T \ {x})
        BY <2>1, <2>2, FS_Union
    <2>8. Sum(A \cup T) = f[x] + Sum((A \cup T) \ {x})
        <3>1. (\A y \in A \cup T : f[y] \in Nat) /\ x \in A \cup T
            BY <2>2
        <3> QED BY <2>7, <3>1, SumElement
    <2> HIDE DEF Sum
    <2>9. Sum(A \cup T) = f[x] + Sum(A \cup (T \ {x}))
        BY <2>7, <2>8
    <2> QED BY <1>2, <2>4, <2>5, <2>6, <2>9
<1> HIDE DEF W
<1>5. Nat \subseteq W
    BY <1>3, <1>4, SetInduction
<1>6. Cardinality(B) \in W
    BY <1>1, <1>5
<1> QED BY <1>6 DEF W

\* sums over 1 .. n
LEMMA SumNext ==
    ASSUME NEW n \in Nat, NEW f, \A i \in 1 .. n + 1 : f[i] \in Nat
    PROVE  SumFunctionOnSet(f, 1 .. n + 1) = SumFunctionOnSet(f, 1 .. n) + f[n + 1]
<1> DEFINE S == 1 .. n
           x == n + 1
<1>1. IsFiniteSet(S) /\ x \notin S /\ 1 .. n + 1 = S \cup {x}
    BY FS_Interval
<1>2. f[x] \in Nat /\ \A i \in S : f[i] \in Nat
    OBVIOUS
<1> HIDE DEF S, x
<1>3. SumFunctionOnSet(f, S \cup {x}) = SumFunctionOnSet(f, S) + f[x]
    BY <1>1, <1>2, SumAdded
<1>4. SumFunctionOnSet(f, 1 .. n + 1) = SumFunctionOnSet(f, S) + f[x]
    BY <1>1, <1>3
<1> QED BY <1>4 DEF S, x

(* The sum of n naturals is a natural. *)
LEMMA SumToNat ==
    ASSUME NEW n \in Nat, NEW f, \A i \in 1 .. n : f[i] \in Nat
    PROVE  SumFunctionOnSet(f, 1 .. n) \in Nat
<1>1. IsFiniteSet(1 .. n)
    BY FS_Interval
<1> QED BY <1>1, SumElement

(* The sum of n terms depends on the terms only. *)
LEMMA SumToSame ==
    ASSUME NEW n \in Nat, NEW f, NEW g, \A i \in 1 .. n : f[i] \in Nat /\ f[i] = g[i]
    PROVE  SumFunctionOnSet(f, 1 .. n) = SumFunctionOnSet(g, 1 .. n)
<1>1. IsFiniteSet(1 .. n)
    BY FS_Interval
<1> QED BY <1>1, SumSame

(* The sum of sums is the sum of both sums. *)
LEMMA SumPlus ==
    ASSUME NEW N \in Nat, NEW f, NEW g, NEW h,
           \A i \in 1 .. N : f[i] \in Nat /\ g[i] \in Nat /\ h[i] = f[i] + g[i]
    PROVE  SumFunctionOnSet(h, 1 .. N)
                = SumFunctionOnSet(f, 1 .. N) + SumFunctionOnSet(g, 1 .. N)
<1> DEFINE sum(k, n) == SumFunctionOnSet(k, 1 .. n)
           W == {n \in Nat : n <= N => sum(h, n) = sum(f, n) + sum(g, n)}
<1>1. 0 \in W
    <2>1. 1 .. 0 = {}
        OBVIOUS
    <2>2. sum(h, 0) = 0 /\ sum(f, 0) = 0 /\ sum(g, 0) = 0
        BY <2>1, SumOfNone
    <2> HIDE DEF sum
    <2> QED BY <2>2
<1>2. ASSUME NEW n \in Nat, n \in W PROVE n + 1 \in W
    <2> SUFFICES ASSUME n + 1 <= N PROVE sum(h, n + 1) = sum(f, n + 1) + sum(g, n + 1)
        OBVIOUS
    <2>1. /\ n + 1 \in 1 .. N
          /\ \A i \in 1 .. n + 1 : /\ f[i] \in Nat /\ g[i] \in Nat /\ h[i] \in Nat
                                   /\ h[i] = f[i] + g[i]
        OBVIOUS
    <2>2. /\ sum(f, n + 1) = sum(f, n) + f[n + 1]
          /\ sum(g, n + 1) = sum(g, n) + g[n + 1]
          /\ sum(h, n + 1) = sum(h, n) + h[n + 1]
        BY <2>1, SumNext
    <2>3. sum(f, n) \in Nat /\ sum(g, n) \in Nat
        BY <2>1, SumToNat
    <2>4. sum(h, n) = sum(f, n) + sum(g, n)
        BY <1>2
    <2> HIDE DEF sum
    <2>5. f[n + 1] \in Nat /\ g[n + 1] \in Nat /\ h[n + 1] = f[n + 1] + g[n + 1]
        BY <2>1
    <2> QED BY <2>2, <2>3, <2>4, <2>5
<1> HIDE DEF W
<1>3. N \in W
    BY <1>1, <1>2, SetInduction
<1> QED BY <1>3 DEF W

\* n equal values
LEMMA SumConstant ==
    ASSUME NEW N \in Nat, NEW c \in Nat, NEW f, \A i \in 1 .. N : f[i] = c
    PROVE  SumFunctionOnSet(f, 1 .. N) = c * N
<1> DEFINE W == {n \in Nat : n <= N => SumFunctionOnSet(f, 1 .. n) = c * n}
<1>1. 0 \in W
    <2>1. 1 .. 0 = {} /\ c * 0 = 0
        OBVIOUS
    <2> QED BY <2>1, SumOfNone
<1>2. ASSUME NEW n \in Nat, n \in W PROVE n + 1 \in W
    <2> SUFFICES ASSUME n + 1 <= N PROVE SumFunctionOnSet(f, 1 .. n + 1) = c * (n + 1)
        OBVIOUS
    <2>1. SumFunctionOnSet(f, 1 .. n + 1) = SumFunctionOnSet(f, 1 .. n) + f[n + 1]
        BY SumNext
    <2>2. SumFunctionOnSet(f, 1 .. n) = c * n /\ f[n + 1] = c
        BY <1>2
    <2>3. c * (n + 1) = c * n + c
        OBVIOUS
    <2> QED BY <2>1, <2>2, <2>3
<1> HIDE DEF W
<1>3. N \in W
    BY <1>1, <1>2, SetInduction
<1> QED BY <1>3 DEF W

\* the sums of the classes that h makes of S
Parts(part, class, h, N, f, S) ==
    /\ IsFiniteSet(S) /\ N \in Nat
    /\ \A x \in S : f[x] \in Nat /\ h[x] \in 1 .. N
    /\ \A n \in 1 .. N : /\ class[n] \subseteq S
                         /\ \A x \in S : x \in class[n] <=> h[x] = n
                         /\ part[n] = SumFunctionOnSet(f, class[n])

(* Summing the parts of a split, one class after another, gives the sum of the whole. *)
LEMMA SumOfParts ==
    ASSUME NEW S, NEW f, NEW N, NEW h, NEW class, NEW part, Parts(part, class, h, N, f, S)
    PROVE  SumFunctionOnSet(part, 1 .. N) = SumFunctionOnSet(f, S)
<1>0. /\ IsFiniteSet(S) /\ N \in Nat
      /\ \A x \in S : f[x] \in Nat /\ h[x] \in 1 .. N
      /\ \A n \in 1 .. N : /\ class[n] \subseteq S
                           /\ \A x \in S : x \in class[n] <=> h[x] = n
                           /\ part[n] = SumFunctionOnSet(f, class[n])
    BY DEF Parts
<1> USE <1>0
<1> DEFINE Sum(T) == SumFunctionOnSet(f, T)
           Below(n) == {x \in S : h[x] <= n}
           At(n) == {x \in S : h[x] = n}
           W == {n \in Nat : n <= N => SumFunctionOnSet(part, 1 .. n) = Sum(Below(n))}
<1>1. \A T \in SUBSET S : IsFiniteSet(T) /\ Sum(T) \in Nat
    BY FS_Subset, SumElement
<1>2. \A n \in 1 .. N : part[n] = Sum(At(n)) /\ part[n] \in Nat
    <2>1. \A n \in 1 .. N : Sum(At(n)) \in Nat
        BY <1>1
    <2>2. \A n \in 1 .. N : class[n] = At(n)
        OBVIOUS
    <2> HIDE DEF At
    <2> QED BY <2>1, <2>2
<1>3. 0 \in W
    <2>1. 1 .. 0 = {} /\ Below(0) = {}
        OBVIOUS
    <2>2. Sum(Below(0)) = 0
        BY <2>1, SumOfNone
    <2> QED BY <2>1, <2>2, SumOfNone
<1>4. ASSUME NEW n \in Nat, n \in W PROVE n + 1 \in W
    <2> SUFFICES ASSUME n + 1 <= N
                   PROVE  SumFunctionOnSet(part, 1 .. n + 1) = Sum(Below(n + 1))
        <3> HIDE DEF Below
        <3> QED OBVIOUS
    <2>1. SumFunctionOnSet(part, 1 .. n + 1)
            = SumFunctionOnSet(part, 1 .. n) + part[n + 1]
        <3>1. \A i \in 1 .. n + 1 : i \in 1 .. N
            OBVIOUS
        <3> HIDE DEF At
        <3>2. \A i \in 1 .. n + 1 : part[i] \in Nat
            BY <1>2, <3>1
        <3> QED BY <3>2, SumNext
    <2>2. SumFunctionOnSet(part, 1 .. n) = Sum(Below(n))
        BY <1>4
    <2>3. /\ Below(n + 1) = Below(n) \cup At(n + 1) /\ Below(n) \cap At(n + 1) = {}
          /\ Below(n) \in SUBSET S /\ At(n + 1) \in SUBSET S
        OBVIOUS
    <2>4. part[n + 1] = Sum(At(n + 1))
        BY <1>2
    <2> HIDE DEF Below, At
    <2>5. IsFiniteSet(Below(n)) /\ IsFiniteSet(At(n + 1))
        BY <1>1, <2>3
    <2>6. Sum(Below(n) \cup At(n + 1)) = Sum(Below(n)) + Sum(At(n + 1))
        BY <2>3, <2>5, SumDisjoint
    <2> QED BY <2>1, <2>2, <2>3, <2>4, <2>6
<1>5. Below(N) = S
    OBVIOUS
<1> HIDE DEF W, Below
<1>6. N \in W
    BY <1>3, <1>4, SetInduction
<1> QED BY <1>5, <1>6 DEF W

-----------------------------------------------------------------------------
(* Sequences. *)

(* The sum of two lists put together is the sum of their sums. *)
LEMMA SumConcat ==
    ASSUME NEW s \in Seq(Nat), NEW t \in Seq(Nat)
    PROVE  /\ SumFunction(s \o t) = SumFunction(s) + SumFunction(t)
           /\ SumFunction(s) \in Nat
<1> DEFINE m == Len(s)
           u == s \o t
           W == {n \in Nat : n <= Len(t) => SumFunctionOnSet(u, 1 .. m + n)
                                = SumFunctionOnSet(s, 1 .. m) + SumFunctionOnSet(t, 1 .. n)}
<1>1. /\ m \in Nat /\ Len(t) \in Nat /\ DOMAIN s = 1 .. m /\ DOMAIN t = 1 .. Len(t)
      /\ DOMAIN u = 1 .. m + Len(t)
      /\ \A i \in 1 .. m : u[i] = s[i] /\ u[i] \in Nat
      /\ \A i \in 1 .. Len(t) : u[m + i] = t[i] /\ t[i] \in Nat
      /\ \A i \in 1 .. m + Len(t) : u[i] \in Nat
    OBVIOUS
<1> HIDE DEF u, m
<1>2. SumFunctionOnSet(s, 1 .. m) \in Nat
    BY <1>1, SumToNat
<1>3. 0 \in W
    <2>1. 1 .. 0 = {} /\ m + 0 = m
        BY <1>1
    <2>2. SumFunctionOnSet(t, 1 .. 0) = 0
        BY <2>1, SumOfNone
    <2>3. SumFunctionOnSet(u, 1 .. m) = SumFunctionOnSet(s, 1 .. m)
        BY <1>1, SumToSame
    <2> QED BY <1>2, <2>1, <2>2, <2>3
<1>4. ASSUME NEW n \in Nat, n \in W PROVE n + 1 \in W
    <2> SUFFICES ASSUME n + 1 <= Len(t)
                 PROVE  SumFunctionOnSet(u, 1 .. m + (n + 1))
                        = SumFunctionOnSet(s, 1 .. m) + SumFunctionOnSet(t, 1 .. n + 1)
        OBVIOUS
    <2>1. SumFunctionOnSet(t, 1 .. n + 1) = SumFunctionOnSet(t, 1 .. n) + t[n + 1]
        <3>1. \A i \in 1 .. n + 1 : t[i] \in Nat
            BY <1>1
        <3> QED BY <3>1, SumNext
    <2>2. SumFunctionOnSet(u, 1 .. (m + n) + 1) = SumFunctionOnSet(u, 1 .. m + n) + u[(m + n) + 1]
        <3>1. m + n \in Nat /\ \A i \in 1 .. (m + n) + 1 : u[i] \in Nat
            BY <1>1
        <3> QED BY <3>1, SumNext
    <2>3. (m + n) + 1 = m + (n + 1) /\ u[m + (n + 1)] = t[n + 1] /\ t[n + 1] \in Nat
        BY <1>1
    <2>4. SumFunctionOnSet(u, 1 .. m + n)
            = SumFunctionOnSet(s, 1 .. m) + SumFunctionOnSet(t, 1 .. n)
        BY <1>1, <1>4
    <2>5. SumFunctionOnSet(t, 1 .. n) \in Nat
        <3>1. \A i \in 1 .. n : t[i] \in Nat
            BY <1>1
        <3> QED BY <3>1, SumToNat
    <2> QED BY <1>2, <2>1, <2>2, <2>3, <2>4, <2>5
<1> HIDE DEF W
<1>5. Len(t) \in W
    BY <1>1, <1>3, <1>4, SetInduction
<1>6. SumFunctionOnSet(u, 1 .. m + Len(t))
        = SumFunctionOnSet(s, 1 .. m) + SumFunctionOnSet(t, 1 .. Len(t))
    BY <1>1, <1>5 DEF W
<1> QED BY <1>1, <1>2, <1>6 DEF SumFunction, u

\* the sequence of sequences, joined up to each of them
LEMMA FlattenSteps ==
    ASSUME NEW V, NEW seqs \in Seq(Seq(V))
    PROVE  \E F \in [0 .. Len(seqs) -> Seq(V)] :
              /\ F[0] = <<>> /\ FlattenSeq(seqs) = F[Len(seqs)]
              /\ \A i \in 1 .. Len(seqs) : F[i] = F[i - 1] \o seqs[i]
<1> DEFINE L == Len(seqs)
           body(g, i) == IF i = 1 THEN seqs[i] ELSE g[i - 1] \o seqs[i]
           flatten == CHOOSE g : g = [i \in 1 .. L |-> body(g, i)]
<1>1. L \in Nat /\ \A i \in 1 .. L : seqs[i] \in Seq(V)
    OBVIOUS
<1>2. CASE L = 0
    <2>1. seqs = <<>>
        BY <1>2
    <2>2. FlattenSeq(seqs) = <<>>
        BY <2>1 DEF FlattenSeq
    <2> DEFINE F == [i \in 0 .. L |-> <<>>]
    <2>3. F \in [0 .. L -> Seq(V)] /\ F[0] = <<>> /\ F[L] = <<>> /\ 1 .. L = {}
        BY <1>2
    <2> HIDE DEF F
    <2> QED BY <2>2, <2>3
<1>3. CASE L # 0
    <2>1. FlattenSeq(seqs) = flatten[L]
        BY <1>3 DEF FlattenSeq
    <2> DEFINE N == 1 .. L
               rank == [i \in N |-> i]
               step == [p \in N \X [N -> Seq(V)] |-> body(p[2], p[1])]
    <2>2. \A g, i : i \in N /\ (\A j \in N : j < i => g[j] \in Seq(V))
                    => body(g, i) \in Seq(V)
        <3> SUFFICES ASSUME NEW g, NEW i \in N, \A j \in N : j < i => g[j] \in Seq(V)
                     PROVE  body(g, i) \in Seq(V)
            OBVIOUS
        <3>1. CASE i = 1
            BY <1>1, <3>1
        <3>2. CASE i # 1
            <4>1. i - 1 \in N /\ i - 1 < i
                BY <1>1, <3>2
            <4>2. g[i - 1] \in Seq(V) /\ seqs[i] \in Seq(V)
                BY <1>1, <4>1
            <4> QED BY <3>2, <4>2
        <3> QED BY <3>1, <3>2
    <2>3. \A g, h : \A i \in N : (\A j \in N : j < i => g[j] = h[j])
                                  => body(g, i) = body(h, i)
        <3> SUFFICES ASSUME NEW i \in N, NEW g, NEW h, \A j \in N : j < i => g[j] = h[j]
                     PROVE  body(g, i) = body(h, i)
            OBVIOUS
        <3>1. i # 1 => i - 1 \in N /\ i - 1 < i
            BY <1>1
        <3> QED BY <3>1
    <2>4. rank \in [N -> Nat] /\ \A i \in N : rank[i] = i
        BY <1>1
    <2> HIDE DEF body, N
    <2>5. step \in [N \X [N -> Seq(V)] -> Seq(V)]
        <3> SUFFICES ASSUME NEW i \in N, NEW g \in [N -> Seq(V)]
                     PROVE  body(g, i) \in Seq(V)
            OBVIOUS
        <3> QED BY <2>2
    <2>6. \A i \in N, g, h \in [N -> Seq(V)] :
            (\A j \in N : rank[j] < rank[i] => g[j] = h[j])
            => step[<<i, g>>] = step[<<i, h>>]
        BY <2>3, <2>4
    <2>7. \A i \in N, g \in [N -> Seq(V)] : step[<<i, g>>] = body(g, i)
        OBVIOUS
    <2>8. Seq(V) # {}
        BY <<>> \in Seq(V)
    <2> HIDE DEF rank, step
    <2>9. \E f \in [N -> Seq(V)] : \A i \in N : f[i] = step[<<i, f>>]
        <3>1. StepByRank(N, rank, Seq(V), step)
            BY <2>4, <2>5, <2>6, <2>8 DEF StepByRank
        <3> QED BY <3>1, Recursion
    <2>15. PICK f \in [N -> Seq(V)] : \A i \in N : f[i] = step[<<i, f>>]
        BY <2>9
    <2>10. f = [i \in N |-> body(f, i)]
        BY <2>7, <2>15
    <2>11. flatten = [i \in N |-> body(flatten, i)]
        BY <2>10 DEF N
    <2> HIDE DEF flatten
    <2>12. \A i \in N : flatten[i] \in Seq(V)
        <3> DEFINE W == {i \in N : flatten[i] \in Seq(V)}
        <3>1. ASSUME NEW i \in N, \A j \in N : rank[j] < rank[i] => j \in W PROVE i \in W
            <4>1. \A j \in N : j < i => flatten[j] \in Seq(V)
                BY <2>4, <3>1
            <4>2. flatten[i] = body(flatten, i)
                BY <2>11
            <4> QED BY <2>2, <4>1, <4>2
        <3> HIDE DEF W
        <3>2. N \subseteq W
            BY <2>4, <3>1, RankInduction
        <3> QED BY <3>2 DEF W
    <2> DEFINE F == [i \in 0 .. L |-> IF i = 0 THEN <<>> ELSE flatten[i]]
    <2>13. F \in [0 .. L -> Seq(V)] /\ F[0] = <<>> /\ F[L] = flatten[L]
        BY <1>1, <1>3, <2>12 DEF N
    <2>14. ASSUME NEW i \in 1 .. L PROVE F[i] = F[i - 1] \o seqs[i]
        <3>1. F[i] = body(flatten, i)
            <4>1. i \in N /\ i # 0 /\ i \in 0 .. L
                BY DEF N
            <4>2. flatten[i] = body(flatten, i)
                BY <2>11, <4>1
            <4> QED BY <4>1, <4>2
        <3>2. CASE i = 1
            <4>1. F[i - 1] = <<>>
                BY <1>1, <3>2
            <4>2. seqs[i] \in Seq(V)
                BY <1>1
            <4> HIDE DEF F
            <4> QED BY <3>1, <3>2, <4>1, <4>2 DEF body
        <3>3. CASE i # 1
            <4>1. F[i - 1] = flatten[i - 1]
                BY <1>1, <3>3
            <4> HIDE DEF F
            <4> QED BY <3>1, <3>3, <4>1 DEF body
        <3> QED BY <3>2, <3>3
    <2> HIDE DEF F
    <2> QED BY <2>1, <2>13, <2>14
<1> QED BY <1>2, <1>3

\* the sum of the weights of the elements of s
Weight(w, s) == SumFunction([i \in DOMAIN s |-> w[s[i]]])

(* The weight of two lists put together is the sum of their weights. *)
LEMMA WeightConcat ==
    ASSUME NEW V, NEW w \in [V -> Nat], NEW s \in Seq(V), NEW t \in Seq(V)
    PROVE  /\ Weight(w, s \o t) = Weight(w, s) + Weight(w, t)
           /\ Weight(w, s) \in Nat
<1> DEFINE a == [i \in DOMAIN s |-> w[s[i]]]
           b == [i \in DOMAIN t |-> w[t[i]]]
<1>1. a \in Seq(Nat) /\ b \in Seq(Nat) /\ Len(a) = Len(s) /\ Len(b) = Len(t)
    OBVIOUS
<1>2. [i \in DOMAIN (s \o t) |-> w[(s \o t)[i]]] = a \o b
    <2> DEFINE n == Len(s) + Len(t)
               c == [i \in DOMAIN (s \o t) |-> w[(s \o t)[i]]]
    <2>1. c = [i \in 1 .. n |-> w[(s \o t)[i]]]
        OBVIOUS
    <2>2. a \o b \in Seq(Nat) /\ Len(a \o b) = n
        <3> HIDE DEF a, b
        <3> QED BY <1>1
    <2>3. \A i \in 1 .. n : (a \o b)[i] = w[(s \o t)[i]]
        <3> SUFFICES ASSUME NEW i \in 1 .. n PROVE (a \o b)[i] = w[(s \o t)[i]]
            OBVIOUS
        <3>1. CASE i <= Len(s)
            <4>1. (s \o t)[i] = s[i] /\ i \in DOMAIN s
                BY <3>1
            <4>2. (a \o b)[i] = a[i]
                BY <1>1, <3>1
            <4> QED BY <4>1, <4>2
        <3>2. CASE i > Len(s)
            <4>1. (s \o t)[i] = t[i - Len(s)] /\ i - Len(s) \in DOMAIN t
                BY <3>2
            <4>2. (a \o b)[i] = b[i - Len(s)]
                <5> HIDE DEF a, b
                <5> QED BY <1>1, <3>2
            <4> QED BY <4>1, <4>2
        <3> QED BY <3>1, <3>2
    <2> HIDE DEF c, a, b
    <2>4. a \o b = [i \in 1 .. n |-> (a \o b)[i]]
        <3> DEFINE d == a \o b
        <3>1. d \in Seq(Nat) /\ Len(d) = n
            BY <2>2
        <3> HIDE DEF d
        <3>2. d = [i \in 1 .. n |-> d[i]]
            BY <3>1
        <3> QED BY <3>2 DEF d
    <2>5. a \o b = c
        BY <2>1, <2>3, <2>4
    <2> QED BY <2>5 DEF c
<1> HIDE DEF a, b
<1>3. SumFunction(a \o b) = SumFunction(a) + SumFunction(b) /\ SumFunction(a) \in Nat
    BY <1>1, SumConcat
<1> QED BY <1>2, <1>3 DEF Weight, a, b

(* The weight of the empty list. *)
LEMMA WeightOfNone == ASSUME NEW w PROVE Weight(w, <<>>) = 0
<1>1. DOMAIN [i \in DOMAIN <<>> |-> w[<<>>[i]]] = {}
    OBVIOUS
<1> QED BY <1>1, SumOfNone DEF Weight, SumFunction

(* The weight of a list of one. *)
LEMMA WeightOfOne ==
    ASSUME NEW V, NEW w \in [V -> Nat], NEW v \in V
    PROVE  Weight(w, <<v>>) = w[v]
<1> DEFINE a == [i \in DOMAIN <<v>> |-> w[<<v>>[i]]]
<1>1. DOMAIN a = 1 .. 1 /\ \A i \in 1 .. 1 : a[i] = w[v]
    OBVIOUS
<1> HIDE DEF a
<1>2. SumFunctionOnSet(a, 1 .. 1) = w[v] * 1
    BY <1>1, SumConstant
<1>3. SumFunctionOnSet(a, 1 .. 1) = w[v]
    BY <1>2
<1> QED BY <1>1, <1>3 DEF Weight, SumFunction, a

(* One more element adds its weight. *)
LEMMA WeightAppend ==
    ASSUME NEW V, NEW w \in [V -> Nat], NEW s \in Seq(V), NEW v \in V
    PROVE  Weight(w, Append(s, v)) = Weight(w, s) + w[v]
<1>1. Append(s, v) = s \o <<v>> /\ <<v>> \in Seq(V)
    OBVIOUS
<1>2. Weight(w, s \o <<v>>) = Weight(w, s) + Weight(w, <<v>>)
    BY <1>1, WeightConcat
<1> QED BY <1>1, <1>2, WeightOfOne

\* what a sequence of sequences weighs when it is flattened
LEMMA WeightFlatten ==
    ASSUME NEW V, NEW w \in [V -> Nat], NEW seqs \in Seq(Seq(V))
    PROVE  /\ FlattenSeq(seqs) \in Seq(V)
           /\ Weight(w, FlattenSeq(seqs)) = SumFunction([k \in DOMAIN seqs |-> Weight(w, seqs[k])])
<1> DEFINE L == Len(seqs)
           part == [k \in DOMAIN seqs |-> Weight(w, seqs[k])]
<1>1. PICK F \in [0 .. L -> Seq(V)] :
            /\ F[0] = <<>> /\ FlattenSeq(seqs) = F[L]
            /\ \A i \in 1 .. L : F[i] = F[i - 1] \o seqs[i]
    BY FlattenSteps
<1> DEFINE W == {n \in Nat : n <= L => Weight(w, F[n]) = SumFunctionOnSet(part, 1 .. n)}
<1>2. /\ L \in Nat /\ DOMAIN seqs = 1 .. L /\ DOMAIN part = 1 .. L
      /\ \A i \in 1 .. L : seqs[i] \in Seq(V)
    OBVIOUS
<1>3. \A i \in 1 .. L : part[i] = Weight(w, seqs[i]) /\ part[i] \in Nat
    BY <1>2, WeightConcat
<1> HIDE DEF part, L
<1>4. 0 \in W
    <2>1. 1 .. 0 = {}
        OBVIOUS
    <2> QED BY <1>1, <2>1, WeightOfNone, SumOfNone
<1>5. ASSUME NEW n \in Nat, n \in W PROVE n + 1 \in W
    <2> SUFFICES ASSUME n + 1 <= L
                 PROVE  Weight(w, F[n + 1]) = SumFunctionOnSet(part, 1 .. n + 1)
        OBVIOUS
    <2>1. n + 1 \in 1 .. L /\ n \in 0 .. L /\ (n + 1) - 1 = n
        BY <1>2
    <2>2. F[n + 1] = F[n] \o seqs[n + 1] /\ F[n] \in Seq(V) /\ seqs[n + 1] \in Seq(V)
        BY <1>1, <1>2, <2>1
    <2>3. Weight(w, F[n] \o seqs[n + 1]) = Weight(w, F[n]) + Weight(w, seqs[n + 1])
        BY <2>2, WeightConcat
    <2>4. SumFunctionOnSet(part, 1 .. n + 1) = SumFunctionOnSet(part, 1 .. n) + part[n + 1]
        <3>1. \A i \in 1 .. n + 1 : part[i] \in Nat
            BY <1>2, <1>3
        <3> QED BY <3>1, SumNext
    <2>5. Weight(w, F[n]) = SumFunctionOnSet(part, 1 .. n)
        BY <1>5, <2>1
    <2> QED BY <1>3, <2>1, <2>2, <2>3, <2>4, <2>5
<1> HIDE DEF W
<1>6. L \in W
    BY <1>2, <1>4, <1>5, SetInduction
<1>7. Weight(w, F[L]) = SumFunctionOnSet(part, 1 .. L)
    BY <1>2, <1>6 DEF W
<1>8. F[L] \in Seq(V)
    BY <1>1, <1>2
<1> QED BY <1>1, <1>2, <1>7, <1>8 DEF SumFunction, part
=============================================================================
