------------------------------ MODULE FlowProofs ------------------------------
(***************************************************************************)
(* What FlowFigure computes, for every set of trees of any depth: its      *)
(* recursive functions are well defined, its columns and what they leave   *)
(* out account for all parameters, no two cards of its grid overlap, and   *)
(* its arrows stay within the picture.                                     *)
(*                                                                         *)
(* The argument: a module is below its parent, so a function that asks     *)
(* only for what is below a module has a value at each (RankInduction,     *)
(* Recursion); a sum over all modules is the sum of the sums over the runs *)
(* they are grouped in.                                                    *)
(***************************************************************************)
EXTENDS FlowFigure, DataInduction

USE ArchitectureAssumption

-----------------------------------------------------------------------------
(* Levels. *)

Deeper(L, d) == IF d = 0 THEN Architectures
                ELSE UNION {ToSet(node.children) : node \in L[d - 1]}

(* The trees by depth: level 0 is the architectures, each next level the children of the one
   before. *)
LEMMA Levels ==
    /\ Level[0] = Architectures
    /\ \A d \in 1 .. MaxDepth :
        Level[d] = UNION {ToSet(node.children) : node \in Level[d - 1]}
<1> DEFINE W == {n \in Nat : \E L : L = [d \in 0 .. n |-> Deeper(L, d)]}
<1>1. 0 \in W
    <2> DEFINE L == [d \in 0 .. 0 |-> Architectures]
    <2>1. L = [d \in 0 .. 0 |-> Deeper(L, d)]
        BY DEF Deeper
    <2> QED BY <2>1
<1>2. ASSUME NEW n \in Nat, n \in W PROVE n + 1 \in W
    <2>1. PICK L : L = [d \in 0 .. n |-> Deeper(L, d)]
        BY <1>2
    <2> DEFINE K == [d \in 0 .. n + 1 |-> IF d = n + 1 THEN Deeper(L, d) ELSE L[d]]
    <2>2. \A d \in 0 .. n + 1 : K[d] = Deeper(K, d)
        <3> SUFFICES ASSUME NEW d \in 0 .. n + 1 PROVE K[d] = Deeper(K, d)
            OBVIOUS
        <3>1. d # 0 => d - 1 \in 0 .. n /\ K[d - 1] = L[d - 1]
            OBVIOUS
        <3>2. Deeper(K, d) = Deeper(L, d)
            BY <3>1 DEF Deeper
        <3>3. d # n + 1 => d \in 0 .. n /\ L[d] = Deeper(L, d)
            BY <2>1
        <3> QED BY <3>2, <3>3
    <2>3. K = [d \in 0 .. n + 1 |-> Deeper(K, d)]
        <3>1. K = [d \in 0 .. n + 1 |-> K[d]]
            OBVIOUS
        <3> HIDE DEF K
        <3> QED BY <2>2, <3>1
    <2> HIDE DEF K
    <2> QED BY <2>3
<1> HIDE DEF W
<1>3. MaxDepth \in W
    BY <1>1, <1>2, SetInduction
<1>4. \E L : L = [d \in 0 .. MaxDepth |-> Deeper(L, d)]
    BY <1>3 DEF W
<1>5. Level = CHOOSE L : L = [d \in 0 .. MaxDepth |-> Deeper(L, d)]
    BY DEF Level, Deeper
<1>6. Level = [d \in 0 .. MaxDepth |-> Deeper(Level, d)]
    BY <1>4, <1>5
<1>7. \A d \in 0 .. MaxDepth : Level[d] = Deeper(Level, d)
    BY <1>6
<1>8. Level[0] = Architectures
    <2>1. 0 \in 0 .. MaxDepth
        OBVIOUS
    <2> QED BY <1>7, <2>1 DEF Deeper
<1>9. ASSUME NEW d \in 1 .. MaxDepth
      PROVE  Level[d] = UNION {ToSet(node.children) : node \in Level[d - 1]}
    <2>1. d \in 0 .. MaxDepth /\ d # 0
        OBVIOUS
    <2>2. Level[d] = Deeper(Level, d)
        BY <1>7, <2>1
    <2> QED BY <2>1, <2>2 DEF Deeper
<1> QED BY <1>8, <1>9

(* Every node the figure meets is in Nodes, with its children, and has a natural parameter
   count. *)
LEMMA Children ==
    /\ Architectures \subseteq Nodes
    /\ \A node \in Nodes :
        /\ node.params \in Nat /\ node.children \in Seq(Nodes)
        /\ ToSet(node.children) \subseteq Nodes
<1>1. Architectures \subseteq Nodes
    BY Levels DEF Nodes
<1> QED BY <1>1 DEF ToSet

\* how many levels there can be below a module
LEMMA Ranks ==
    \E rank \in [Nodes -> Nat] :
        \A node \in Nodes : \A child \in ToSet(node.children) : rank[child] < rank[node]
<1> DEFINE At(node) == {d \in 0 .. MaxDepth : node \in Level[d]}
           deepest(node) == CHOOSE d \in At(node) : \A e \in At(node) : e <= d
           rank == [node \in Nodes |-> MaxDepth - deepest(node)]
<1>1. ASSUME NEW node \in Nodes
      PROVE  deepest(node) \in At(node) /\ \A e \in At(node) : e <= deepest(node)
    <2>1. At(node) # {} /\ At(node) \in SUBSET (0 .. MaxDepth)
        BY DEF Nodes
    <2> HIDE DEF At
    <2>2. \E d \in At(node) : \A e \in At(node) : e <= d
        BY <2>1, GreatestElement
    <2> QED BY <2>2
<1>2. ASSUME NEW node \in Nodes, NEW child \in ToSet(node.children)
      PROVE  deepest(node) < deepest(child)
    <2> DEFINE d == deepest(node)
    <2>1. d \in 0 .. MaxDepth /\ node \in Level[d]
        BY <1>1
    <2> HIDE DEF deepest
    <2>2. d # MaxDepth
        BY <2>1 DEF IsLeaf, ToSet
    <2>3. d + 1 \in 1 .. MaxDepth /\ (d + 1) - 1 = d
        BY <2>1, <2>2
    <2>4. child \in Level[d + 1]
        BY <2>1, <2>3, Levels
    <2>5. d + 1 \in At(child) /\ child \in Nodes
        BY <2>3, <2>4, Children
    <2>6. d + 1 <= deepest(child) /\ deepest(child) \in 0 .. MaxDepth
        BY <1>1, <2>5
    <2> QED BY <2>1, <2>6
<1>3. \A node \in Nodes : deepest(node) \in 0 .. MaxDepth
    BY <1>1
<1> HIDE DEF deepest
<1>4. rank \in [Nodes -> Nat]
    BY <1>3
<1>5. \A node \in Nodes : \A child \in ToSet(node.children) : rank[child] < rank[node]
    BY <1>2, <1>3, Children
<1> QED BY <1>4, <1>5

(* Induction over the trees: a set that holds a node whenever it holds its children holds every
   node. *)
LEMMA NodeInduction ==
    ASSUME NEW W, \A node \in Nodes : ToSet(node.children) \subseteq W => node \in W
    PROVE  Nodes \subseteq W
<1>1. PICK rank \in [Nodes -> Nat] :
        \A node \in Nodes : \A child \in ToSet(node.children) : rank[child] < rank[node]
    BY Ranks
<1>2. ASSUME NEW node \in Nodes, \A y \in Nodes : rank[y] < rank[node] => y \in W
      PROVE  node \in W
    <2>1. ToSet(node.children) \subseteq W
        BY <1>1, <1>2, Children
    <2> QED BY <2>1
<1> QED BY <1>1, <1>2, RankInduction

\* a function whose value at a module depends on its values at the children
OfChildren(V, step) ==
    /\ V # {} /\ step \in [Nodes \X [Nodes -> V] -> V]
    /\ \A node \in Nodes, g, h \in [Nodes -> V] :
            (\A child \in ToSet(node.children) : g[child] = h[child])
            => step[<<node, g>>] = step[<<node, h>>]

(* Recursion over the trees: a value computed from the values of the children exists for every
   node. *)
LEMMA NodeRecursion ==
    ASSUME NEW V, NEW step, OfChildren(V, step)
    PROVE  \E f \in [Nodes -> V] : \A node \in Nodes : f[node] = step[<<node, f>>]
<1>1. PICK rank \in [Nodes -> Nat] :
        \A node \in Nodes : \A child \in ToSet(node.children) : rank[child] < rank[node]
    BY Ranks
<1>2. StepByRank(Nodes, rank, V, step)
    BY <1>1, Children DEF OfChildren, StepByRank
<1> QED BY <1>2, Recursion

-----------------------------------------------------------------------------
(* Groups of siblings. *)

\* the groups of the first k of these nodes
Groups(groups, nodes, k) ==
    /\ groups \in Seq(Seq(Nodes)) /\ Len(groups) <= k
    /\ \A j \in 1 .. Len(groups) :
        /\ Len(groups[j]) >= 1
        /\ \A i \in 1 .. Len(groups[j]) :
            groups[j][i] \in ToSet(nodes) /\ Alike(groups[j][1], groups[j][i])
    /\ Len(groups) = k => \A j \in 1 .. k : groups[j] = <<nodes[j]>>

\* a sum over them is the sum over the groups
GroupsSum(groups, nodes, k) ==
    \A w \in [Nodes -> Nat] :
        SumFunction([j \in DOMAIN groups |-> Weight(w, groups[j])])
            = SumFunctionOnSet([i \in DOMAIN nodes |-> w[nodes[i]]], 1 .. k)

(* One more node of groupByFingerprint keeps every group non-empty and its members alike. *)
LEMMA GroupedStep ==
    ASSUME NEW nodes \in Seq(Nodes), NEW k \in Nat, k + 1 <= Len(nodes),
           NEW groups, Groups(groups, nodes, k)
    PROVE  Groups(Grouped(groups, nodes[k + 1]), nodes, k + 1)
<1> DEFINE node == nodes[k + 1]
           n == Len(groups)
<1>1. node \in Nodes /\ node \in ToSet(nodes) /\ groups \in Seq(Seq(Nodes)) /\ n \in Nat
    BY DEF Groups, ToSet
<1>2. CASE groups # <<>> /\ Alike(groups[n][1], node)
    <2> DEFINE more == [groups EXCEPT ![n] = Append(@, node)]
    <2>1. Grouped(groups, node) = more
        BY <1>2 DEF Grouped
    <2>2. n \in 1 .. n /\ groups[n] \in Seq(Nodes)
        BY <1>1, <1>2
    <2>3. Append(groups[n], node) \in Seq(Nodes)
        BY <1>1, <2>2
    <2>4. /\ more \in Seq(Seq(Nodes)) /\ Len(more) = n
          /\ more[n] = Append(groups[n], node)
          /\ \A j \in 1 .. n : j # n => more[j] = groups[j]
        BY <1>1, <2>2, <2>3
    <2> HIDE DEF more
    <2>5. ASSUME NEW j \in 1 .. n
          PROVE  /\ Len(more[j]) >= 1
                 /\ \A i \in 1 .. Len(more[j]) :
                        more[j][i] \in ToSet(nodes) /\ Alike(more[j][1], more[j][i])
        <3>1. /\ Len(groups[j]) >= 1
              /\ \A i \in 1 .. Len(groups[j]) :
                    groups[j][i] \in ToSet(nodes) /\ Alike(groups[j][1], groups[j][i])
            BY DEF Groups
        <3>2. CASE j # n
            BY <2>4, <3>1, <3>2
        <3>3. CASE j = n
            <4> DEFINE run == groups[n]
            <4>1. /\ Len(more[n]) = Len(run) + 1 /\ more[n][Len(run) + 1] = node
                  /\ \A i \in 1 .. Len(run) : more[n][i] = run[i]
                  /\ Len(run) \in Nat
                BY <1>1, <2>2, <2>4
            <4> HIDE DEF run
            <4>2. Len(run) >= 1 /\ more[n][1] = run[1]
                BY <3>1, <3>3, <4>1 DEF run
            <4>3. ASSUME NEW i \in 1 .. Len(run) + 1
                  PROVE  more[n][i] \in ToSet(nodes) /\ Alike(more[n][1], more[n][i])
                <5>1. CASE i = Len(run) + 1
                    BY <1>1, <1>2, <4>1, <4>2, <5>1 DEF run
                <5>2. CASE i # Len(run) + 1
                    <6>1. i \in 1 .. Len(run)
                        BY <4>1, <5>2
                    <6> QED BY <3>1, <3>3, <4>1, <4>2, <6>1 DEF run
                <5> QED BY <5>1, <5>2
            <4> QED BY <3>3, <4>1, <4>2, <4>3
        <3> QED BY <3>2, <3>3
    <2>6. n <= k
        BY DEF Groups
    <2> QED BY <2>1, <2>4, <2>5, <2>6, <1>1 DEF Groups
<1>3. CASE ~(groups # <<>> /\ Alike(groups[n][1], node))
    <2> DEFINE more == Append(groups, <<node>>)
    <2>1. Grouped(groups, node) = more
        BY <1>3 DEF Grouped
    <2>2. /\ more \in Seq(Seq(Nodes)) /\ Len(more) = n + 1 /\ more[n + 1] = <<node>>
          /\ \A j \in 1 .. n : more[j] = groups[j]
        BY <1>1
    <2> HIDE DEF more
    <2>3. ASSUME NEW j \in 1 .. n + 1
          PROVE  /\ Len(more[j]) >= 1
                 /\ \A i \in 1 .. Len(more[j]) :
                        more[j][i] \in ToSet(nodes) /\ Alike(more[j][1], more[j][i])
        <3>1. CASE j = n + 1
            <4> DEFINE single == <<node>>
            <4>0. Len(single) = 1 /\ single[1] = node
                OBVIOUS
            <4>1. Len(more[j]) = 1 /\ more[j][1] = node
                <5>1. more[j] = single
                    BY <2>2, <3>1
                <5> HIDE DEF single
                <5> QED BY <4>0, <5>1
            <4>2. Alike(node, node)
                BY DEF Alike
            <4>3. ASSUME NEW i \in 1 .. Len(more[j]) PROVE more[j][i] = node
                <5>1. i = 1
                    BY <4>1
                <5> QED BY <4>1, <5>1
            <4> QED BY <1>1, <4>1, <4>2, <4>3
        <3>2. CASE j # n + 1
            <4>1. j \in 1 .. n
                BY <1>1, <3>2
            <4> QED BY <2>2, <4>1 DEF Groups
        <3> QED BY <3>1, <3>2
    <2>4. n <= k /\ (n = k => \A j \in 1 .. k : groups[j] = <<nodes[j]>>)
        BY DEF Groups
    <2>5. ASSUME n + 1 = k + 1, NEW j \in 1 .. k + 1 PROVE more[j] = <<nodes[j]>>
        <3>1. CASE j = k + 1
            <4>1. j = n + 1
                BY <2>5, <3>1
            <4>2. more[j] = <<node>>
                BY <2>2, <4>1
            <4> QED BY <3>1, <4>2
        <3>2. CASE j # k + 1
            <4>1. n = k /\ j \in 1 .. n
                BY <1>1, <2>5, <3>2
            <4> QED BY <2>2, <2>4, <4>1
        <3> QED BY <3>1, <3>2
    <2>6. Len(more) <= k + 1 /\ (Len(more) = k + 1 => n + 1 = k + 1)
        BY <1>1, <2>2, <2>4
    <2>7. Groups(more, nodes, k + 1)
        <3> HIDE DEF node, n
        <3> QED BY <2>2, <2>3, <2>5, <2>6 DEF Groups
    <2> QED BY <2>1, <2>7
<1> QED BY <1>2, <1>3

(* One more node of groupByFingerprint keeps every sum over the groups equal to the sum over
   the nodes. *)
LEMMA GroupedSum ==
    ASSUME NEW nodes \in Seq(Nodes), NEW k \in Nat, k + 1 <= Len(nodes),
           NEW groups, Groups(groups, nodes, k), GroupsSum(groups, nodes, k)
    PROVE  GroupsSum(Grouped(groups, nodes[k + 1]), nodes, k + 1)
<1> DEFINE node == nodes[k + 1]
           n == Len(groups)
<1>1. /\ node \in Nodes /\ groups \in Seq(Seq(Nodes)) /\ n \in Nat
      /\ \A j \in 1 .. n : groups[j] \in Seq(Nodes)
    BY DEF Groups
<1> SUFFICES ASSUME NEW w \in [Nodes -> Nat]
             PROVE  LET more == Grouped(groups, node)
                    IN  SumFunction([j \in DOMAIN more |-> Weight(w, more[j])])
                        = SumFunctionOnSet([i \in DOMAIN nodes |-> w[nodes[i]]], 1 .. k + 1)
    BY DEF GroupsSum
<1> DEFINE more == Grouped(groups, node)
           a == [j \in DOMAIN groups |-> Weight(w, groups[j])]
           b == [j \in DOMAIN more |-> Weight(w, more[j])]
           f == [i \in DOMAIN nodes |-> w[nodes[i]]]
<1>2. /\ DOMAIN a = 1 .. n
      /\ \A j \in 1 .. n : a[j] = Weight(w, groups[j]) /\ a[j] \in Nat
    <2>1. DOMAIN groups = 1 .. n
        BY <1>1
    <2>2. \A j \in 1 .. n : Weight(w, groups[j]) \in Nat
        BY <1>1, WeightConcat
    <2> QED BY <2>1, <2>2
<1>3. SumFunctionOnSet(a, 1 .. n) = SumFunctionOnSet(f, 1 .. k)
    BY <1>2 DEF GroupsSum, SumFunction
<1>4. /\ SumFunctionOnSet(f, 1 .. k + 1) = SumFunctionOnSet(f, 1 .. k) + w[node]
      /\ SumFunctionOnSet(f, 1 .. k) \in Nat
    <2>1. \A i \in 1 .. k + 1 : f[i] = w[nodes[i]] /\ f[i] \in Nat
        OBVIOUS
    <2> HIDE DEF f
    <2>2. f[k + 1] = w[node]
        BY <2>1
    <2>3. \A i \in 1 .. k : f[i] \in Nat
        BY <2>1
    <2> QED BY <2>1, <2>2, <2>3, SumNext, SumToNat
<1>5. w[node] \in Nat
    BY <1>1
<1> HIDE DEF a, f
<1>6. SumFunction(b) = SumFunctionOnSet(a, 1 .. n) + w[node]
    <2>1. CASE groups # <<>> /\ Alike(groups[n][1], node)
        <3>1. more = [groups EXCEPT ![n] = Append(@, node)]
            BY <2>1 DEF Grouped
        <3>2. n \in 1 .. n /\ groups[n] \in Seq(Nodes) /\ n - 1 \in Nat /\ (n - 1) + 1 = n
            BY <1>1, <2>1
        <3>3. Append(groups[n], node) \in Seq(Nodes)
            BY <1>1, <3>2
        <3>4. /\ DOMAIN more = 1 .. n /\ more[n] = Append(groups[n], node)
              /\ \A j \in 1 .. n - 1 : more[j] = groups[j]
            <4> DEFINE grown == [groups EXCEPT ![n] = Append(@, node)]
            <4>1. /\ DOMAIN grown = 1 .. n /\ grown[n] = Append(groups[n], node)
                  /\ \A j \in 1 .. n - 1 : grown[j] = groups[j]
                <5>1. /\ grown \in Seq(Seq(Nodes)) /\ Len(grown) = n
                      /\ grown[n] = Append(groups[n], node)
                      /\ \A j \in 1 .. n : j # n => grown[j] = groups[j]
                    <6> DEFINE S == Seq(Nodes)
                               v == Append(groups[n], node)
                    <6>1. groups \in Seq(S) /\ n \in 1 .. Len(groups) /\ v \in S
                        BY <1>1, <3>2, <3>3
                    <6>2. grown = [groups EXCEPT ![n] = v]
                        OBVIOUS
                    <6> HIDE DEF grown, v, S, n
                    <6>3. /\ grown \in Seq(S) /\ Len(grown) = Len(groups) /\ grown[n] = v
                          /\ \A j \in 1 .. Len(groups) : j # n => grown[j] = groups[j]
                        BY <6>1, <6>2, ExceptSeq
                    <6> QED BY <6>3 DEF v, S, n
                <5>2. n \in Nat
                    BY <1>1
                <5> HIDE DEF grown, n
                <5>3. \A j \in 1 .. n - 1 : j \in 1 .. n /\ j # n
                    BY <5>2
                <5>4. DOMAIN grown = 1 .. n
                    BY <5>1, <5>2
                <5> QED BY <5>1, <5>3, <5>4
            <4> HIDE DEF grown, more
            <4>2. more = grown
                BY <3>1 DEF grown
            <4> QED BY <4>1, <4>2
        <3>5. b[n] = a[n] + w[node]
            <4>1. Weight(w, Append(groups[n], node)) = Weight(w, groups[n]) + w[node]
                BY <1>1, <3>2, WeightAppend
            <4> HIDE DEF more
            <4> QED BY <1>2, <3>2, <3>4, <4>1
        <3>6. \A j \in 1 .. n - 1 : b[j] = a[j] /\ a[j] \in Nat
            <4> HIDE DEF more
            <4> QED BY <1>1, <1>2, <3>4
        <3>7. DOMAIN b = 1 .. n
            <4> HIDE DEF more
            <4> QED BY <3>4
        <3> HIDE DEF b, more, n, node
        <3>8. SumFunctionOnSet(b, 1 .. n - 1) = SumFunctionOnSet(a, 1 .. n - 1)
            BY <3>2, <3>6, SumToSame
        <3>9. a[n] \in Nat /\ b[n] \in Nat
            BY <1>2, <1>5, <3>2, <3>5
        <3>10. \A j \in 1 .. (n - 1) + 1 : a[j] \in Nat /\ b[j] \in Nat
            BY <1>1, <1>2, <3>2, <3>6, <3>9
        <3>11. /\ SumFunctionOnSet(b, 1 .. (n - 1) + 1)
                    = SumFunctionOnSet(b, 1 .. n - 1) + b[(n - 1) + 1]
               /\ SumFunctionOnSet(a, 1 .. (n - 1) + 1)
                    = SumFunctionOnSet(a, 1 .. n - 1) + a[(n - 1) + 1]
            BY <3>2, <3>10, SumNext
        <3>12. /\ SumFunctionOnSet(b, 1 .. n) = SumFunctionOnSet(b, 1 .. n - 1) + b[n]
               /\ SumFunctionOnSet(a, 1 .. n) = SumFunctionOnSet(a, 1 .. n - 1) + a[n]
            BY <3>2, <3>11
        <3>13. SumFunctionOnSet(a, 1 .. n - 1) \in Nat
            BY <3>2, <3>6, SumToNat
        <3> QED BY <1>5, <3>5, <3>7, <3>8, <3>9, <3>12, <3>13 DEF SumFunction
    <2>2. CASE ~(groups # <<>> /\ Alike(groups[n][1], node))
        <3>1. more = Append(groups, <<node>>)
            BY <2>2 DEF Grouped
        <3>2. /\ DOMAIN more = 1 .. n + 1 /\ more[n + 1] = <<node>>
              /\ \A j \in 1 .. n : more[j] = groups[j]
            BY <1>1, <3>1
        <3>3. b[n + 1] = w[node]
            <4>1. Weight(w, <<node>>) = w[node]
                BY <1>1, WeightOfOne
            <4> DEFINE single == <<node>>
            <4>2. n + 1 \in DOMAIN more /\ more[n + 1] = single
                BY <1>1, <3>2
            <4> HIDE DEF more, single
            <4>3. b[n + 1] = Weight(w, more[n + 1])
                BY <4>2
            <4> QED BY <4>1, <4>2, <4>3 DEF single
        <3>4. \A j \in 1 .. n : b[j] = a[j] /\ a[j] \in Nat
            <4> HIDE DEF more
            <4> QED BY <1>1, <1>2, <3>2
        <3>5. DOMAIN b = 1 .. n + 1
            <4> HIDE DEF more
            <4> QED BY <3>2
        <3> HIDE DEF b, more, n, node
        <3>6. SumFunctionOnSet(b, 1 .. n) = SumFunctionOnSet(a, 1 .. n)
            <4>1. \A j \in 1 .. n : a[j] \in Nat /\ a[j] = b[j]
                BY <3>4
            <4>2. SumFunctionOnSet(a, 1 .. n) = SumFunctionOnSet(b, 1 .. n)
                BY <1>1, <4>1, SumToSame
            <4> QED BY <4>2
        <3>7. ASSUME NEW j \in 1 .. n + 1 PROVE b[j] \in Nat
            <4>1. j \in 1 .. n \/ j = n + 1
                BY <1>1
            <4> QED BY <1>5, <3>3, <3>4, <4>1
        <3>8. SumFunctionOnSet(b, 1 .. n + 1) = SumFunctionOnSet(b, 1 .. n) + b[n + 1]
            BY <1>1, <3>7, SumNext
        <3> QED BY <3>3, <3>5, <3>6, <3>8 DEF SumFunction
    <2> QED BY <2>1, <2>2
<1>7. SumFunction(b) = SumFunctionOnSet(f, 1 .. k + 1)
    <2> HIDE DEF b
    <2> QED BY <1>3, <1>4, <1>6
<1> QED BY <1>7 DEF f

(* groupByFingerprint yields groups of alike nodes that add up to the list. *)
LEMMA Grouping ==
    ASSUME NEW nodes \in Seq(Nodes)
    PROVE  /\ Groups(GroupByFingerprint(nodes), nodes, Len(nodes))
           /\ GroupsSum(GroupByFingerprint(nodes), nodes, Len(nodes))
<1> DEFINE N == Len(nodes)
           upto == CHOOSE U : U = [k \in 0 .. N |->
                        IF k = 0 THEN <<>> ELSE Grouped(U[k - 1], nodes[k])]
           V == {groups \in Seq(Seq(Nodes)) : \E k \in 0 .. N : Groups(groups, nodes, k)}
<1>1. N \in Nat
    OBVIOUS
<1>2. GroupByFingerprint(nodes) = upto[N]
    BY DEF GroupByFingerprint
<1>3. \E U : U = [k \in 0 .. N |-> IF k = 0 THEN <<>> ELSE Grouped(U[k - 1], nodes[k])]
    <2> DEFINE Step(U, k) == IF k = 0 THEN <<>> ELSE Grouped(U[k - 1], nodes[k])
               W == {n \in Nat : \E U : U = [k \in 0 .. n |-> Step(U, k)]}
    <2>1. 0 \in W
        <3> DEFINE U == [k \in 0 .. 0 |-> <<>>]
        <3>1. U = [k \in 0 .. 0 |-> Step(U, k)]
            OBVIOUS
        <3> QED BY <3>1
    <2>2. ASSUME NEW n \in Nat, n \in W PROVE n + 1 \in W
        <3>1. PICK U : U = [k \in 0 .. n |-> Step(U, k)]
            BY <2>2
        <3> DEFINE K == [k \in 0 .. n + 1 |-> IF k = n + 1 THEN Step(U, k) ELSE U[k]]
        <3>2. ASSUME NEW k \in 0 .. n + 1 PROVE K[k] = Step(K, k)
            <4>1. k # 0 => k - 1 \in 0 .. n /\ K[k - 1] = U[k - 1]
                OBVIOUS
            <4>2. Step(K, k) = Step(U, k)
                BY <4>1
            <4>3. k # n + 1 => k \in 0 .. n /\ U[k] = Step(U, k)
                BY <3>1
            <4> QED BY <4>2, <4>3
        <3>3. K = [k \in 0 .. n + 1 |-> Step(K, k)]
            <4>1. K = [k \in 0 .. n + 1 |-> K[k]]
                OBVIOUS
            <4> HIDE DEF K, Step
            <4> QED BY <3>2, <4>1
        <3> HIDE DEF K, Step
        <3> QED BY <3>3
    <2> HIDE DEF W
    <2>3. N \in W
        BY <1>1, <2>1, <2>2, SetInduction
    <2> QED BY <2>3 DEF W
<1>4. upto = [k \in 0 .. N |-> IF k = 0 THEN <<>> ELSE Grouped(upto[k - 1], nodes[k])]
    BY <1>3
<1> HIDE DEF upto
<1> DEFINE W == {k \in Nat : k <= N => /\ Groups(upto[k], nodes, k)
                                       /\ GroupsSum(upto[k], nodes, k)}
<1>5. 0 \in W
    <2>1. upto[0] = <<>>
        BY <1>1, <1>4
    <2>2. Groups(<<>>, nodes, 0)
        BY DEF Groups
    <2>3. GroupsSum(<<>>, nodes, 0)
        <3> SUFFICES ASSUME NEW w \in [Nodes -> Nat]
                     PROVE  SumFunction([j \in DOMAIN <<>> |-> Weight(w, <<>>[j])])
                            = SumFunctionOnSet([i \in DOMAIN nodes |-> w[nodes[i]]], 1 .. 0)
            BY DEF GroupsSum
        <3>1. DOMAIN [j \in DOMAIN <<>> |-> Weight(w, <<>>[j])] = {} /\ 1 .. 0 = {}
            OBVIOUS
        <3> QED BY <3>1, SumOfNone DEF SumFunction
    <2> QED BY <2>1, <2>2, <2>3
<1>6. ASSUME NEW k \in Nat, k \in W PROVE k + 1 \in W
    <2> SUFFICES ASSUME k + 1 <= N
                 PROVE  /\ Groups(upto[k + 1], nodes, k + 1)
                        /\ GroupsSum(upto[k + 1], nodes, k + 1)
        OBVIOUS
    <2>1. Groups(upto[k], nodes, k) /\ GroupsSum(upto[k], nodes, k)
        BY <1>1, <1>6
    <2>2. upto[k + 1] = Grouped(upto[k], nodes[k + 1])
        BY <1>1, <1>4
    <2> QED BY <2>1, <2>2, GroupedStep, GroupedSum
<1> HIDE DEF W
<1>7. N \in W
    BY <1>1, <1>5, <1>6, SetInduction
<1> QED BY <1>1, <1>2, <1>7 DEF W

\* the runs of siblings below a module
LEMMA Runs ==
    ASSUME NEW node \in Nodes
    PROVE  LET groups == GroupByFingerprint(node.children)
           IN  /\ groups \in Seq(Seq(Nodes))
               /\ \A j \in DOMAIN groups :
                    /\ groups[j] \in Seq(Nodes) /\ Len(groups[j]) >= 1
                    /\ groups[j][1] \in ToSet(node.children) /\ groups[j][1] \in Nodes
                    /\ \A i \in 1 .. Len(groups[j]) :
                        /\ groups[j][i] \in ToSet(node.children) /\ groups[j][i] \in Nodes
                        /\ IsLeaf(groups[j][i]) <=> IsLeaf(groups[j][1])
<1> DEFINE groups == GroupByFingerprint(node.children)
<1>1. node.children \in Seq(Nodes) /\ ToSet(node.children) \subseteq Nodes
    BY Children
<1>2. Groups(groups, node.children, Len(node.children))
    BY <1>1, Grouping
<1>3. groups \in Seq(Seq(Nodes)) /\ DOMAIN groups = 1 .. Len(groups)
    BY <1>2 DEF Groups
<1> HIDE DEF groups
<1>4. ASSUME NEW a \in Nodes, NEW b \in Nodes, Alike(a, b) PROVE IsLeaf(b) <=> IsLeaf(a)
    <2> DEFINE names(x) == [i \in DOMAIN x.children |-> x.children[i].name]
    <2>1. names(a) = names(b)
        BY <1>4 DEF Alike, ComputeStructuralFingerprint
    <2>2. DOMAIN names(a) = DOMAIN a.children /\ DOMAIN names(b) = DOMAIN b.children
        OBVIOUS
    <2>3. DOMAIN a.children = DOMAIN b.children
        BY <2>1, <2>2
    <2>4. a.children \in Seq(Nodes) /\ b.children \in Seq(Nodes)
        BY Children
    <2> QED BY <2>3, <2>4 DEF IsLeaf
<1>5. ASSUME NEW j \in DOMAIN groups
      PROVE  /\ groups[j] \in Seq(Nodes) /\ Len(groups[j]) >= 1
             /\ groups[j][1] \in ToSet(node.children) /\ groups[j][1] \in Nodes
             /\ \A i \in 1 .. Len(groups[j]) :
                 /\ groups[j][i] \in ToSet(node.children) /\ groups[j][i] \in Nodes
                 /\ IsLeaf(groups[j][i]) <=> IsLeaf(groups[j][1])
    <2>1. /\ groups[j] \in Seq(Nodes) /\ Len(groups[j]) >= 1
          /\ \A i \in 1 .. Len(groups[j]) : /\ groups[j][i] \in ToSet(node.children)
                                            /\ Alike(groups[j][1], groups[j][i])
        BY <1>2, <1>3 DEF Groups
    <2>2. 1 \in 1 .. Len(groups[j])
        BY <2>1
    <2>3. \A i \in 1 .. Len(groups[j]) : groups[j][i] \in Nodes
        BY <1>1, <2>1
    <2>4. groups[j][1] \in Nodes /\ groups[j][1] \in ToSet(node.children)
        BY <2>1, <2>2, <2>3
    <2> QED BY <1>4, <2>1, <2>3, <2>4
<1> QED BY <1>3, <1>5 DEF groups

-----------------------------------------------------------------------------
(* What adds up. *)

(* A sum over a list of nodes depends on the values of the nodes of the list only. *)
LEMMA WeightSame ==
    ASSUME NEW s \in Seq(Nodes), NEW g, NEW h, \A x \in ToSet(s) : g[x] = h[x]
    PROVE  Weight(g, s) = Weight(h, s)
<1>1. \A i \in DOMAIN s : g[s[i]] = h[s[i]]
    BY DEF ToSet
<1>2. [i \in DOMAIN s |-> g[s[i]]] = [i \in DOMAIN s |-> h[s[i]]]
    BY <1>1
<1> QED BY <1>2 DEF Weight

(* A node's leaf parameters are its own when it is a leaf and its children's otherwise. *)
LEMMA LeafParamsOf ==
    /\ LeafParams \in [Nodes -> Nat]
    /\ \A node \in Nodes :
        LeafParams[node] = IF IsLeaf(node) THEN node.params
                           ELSE Weight(LeafParams, node.children)
<1> DEFINE Body(g, node) == IF IsLeaf(node) THEN node.params ELSE Weight(g, node.children)
           step == [p \in Nodes \X [Nodes -> Nat] |-> Body(p[2], p[1])]
<1>1. \A node \in Nodes, g \in [Nodes -> Nat] : Body(g, node) \in Nat
    BY Children, WeightConcat
<1>2. ASSUME NEW node \in Nodes, NEW g, NEW h,
             \A child \in ToSet(node.children) : g[child] = h[child]
      PROVE  Body(g, node) = Body(h, node)
    BY <1>2, Children, WeightSame
<1>3. LeafParams = CHOOSE g : g = [node \in Nodes |-> Body(g, node)]
    BY DEF LeafParams, Total, Weight
<1> HIDE DEF Body
<1>4. OfChildren(Nat, step)
    BY <1>1, <1>2 DEF OfChildren
<1>5. \A node \in Nodes, g \in [Nodes -> Nat] : step[<<node, g>>] = Body(g, node)
    OBVIOUS
<1> HIDE DEF step
<1>6. PICK f \in [Nodes -> Nat] : \A node \in Nodes : f[node] = step[<<node, f>>]
    BY <1>4, NodeRecursion
<1>7. \A node \in Nodes : f[node] = Body(f, node)
    BY <1>5, <1>6
<1>8. f = [node \in Nodes |-> Body(f, node)]
    BY <1>6, <1>7
<1>9. LeafParams = [node \in Nodes |-> Body(LeafParams, node)]
    BY <1>3, <1>8
<1> DEFINE W == {x \in Nodes : LeafParams[x] = f[x]}
<1>10. ASSUME NEW node \in Nodes, ToSet(node.children) \subseteq W PROVE node \in W
    <2>1. Body(LeafParams, node) = Body(f, node)
        BY <1>2, <1>10
    <2>2. LeafParams[node] = Body(LeafParams, node)
        BY <1>9
    <2> QED BY <1>7, <2>1, <2>2
<1> HIDE DEF W
<1>11. Nodes \subseteq W
    BY <1>10, NodeInduction
<1>12. \A node \in Nodes : LeafParams[node] = f[node]
    BY <1>11 DEF W
<1>13. LeafParams \in [Nodes -> Nat]
    BY <1>6, <1>9, <1>12
<1>14. \A node \in Nodes : LeafParams[node] = Body(LeafParams, node)
    BY <1>9
<1> QED BY <1>13, <1>14 DEF Body

\* the body of Unlisted, and of LeftOut
TwinsBelow(g, node) ==
    LET groups == GroupByFingerprint(node.children)
    IN  SumFunction([j \in DOMAIN groups |->
                        g[groups[j][1]] + Weight(LeafParams, Tail(groups[j]))])

LeftOutOf(g, run) ==
    IF IsLeaf(run[1]) THEN 0
    ELSE IF Len(run) > 1 THEN Len(run) * Weight(Unlisted, run[1].children)
    ELSE g[run[1]]

LeftOutBelow(g, node) ==
    LET groups == GroupByFingerprint(node.children)
    IN  SumFunction([j \in DOMAIN groups |-> LeftOutOf(g, groups[j])])

(* The sum of naturals over the runs below a module is a natural. *)
LEMMA RunSum ==
    ASSUME NEW node \in Nodes, NEW f,
           DOMAIN f = DOMAIN GroupByFingerprint(node.children),
           \A j \in DOMAIN f : f[j] \in Nat
    PROVE  /\ SumFunction(f) \in Nat
           /\ SumFunction(f) = SumFunctionOnSet(f, 1 .. Len(GroupByFingerprint(node.children)))
<1> DEFINE groups == GroupByFingerprint(node.children)
<1>1. groups \in Seq(Seq(Nodes))
    BY Runs
<1> HIDE DEF groups
<1>2. Len(groups) \in Nat /\ DOMAIN groups = 1 .. Len(groups)
    BY <1>1
<1>3. DOMAIN f = DOMAIN groups
    BY DEF groups
<1>4. DOMAIN f = 1 .. Len(groups) /\ \A i \in 1 .. Len(groups) : f[i] \in Nat
    BY <1>2, <1>3
<1>5. SumFunction(f) = SumFunctionOnSet(f, 1 .. Len(groups))
    BY <1>4 DEF SumFunction
<1>6. SumFunctionOnSet(f, 1 .. Len(groups)) \in Nat
    BY <1>2, <1>4, SumToNat
<1> QED BY <1>5, <1>6 DEF groups

(* A run is its first member and the ones it hides, which have natural parameters. *)
LEMMA RunHeadAndTail ==
    ASSUME NEW run \in Seq(Nodes), Len(run) >= 1
    PROVE  /\ Weight(LeafParams, Tail(run)) \in Nat
           /\ Weight(LeafParams, run) = LeafParams[run[1]] + Weight(LeafParams, Tail(run))
<1>1. Tail(run) \in Seq(Nodes) /\ run[1] \in Nodes
    OBVIOUS
<1>2. run = <<run[1]>> \o Tail(run) /\ <<run[1]>> \in Seq(Nodes)
    OBVIOUS
<1>3. LeafParams \in [Nodes -> Nat]
    BY LeafParamsOf
<1> DEFINE first == <<run[1]>>
           rest == Tail(run)
<1>4. Weight(LeafParams, first) = LeafParams[run[1]]
    BY <1>1, <1>3, WeightOfOne
<1>5. first \in Seq(Nodes) /\ rest \in Seq(Nodes) /\ run = first \o rest
    BY <1>1, <1>2
<1> HIDE DEF first, rest
<1>6. Weight(LeafParams, first \o rest) = Weight(LeafParams, first) + Weight(LeafParams, rest)
    BY <1>3, <1>5, WeightConcat
<1>7. Weight(LeafParams, rest) \in Nat
    BY <1>3, <1>5, WeightConcat
<1> QED BY <1>4, <1>5, <1>6, <1>7 DEF rest

(* Unlisted is the recursion its definition states, and a natural number. *)
LEMMA UnlistedOf ==
    /\ Unlisted \in [Nodes -> Nat]
    /\ \A node \in Nodes : Unlisted[node] = TwinsBelow(Unlisted, node)
<1> DEFINE step == [p \in Nodes \X [Nodes -> Nat] |-> TwinsBelow(p[2], p[1])]
<1>1. ASSUME NEW node \in Nodes, NEW g \in [Nodes -> Nat]
      PROVE  TwinsBelow(g, node) \in Nat
    <2> DEFINE groups == GroupByFingerprint(node.children)
               f == [j \in DOMAIN groups |->
                        g[groups[j][1]] + Weight(LeafParams, Tail(groups[j]))]
    <2>1. \A j \in DOMAIN groups : g[groups[j][1]] \in Nat
        BY Runs
    <2>2. \A j \in DOMAIN groups : Weight(LeafParams, Tail(groups[j])) \in Nat
        BY Runs, RunHeadAndTail
    <2>3. DOMAIN f = DOMAIN groups /\ \A j \in DOMAIN f : f[j] \in Nat
        <3> HIDE DEF groups
        <3> QED BY <2>1, <2>2
    <2>4. TwinsBelow(g, node) = SumFunction(f)
        BY DEF TwinsBelow
    <2> HIDE DEF f
    <2> QED BY <2>3, <2>4, RunSum
<1>2. ASSUME NEW node \in Nodes, NEW g, NEW h,
             \A child \in ToSet(node.children) : g[child] = h[child]
      PROVE  TwinsBelow(g, node) = TwinsBelow(h, node)
    <2> DEFINE groups == GroupByFingerprint(node.children)
               a(k) == [j \in DOMAIN groups |-> k[groups[j][1]] + Weight(LeafParams, Tail(groups[j]))]
    <2>1. \A j \in DOMAIN groups : g[groups[j][1]] = h[groups[j][1]]
        BY <1>2, Runs
    <2>2. TwinsBelow(g, node) = SumFunction(a(g)) /\ TwinsBelow(h, node) = SumFunction(a(h))
        BY DEF TwinsBelow
    <2> HIDE DEF groups
    <2>3. a(g) = a(h)
        BY <2>1
    <2> QED BY <2>2, <2>3
<1>3. Unlisted = CHOOSE g : g = [node \in Nodes |-> TwinsBelow(g, node)]
    BY DEF Unlisted, TwinsBelow, Total, Weight
<1>4. OfChildren(Nat, step)
    BY <1>1, <1>2 DEF OfChildren
<1>5. \A node \in Nodes, g \in [Nodes -> Nat] : step[<<node, g>>] = TwinsBelow(g, node)
    OBVIOUS
<1> HIDE DEF step
<1>6. PICK f \in [Nodes -> Nat] : \A node \in Nodes : f[node] = step[<<node, f>>]
    BY <1>4, NodeRecursion
<1>7. \A node \in Nodes : f[node] = TwinsBelow(f, node)
    BY <1>5, <1>6
<1>8. f = [node \in Nodes |-> TwinsBelow(f, node)]
    BY <1>6, <1>7
<1>9. Unlisted = [node \in Nodes |-> TwinsBelow(Unlisted, node)]
    BY <1>3, <1>8
<1> DEFINE W == {x \in Nodes : Unlisted[x] = f[x]}
<1>10. ASSUME NEW node \in Nodes, ToSet(node.children) \subseteq W PROVE node \in W
    <2>1. TwinsBelow(Unlisted, node) = TwinsBelow(f, node)
        BY <1>2, <1>10
    <2>2. Unlisted[node] = TwinsBelow(Unlisted, node)
        BY <1>9
    <2> QED BY <1>7, <2>1, <2>2
<1> HIDE DEF W
<1>11. Nodes \subseteq W
    BY <1>10, NodeInduction
<1>12. \A node \in Nodes : Unlisted[node] = f[node]
    BY <1>11 DEF W
<1>13. Unlisted \in [Nodes -> Nat]
    BY <1>6, <1>9, <1>12
<1>14. \A node \in Nodes : Unlisted[node] = TwinsBelow(Unlisted, node)
    BY <1>9
<1> QED BY <1>13, <1>14

(* LeftOut is the recursion its definition states, and a natural number. *)
LEMMA LeftOutIs ==
    /\ LeftOut \in [Nodes -> Nat]
    /\ \A node \in Nodes : LeftOut[node] = LeftOutBelow(LeftOut, node)
<1> DEFINE step == [p \in Nodes \X [Nodes -> Nat] |-> LeftOutBelow(p[2], p[1])]
<1>1. ASSUME NEW node \in Nodes, NEW g \in [Nodes -> Nat]
      PROVE  LeftOutBelow(g, node) \in Nat
    <2> DEFINE groups == GroupByFingerprint(node.children)
               f == [j \in DOMAIN groups |-> LeftOutOf(g, groups[j])]
    <2>1. ASSUME NEW j \in DOMAIN groups PROVE LeftOutOf(g, groups[j]) \in Nat
        <3> DEFINE run == groups[j]
        <3>1. run \in Seq(Nodes) /\ run[1] \in Nodes
            BY Runs
        <3> HIDE DEF run
        <3>2. Weight(Unlisted, run[1].children) \in Nat /\ g[run[1]] \in Nat
            BY <3>1, Children, UnlistedOf, WeightConcat
        <3>3. LeftOutOf(g, run) \in Nat
            BY <3>1, <3>2 DEF LeftOutOf
        <3> QED BY <3>3 DEF run
    <2>2. DOMAIN f = DOMAIN groups /\ \A j \in DOMAIN f : f[j] \in Nat
        <3> HIDE DEF groups
        <3> QED BY <2>1
    <2>3. LeftOutBelow(g, node) = SumFunction(f)
        BY DEF LeftOutBelow
    <2> HIDE DEF f
    <2> QED BY <2>2, <2>3, RunSum
<1>2. ASSUME NEW node \in Nodes, NEW g, NEW h,
             \A child \in ToSet(node.children) : g[child] = h[child]
      PROVE  LeftOutBelow(g, node) = LeftOutBelow(h, node)
    <2> DEFINE groups == GroupByFingerprint(node.children)
               a(k) == [j \in DOMAIN groups |-> LeftOutOf(k, groups[j])]
    <2>1. \A j \in DOMAIN groups : g[groups[j][1]] = h[groups[j][1]]
        BY <1>2, Runs
    <2>2. LeftOutBelow(g, node) = SumFunction(a(g)) /\ LeftOutBelow(h, node) = SumFunction(a(h))
        BY DEF LeftOutBelow
    <2> HIDE DEF groups
    <2>3. a(g) = a(h)
        BY <2>1 DEF LeftOutOf
    <2> QED BY <2>2, <2>3
<1>3. LeftOut = CHOOSE g : g = [node \in Nodes |-> LeftOutBelow(g, node)]
    BY DEF LeftOut, LeftOutBelow, LeftOutOf, Total, Weight
<1>4. OfChildren(Nat, step)
    BY <1>1, <1>2 DEF OfChildren
<1>5. \A node \in Nodes, g \in [Nodes -> Nat] : step[<<node, g>>] = LeftOutBelow(g, node)
    OBVIOUS
<1> HIDE DEF step
<1>6. PICK f \in [Nodes -> Nat] : \A node \in Nodes : f[node] = step[<<node, f>>]
    BY <1>4, NodeRecursion
<1>7. \A node \in Nodes : f[node] = LeftOutBelow(f, node)
    BY <1>5, <1>6
<1>8. f = [node \in Nodes |-> LeftOutBelow(f, node)]
    BY <1>6, <1>7
<1>9. LeftOut = [node \in Nodes |-> LeftOutBelow(LeftOut, node)]
    BY <1>3, <1>8
<1> DEFINE W == {x \in Nodes : LeftOut[x] = f[x]}
<1>10. ASSUME NEW node \in Nodes, ToSet(node.children) \subseteq W PROVE node \in W
    <2>1. LeftOutBelow(LeftOut, node) = LeftOutBelow(f, node)
        BY <1>2, <1>10
    <2>2. LeftOut[node] = LeftOutBelow(LeftOut, node)
        BY <1>9
    <2> QED BY <1>7, <2>1, <2>2
<1> HIDE DEF W
<1>11. Nodes \subseteq W
    BY <1>10, NodeInduction
<1>12. \A node \in Nodes : LeftOut[node] = f[node]
    BY <1>11 DEF W
<1>13. LeftOut \in [Nodes -> Nat]
    BY <1>6, <1>9, <1>12
<1>14. \A node \in Nodes : LeftOut[node] = LeftOutBelow(LeftOut, node)
    BY <1>9
<1> QED BY <1>13, <1>14

(* A node is even when the members of every run below it that is drawn as one have as many
   parameters. *)
LEMMA EvenOf ==
    \A node \in Nodes :
        Even[node] =
            \A run \in ToSet(GroupByFingerprint(node.children)) :
                IF Len(run) = 1 \/ IsLeaf(run[1]) THEN Even[run[1]]
                ELSE \A member \in ToSet(run) : LeafParams[member] = LeafParams[run[1]]
<1> DEFINE Body(g, node) ==
              \A run \in ToSet(GroupByFingerprint(node.children)) :
                IF Len(run) = 1 \/ IsLeaf(run[1]) THEN g[run[1]]
                ELSE \A member \in ToSet(run) : LeafParams[member] = LeafParams[run[1]]
           step == [p \in Nodes \X [Nodes -> BOOLEAN] |-> Body(p[2], p[1])]
<1>1. \A node \in Nodes, g \in [Nodes -> BOOLEAN] : Body(g, node) \in BOOLEAN
    OBVIOUS
<1>2. ASSUME NEW node \in Nodes, NEW g, NEW h,
             \A child \in ToSet(node.children) : g[child] = h[child]
      PROVE  Body(g, node) = Body(h, node)
    <2>1. \A run \in ToSet(GroupByFingerprint(node.children)) : g[run[1]] = h[run[1]]
        <3> DEFINE groups == GroupByFingerprint(node.children)
        <3>1. \A j \in DOMAIN groups : groups[j][1] \in ToSet(node.children)
            BY Runs
        <3>2. \A run \in ToSet(groups) : \E j \in DOMAIN groups : run = groups[j]
            BY DEF ToSet
        <3> HIDE DEF groups
        <3>3. \A run \in ToSet(groups) : g[run[1]] = h[run[1]]
            BY <1>2, <3>1, <3>2
        <3> QED BY <3>3 DEF groups
    <2> QED BY <2>1
<1>3. Even = CHOOSE g : g = [node \in Nodes |-> Body(g, node)]
    BY DEF Even
<1> HIDE DEF Body
<1>4. OfChildren(BOOLEAN, step)
    BY <1>1, <1>2 DEF OfChildren
<1>5. \A node \in Nodes, g \in [Nodes -> BOOLEAN] : step[<<node, g>>] = Body(g, node)
    OBVIOUS
<1> HIDE DEF step
<1>6. PICK f \in [Nodes -> BOOLEAN] : \A node \in Nodes : f[node] = step[<<node, f>>]
    BY <1>4, NodeRecursion
<1>7. \A node \in Nodes : f[node] = Body(f, node)
    BY <1>5, <1>6
<1>8. f = [node \in Nodes |-> Body(f, node)]
    BY <1>6, <1>7
<1>9. Even = [node \in Nodes |-> Body(Even, node)]
    BY <1>3, <1>8
<1>10. \A node \in Nodes : Even[node] = Body(Even, node)
    BY <1>9
<1> QED BY <1>10 DEF Body

-----------------------------------------------------------------------------
(* Columns. *)

Names == {node.name : node \in Nodes}
FlowNodes == [path : Seq(Names), header : BOOLEAN, params : Nat]
FlowColumns == [rows : Seq(FlowNodes), count : Nat \ {0}, totalParams : Nat]

\* what a row, or a column, adds to a total
RowParams == [row \in FlowNodes |-> IF row.header THEN 0 ELSE row.params]
ColumnParams == [column \in FlowColumns |-> column.totalParams]

(* Prefixing the parent's name to rows changes none of their parameters. *)
LEMMA RowUnder ==
    ASSUME NEW node \in Nodes, NEW rows \in Seq(FlowNodes)
    PROVE  /\ Under(node.name, rows) \in Seq(FlowNodes)
           /\ Weight(RowParams, Under(node.name, rows)) = Weight(RowParams, rows)
<1> DEFINE below == Under(node.name, rows)
           moved(row) == [row EXCEPT !.path = <<node.name>> \o @]
<1>1. \A row \in FlowNodes : /\ moved(row) \in FlowNodes
                             /\ RowParams[moved(row)] = RowParams[row]
    <2> SUFFICES ASSUME NEW row \in FlowNodes
                 PROVE  moved(row) \in FlowNodes /\ RowParams[moved(row)] = RowParams[row]
        OBVIOUS
    <2>1. row.path \in Seq(Names)
        BY DEF FlowNodes
    <2> DEFINE path == <<node.name>> \o row.path
    <2>2. path \in Seq(Names)
        <3>1. node.name \in Names
            BY DEF Names
        <3>2. <<node.name>> \in Seq(Names)
            BY <3>1
        <3> QED BY <2>1, <3>2
    <2>3. moved(row) = [row EXCEPT !.path = path]
        OBVIOUS
    <2> HIDE DEF path, moved
    <2>4. moved(row) \in FlowNodes
        BY <2>2, <2>3 DEF FlowNodes
    <2>5. moved(row).header = row.header /\ moved(row).params = row.params
        BY <2>3 DEF FlowNodes
    <2> HIDE DEF moved
    <2> QED BY <2>4, <2>5 DEF RowParams
<1>2. /\ DOMAIN rows = 1 .. Len(rows) /\ Len(rows) \in Nat
      /\ \A i \in DOMAIN rows : rows[i] \in FlowNodes
    OBVIOUS
<1>3. below = [i \in 1 .. Len(rows) |-> moved(rows[i])]
    BY <1>2 DEF Under
<1> HIDE DEF moved
<1>4. below \in Seq(FlowNodes) /\ DOMAIN below = DOMAIN rows
    BY <1>1, <1>2, <1>3
<1>5. \A i \in DOMAIN rows : RowParams[below[i]] = RowParams[rows[i]]
    BY <1>1, <1>2, <1>3
<1> HIDE DEF below
<1>6. [i \in DOMAIN below |-> RowParams[below[i]]] = [i \in DOMAIN rows |-> RowParams[rows[i]]]
    BY <1>4, <1>5
<1>7. Weight(RowParams, below) = Weight(RowParams, rows)
    BY <1>6 DEF Weight
<1> QED BY <1>4, <1>7 DEF below

\* the body of CollectColumnNodes
Collected(g, node) ==
    LET groups == GroupByFingerprint(node.children)
    IN  <<BuildFlowNode(node)>>
        \o Under(node.name, FlattenSeq([j \in DOMAIN groups |-> g[groups[j][1]]]))

(* buildFlowNode gives a leaf its parameters and a container none. *)
LEMMA RowOfNode ==
    ASSUME NEW node \in Nodes
    PROVE  /\ BuildFlowNode(node) \in FlowNodes
           /\ RowParams[BuildFlowNode(node)] = IF IsLeaf(node) THEN node.params ELSE 0
<1>1. <<node.name>> \in Seq(Names)
    BY DEF Names
<1>2. node.params \in Nat /\ (~IsLeaf(node)) \in BOOLEAN
    BY DEF IsLeaf
<1> DEFINE row == BuildFlowNode(node)
<1>3. row.header = ~IsLeaf(node) /\ row.params = node.params
    BY DEF BuildFlowNode
<1>4. row \in FlowNodes
    BY <1>1, <1>2 DEF BuildFlowNode, FlowNodes
<1> HIDE DEF row
<1>5. RowParams[row] = IF IsLeaf(node) THEN node.params ELSE 0
    BY <1>3, <1>4 DEF RowParams
<1> QED BY <1>4, <1>5 DEF row

(* The rows collected at a node count its own parameters and those of the first child of each
   run. *)
LEMMA ListedRows ==
    ASSUME NEW node \in Nodes, NEW g, \A child \in ToSet(node.children) : g[child] \in Seq(FlowNodes)
    PROVE  LET groups == GroupByFingerprint(node.children)
           IN  /\ Collected(g, node) \in Seq(FlowNodes)
               /\ Weight(RowParams, Collected(g, node))
                    = (IF IsLeaf(node) THEN node.params ELSE 0)
                      + SumFunction([j \in DOMAIN groups |-> Weight(RowParams, g[groups[j][1]])])
<1> DEFINE groups == GroupByFingerprint(node.children)
           parts == [j \in DOMAIN groups |-> g[groups[j][1]]]
           below == Under(node.name, FlattenSeq(parts))
           row == BuildFlowNode(node)
<1>1. /\ groups \in Seq(Seq(Nodes))
      /\ \A j \in DOMAIN groups : groups[j][1] \in ToSet(node.children)
    BY Runs
<1>2. Collected(g, node) = <<row>> \o below
    BY DEF Collected
<1> HIDE DEF groups
<1>3. parts \in Seq(Seq(FlowNodes)) /\ DOMAIN parts = DOMAIN groups
    <2>1. DOMAIN groups = 1 .. Len(groups) /\ Len(groups) \in Nat
        BY <1>1
    <2>2. \A j \in DOMAIN groups : g[groups[j][1]] \in Seq(FlowNodes)
        BY <1>1
    <2> QED BY <2>1, <2>2
<1>4. \A j \in DOMAIN groups : parts[j] = g[groups[j][1]]
    OBVIOUS
<1> HIDE DEF parts
<1>5. RowParams \in [FlowNodes -> Nat]
    BY DEF RowParams, FlowNodes
<1>6. /\ FlattenSeq(parts) \in Seq(FlowNodes)
      /\ Weight(RowParams, FlattenSeq(parts))
            = SumFunction([j \in DOMAIN parts |-> Weight(RowParams, parts[j])])
    BY <1>3, <1>5, WeightFlatten
<1>7. [j \in DOMAIN parts |-> Weight(RowParams, parts[j])]
            = [j \in DOMAIN groups |-> Weight(RowParams, g[groups[j][1]])]
    BY <1>3, <1>4
<1>8. below \in Seq(FlowNodes) /\ Weight(RowParams, below) = Weight(RowParams, FlattenSeq(parts))
    BY <1>6, RowUnder
<1>9. row \in FlowNodes /\ RowParams[row] = IF IsLeaf(node) THEN node.params ELSE 0
    BY RowOfNode
<1> HIDE DEF below, row
<1>10. <<row>> \in Seq(FlowNodes) /\ Weight(RowParams, <<row>>) = RowParams[row]
    BY <1>5, <1>9, WeightOfOne
<1>11. /\ <<row>> \o below \in Seq(FlowNodes)
       /\ Weight(RowParams, <<row>> \o below) = Weight(RowParams, <<row>>) + Weight(RowParams, below)
    <2> DEFINE one == <<row>>
    <2>1. one \in Seq(FlowNodes)
        BY <1>10
    <2> HIDE DEF one
    <2>2. one \o below \in Seq(FlowNodes)
        BY <1>8, <2>1
    <2>3. Weight(RowParams, one \o below) = Weight(RowParams, one) + Weight(RowParams, below)
        BY <1>5, <1>8, <2>1, WeightConcat
    <2> QED BY <2>2, <2>3 DEF one
<1>12. /\ Collected(g, node) \in Seq(FlowNodes)
       /\ Weight(RowParams, Collected(g, node))
            = (IF IsLeaf(node) THEN node.params ELSE 0)
              + SumFunction([j \in DOMAIN groups |-> Weight(RowParams, g[groups[j][1]])])
    BY <1>2, <1>6, <1>7, <1>8, <1>9, <1>10, <1>11
<1> QED BY <1>12 DEF groups

(* collectColumnNodes is the recursion its definition states, and yields lists of rows. *)
LEMMA CollectOf ==
    /\ CollectColumnNodes \in [Nodes -> Seq(FlowNodes)]
    /\ \A node \in Nodes : CollectColumnNodes[node] = Collected(CollectColumnNodes, node)
<1> DEFINE V == Seq(FlowNodes)
           step == [p \in Nodes \X [Nodes -> V] |-> Collected(p[2], p[1])]
<1>1. \A node \in Nodes, g \in [Nodes -> V] : Collected(g, node) \in V
    BY Children, ListedRows
<1>2. ASSUME NEW node \in Nodes, NEW g, NEW h,
             \A child \in ToSet(node.children) : g[child] = h[child]
      PROVE  Collected(g, node) = Collected(h, node)
    <2> DEFINE groups == GroupByFingerprint(node.children)
    <2>1. \A j \in DOMAIN groups : g[groups[j][1]] = h[groups[j][1]]
        BY <1>2, Runs
    <2>2. [j \in DOMAIN groups |-> g[groups[j][1]]] = [j \in DOMAIN groups |-> h[groups[j][1]]]
        BY <2>1
    <2> QED BY <2>2 DEF Collected
<1>3. CollectColumnNodes = CHOOSE g : g = [node \in Nodes |-> Collected(g, node)]
    BY DEF CollectColumnNodes, Collected, FlatMap
<1>4. OfChildren(V, step)
    <2>1. <<>> \in V
        OBVIOUS
    <2> HIDE DEF V
    <2>2. step \in [Nodes \X [Nodes -> V] -> V]
        BY <1>1
    <2> QED BY <1>2, <2>1, <2>2 DEF OfChildren
<1>5. \A node \in Nodes, g \in [Nodes -> V] : step[<<node, g>>] = Collected(g, node)
    OBVIOUS
<1> HIDE DEF step, V
<1>6. PICK f \in [Nodes -> V] : \A node \in Nodes : f[node] = step[<<node, f>>]
    BY <1>4, NodeRecursion
<1>7. \A node \in Nodes : f[node] = Collected(f, node)
    BY <1>5, <1>6
<1>8. f = [node \in Nodes |-> Collected(f, node)]
    BY <1>6, <1>7
<1>9. CollectColumnNodes = [node \in Nodes |-> Collected(CollectColumnNodes, node)]
    BY <1>3, <1>8
<1> DEFINE W == {x \in Nodes : CollectColumnNodes[x] = f[x]}
<1>10. ASSUME NEW node \in Nodes, ToSet(node.children) \subseteq W PROVE node \in W
    <2>1. Collected(CollectColumnNodes, node) = Collected(f, node)
        BY <1>2, <1>10
    <2>2. CollectColumnNodes[node] = Collected(CollectColumnNodes, node)
        BY <1>9
    <2> QED BY <1>7, <2>1, <2>2
<1> HIDE DEF W
<1>11. Nodes \subseteq W
    BY <1>10, NodeInduction
<1>12. \A node \in Nodes : CollectColumnNodes[node] = f[node]
    BY <1>11 DEF W
<1>13. CollectColumnNodes \in [Nodes -> V]
    BY <1>6, <1>9, <1>12
<1>14. \A node \in Nodes : CollectColumnNodes[node] = Collected(CollectColumnNodes, node)
    BY <1>9
<1> QED BY <1>13, <1>14 DEF V

(* sumLeafParams is the sum of the rows' parameters, whatever order the reduction takes. *)
LEMMA SumOfRows ==
    ASSUME NEW rows \in Seq(FlowNodes)
    PROVE  SumLeafParams(rows) = Weight(RowParams, rows) /\ SumLeafParams(rows) \in Nat
<1>1. \A i \in DOMAIN rows : RowParams[rows[i]] = IF rows[i].header THEN 0 ELSE rows[i].params
    BY DEF RowParams
<1>2. [i \in DOMAIN rows |-> RowParams[rows[i]]]
        = [i \in DOMAIN rows |-> IF rows[i].header THEN 0 ELSE rows[i].params]
    BY <1>1
<1>3. SumLeafParams(rows) = Weight(RowParams, rows)
    BY <1>2 DEF SumLeafParams, Total, Weight
<1>4. RowParams \in [FlowNodes -> Nat]
    BY DEF RowParams, FlowNodes
<1>5. Weight(RowParams, rows) \in Nat
    BY <1>4, WeightConcat
<1> QED BY <1>3, <1>5

(* The rows of a module, and what it leaves unlisted, are all its leaves. *)
LEMMA RowsCount ==
    ASSUME NEW node \in Nodes
    PROVE  /\ Weight(RowParams, CollectColumnNodes[node]) \in Nat
           /\ Weight(RowParams, CollectColumnNodes[node]) + Unlisted[node] = LeafParams[node]
<1> DEFINE R(x) == Weight(RowParams, CollectColumnNodes[x])
           W == {x \in Nodes : R(x) + Unlisted[x] = LeafParams[x]}
<1>0. \A x \in Nodes : R(x) \in Nat
    <2>1. RowParams \in [FlowNodes -> Nat]
        BY DEF RowParams, FlowNodes
    <2> QED BY <2>1, CollectOf, WeightConcat
<1>1. ASSUME NEW x \in Nodes, ToSet(x.children) \subseteq W PROVE x \in W
    <2> DEFINE groups == GroupByFingerprint(x.children)
               own == IF IsLeaf(x) THEN x.params ELSE 0
               rows == [j \in DOMAIN groups |-> R(groups[j][1])]
               hidden == [j \in DOMAIN groups |->
                            Unlisted[groups[j][1]] + Weight(LeafParams, Tail(groups[j]))]
               all == [j \in DOMAIN groups |-> Weight(LeafParams, groups[j])]
    <2>1. x.children \in Seq(Nodes) /\ ToSet(x.children) \subseteq Nodes /\ x.params \in Nat
        BY Children
    <2>2. R(x) = own + SumFunction(rows)
        <3>1. \A child \in ToSet(x.children) : CollectColumnNodes[child] \in Seq(FlowNodes)
            BY <2>1, CollectOf
        <3>2. CollectColumnNodes[x] = Collected(CollectColumnNodes, x)
            BY CollectOf
        <3> QED BY <3>1, <3>2, ListedRows
    <2>3. Unlisted[x] = SumFunction(hidden)
        BY UnlistedOf DEF TwinsBelow
    <2>4. SumFunction(all) = Weight(LeafParams, x.children)
        <3>1. GroupsSum(groups, x.children, Len(x.children))
            BY <2>1, Grouping
        <3>2. SumFunction(all) = SumFunctionOnSet([i \in DOMAIN x.children |->
                                                LeafParams[x.children[i]]], 1 .. Len(x.children))
            BY <3>1, LeafParamsOf DEF GroupsSum
        <3>3. DOMAIN x.children = 1 .. Len(x.children)
            BY <2>1
        <3> QED BY <3>2, <3>3 DEF Weight, SumFunction
    <2>5. ASSUME NEW j \in DOMAIN groups
          PROVE  /\ rows[j] \in Nat /\ hidden[j] \in Nat /\ all[j] \in Nat
                 /\ all[j] = rows[j] + hidden[j]
        <3> DEFINE run == groups[j]
        <3>1. run \in Seq(Nodes) /\ Len(run) >= 1 /\ run[1] \in ToSet(x.children) /\ run[1] \in Nodes
            BY Runs
        <3>2. /\ rows[j] = R(run[1]) /\ all[j] = Weight(LeafParams, run)
              /\ hidden[j] = Unlisted[run[1]] + Weight(LeafParams, Tail(run))
            OBVIOUS
        <3> HIDE DEF run
        <3>3. R(run[1]) + Unlisted[run[1]] = LeafParams[run[1]]
            BY <1>1, <3>1
        <3>4. R(run[1]) \in Nat /\ Unlisted[run[1]] \in Nat
            BY <1>0, <3>1, UnlistedOf
        <3>5. /\ Weight(LeafParams, Tail(run)) \in Nat
              /\ Weight(LeafParams, run) = LeafParams[run[1]] + Weight(LeafParams, Tail(run))
            BY <3>1, RunHeadAndTail
        <3> HIDE DEF rows, hidden, all, R
        <3> QED BY <3>2, <3>3, <3>4, <3>5
    <2>6. DOMAIN rows = DOMAIN groups /\ DOMAIN hidden = DOMAIN groups /\ DOMAIN all = DOMAIN groups
        OBVIOUS
    <2>7. groups \in Seq(Seq(Nodes))
        BY Runs
    <2> DEFINE n == Len(groups)
    <2>8. n \in Nat /\ DOMAIN groups = 1 .. n
        <3> HIDE DEF groups
        <3> QED BY <2>7
    <2> HIDE DEF rows, hidden, all
    <2>9. /\ SumFunction(rows) \in Nat /\ SumFunction(rows) = SumFunctionOnSet(rows, 1 .. n)
          /\ SumFunction(hidden) \in Nat /\ SumFunction(hidden) = SumFunctionOnSet(hidden, 1 .. n)
          /\ SumFunction(all) = SumFunctionOnSet(all, 1 .. n)
        BY <2>5, <2>6, RunSum
    <2> HIDE DEF groups, n
    <2>10. SumFunction(all) = SumFunction(rows) + SumFunction(hidden)
        <3>1. \A i \in 1 .. n : rows[i] \in Nat /\ hidden[i] \in Nat /\ all[i] = rows[i] + hidden[i]
            BY <2>5, <2>8
        <3> QED BY <2>8, <2>9, <3>1, SumPlus
    <2>11. LeafParams[x] = own + Weight(LeafParams, x.children)
        <3>1. IsLeaf(x) => Weight(LeafParams, x.children) = 0
            BY WeightOfNone DEF IsLeaf
        <3>2. Weight(LeafParams, x.children) \in Nat
            BY <2>1, LeafParamsOf, WeightConcat
        <3>3. LeafParams[x] = IF IsLeaf(x) THEN x.params ELSE Weight(LeafParams, x.children)
            BY LeafParamsOf
        <3> QED BY <2>1, <3>1, <3>2, <3>3
    <2>12. own \in Nat
        BY <2>1
    <2> DEFINE a == SumFunction(rows)
               b == SumFunction(hidden)
    <2>13. R(x) = own + a /\ Unlisted[x] = b /\ LeafParams[x] = own + (a + b)
        BY <2>2, <2>3, <2>4, <2>10, <2>11
    <2>14. a \in Nat /\ b \in Nat
        BY <2>9
    <2> HIDE DEF own, R, a, b
    <2>15. R(x) + Unlisted[x] = LeafParams[x]
        BY <2>12, <2>13, <2>14
    <2> QED BY <2>15
<1> HIDE DEF W
<1>2. Nodes \subseteq W
    BY <1>1, NodeInduction
<1>3. R(node) + Unlisted[node] = LeafParams[node]
    BY <1>2 DEF W
<1> QED BY <1>0, <1>3

(* The rows of a column, and what its modules leave unlisted, are all leaves of the block. *)
LEMMA RepeatedRows ==
    ASSUME NEW first \in Nodes
    PROVE  /\ RowsOf(first) \in Seq(FlowNodes)
           /\ Weight(Unlisted, first.children) \in Nat
           /\ ~IsLeaf(first) => SumLeafParams(RowsOf(first)) + Weight(Unlisted, first.children)
                                    = LeafParams[first]
<1> DEFINE c == first.children
           parts == [i \in DOMAIN c |-> CollectColumnNodes[c[i]]]
           flat == FlattenSeq(parts)
<1>1. c \in Seq(Nodes) /\ DOMAIN c = 1 .. Len(c) /\ Len(c) \in Nat
    BY Children
<1>2. \A i \in DOMAIN c : c[i] \in ToSet(c) /\ c[i] \in Nodes
    BY <1>1 DEF ToSet
<1>3. RowsOf(first) = Under(first.name, flat)
    BY DEF RowsOf, FlatMap
<1> HIDE DEF c
<1>4. parts \in Seq(Seq(FlowNodes)) /\ DOMAIN parts = DOMAIN c
    <2>1. \A i \in DOMAIN c : CollectColumnNodes[c[i]] \in Seq(FlowNodes)
        BY <1>2, CollectOf
    <2> QED BY <1>1, <2>1
<1>5. \A i \in DOMAIN c : parts[i] = CollectColumnNodes[c[i]]
    OBVIOUS
<1> HIDE DEF parts
<1>6. RowParams \in [FlowNodes -> Nat]
    BY DEF RowParams, FlowNodes
<1>7. /\ flat \in Seq(FlowNodes)
      /\ Weight(RowParams, flat) = SumFunction([k \in DOMAIN parts |-> Weight(RowParams, parts[k])])
    BY <1>4, <1>6, WeightFlatten
<1> HIDE DEF flat
<1>8. /\ RowsOf(first) \in Seq(FlowNodes)
      /\ Weight(RowParams, RowsOf(first)) = Weight(RowParams, flat)
    BY <1>3, <1>7, RowUnder
<1>9. Weight(Unlisted, c) \in Nat
    BY <1>1, UnlistedOf, WeightConcat
<1>10. ASSUME ~IsLeaf(first)
       PROVE  SumLeafParams(RowsOf(first)) + Weight(Unlisted, c) = LeafParams[first]
    <2> DEFINE rows == [k \in DOMAIN parts |-> Weight(RowParams, parts[k])]
               hidden == [k \in DOMAIN c |-> Unlisted[c[k]]]
               all == [k \in DOMAIN c |-> LeafParams[c[k]]]
               n == Len(c)
    <2>1. ASSUME NEW k \in 1 .. n
          PROVE  rows[k] \in Nat /\ hidden[k] \in Nat /\ all[k] = rows[k] + hidden[k]
        <3>1. c[k] \in Nodes /\ parts[k] = CollectColumnNodes[c[k]] /\ k \in DOMAIN c
            BY <1>1, <1>2, <1>5
        <3>2. /\ rows[k] = Weight(RowParams, parts[k])
              /\ hidden[k] = Unlisted[c[k]] /\ all[k] = LeafParams[c[k]]
            BY <1>4, <3>1
        <3>3. /\ Weight(RowParams, parts[k]) \in Nat /\ Unlisted[c[k]] \in Nat
              /\ Weight(RowParams, parts[k]) + Unlisted[c[k]] = LeafParams[c[k]]
            BY <3>1, RowsCount, UnlistedOf
        <3> HIDE DEF rows, hidden, all
        <3> QED BY <3>2, <3>3
    <2>2. DOMAIN rows = 1 .. n /\ DOMAIN hidden = 1 .. n /\ DOMAIN all = 1 .. n /\ n \in Nat
        BY <1>1, <1>4
    <2>3. /\ Weight(RowParams, flat) = SumFunctionOnSet(rows, 1 .. n)
          /\ Weight(Unlisted, c) = SumFunctionOnSet(hidden, 1 .. n)
          /\ Weight(LeafParams, c) = SumFunctionOnSet(all, 1 .. n)
        BY <1>7, <2>2 DEF Weight, SumFunction
    <2> HIDE DEF rows, hidden, all, n
    <2>4. SumFunctionOnSet(all, 1 .. n)
            = SumFunctionOnSet(rows, 1 .. n) + SumFunctionOnSet(hidden, 1 .. n)
        BY <2>1, <2>2, SumPlus
    <2>5. LeafParams[first] = Weight(LeafParams, c)
        BY <1>10, LeafParamsOf DEF c
    <2>6. SumLeafParams(RowsOf(first)) = Weight(RowParams, flat)
        BY <1>8, SumOfRows
    <2> QED BY <2>3, <2>4, <2>5, <2>6
<1> QED BY <1>8, <1>9, <1>10 DEF c

(* Prefixing the parent's name to columns changes none of their parameters. *)
LEMMA ColumnUnder ==
    ASSUME NEW node \in Nodes, NEW columns \in Seq(FlowColumns)
    PROVE  /\ UnderAll(node.name, columns) \in Seq(FlowColumns)
           /\ Weight(ColumnParams, UnderAll(node.name, columns)) = Weight(ColumnParams, columns)
<1> DEFINE below == UnderAll(node.name, columns)
           moved(column) == [column EXCEPT !.rows = Under(node.name, @)]
<1>1. \A column \in FlowColumns :
        moved(column) \in FlowColumns /\ ColumnParams[moved(column)] = ColumnParams[column]
    <2> SUFFICES ASSUME NEW column \in FlowColumns
                 PROVE  /\ moved(column) \in FlowColumns
                        /\ ColumnParams[moved(column)] = ColumnParams[column]
        OBVIOUS
    <2> DEFINE rows == Under(node.name, column.rows)
    <2>1. column.rows \in Seq(FlowNodes)
        BY DEF FlowColumns
    <2>2. rows \in Seq(FlowNodes)
        BY <2>1, RowUnder
    <2>3. moved(column) = [column EXCEPT !.rows = rows]
        OBVIOUS
    <2> HIDE DEF rows, moved
    <2>4. moved(column) \in FlowColumns
        BY <2>2, <2>3 DEF FlowColumns
    <2>5. moved(column).totalParams = column.totalParams
        BY <2>3 DEF FlowColumns
    <2> QED BY <2>4, <2>5 DEF ColumnParams
<1>2. /\ DOMAIN columns = 1 .. Len(columns) /\ Len(columns) \in Nat
      /\ \A i \in DOMAIN columns : columns[i] \in FlowColumns
    OBVIOUS
<1>3. below = [i \in 1 .. Len(columns) |-> moved(columns[i])]
    BY <1>2 DEF UnderAll
<1> HIDE DEF moved
<1>4. below \in Seq(FlowColumns) /\ DOMAIN below = DOMAIN columns
    BY <1>1, <1>2, <1>3
<1>5. \A i \in DOMAIN columns : ColumnParams[below[i]] = ColumnParams[columns[i]]
    BY <1>1, <1>2, <1>3
<1> HIDE DEF below
<1>6. [i \in DOMAIN below |-> ColumnParams[below[i]]]
        = [i \in DOMAIN columns |-> ColumnParams[columns[i]]]
    BY <1>4, <1>5
<1>7. Weight(ColumnParams, below) = Weight(ColumnParams, columns)
    BY <1>6 DEF Weight
<1> QED BY <1>4, <1>7 DEF below

\* the body of ExpandNodesToColumns
ColumnsOf(g, run) ==
    IF IsLeaf(run[1]) THEN [i \in DOMAIN run |-> LeafColumn(run[i])]
    ELSE IF Len(run) > 1 THEN <<RepeatedColumn(run)>>
    ELSE g[run[1]]

Expanded(g, node) ==
    LET groups == GroupByFingerprint(node.children)
    IN  UnderAll(node.name, FlattenSeq([j \in DOMAIN groups |-> ColumnsOf(g, groups[j])]))

(* The column of a leaf counts the parameters of the leaf. *)
LEMMA ColumnOfLeaf ==
    ASSUME NEW node \in Nodes
    PROVE  LeafColumn(node) \in FlowColumns /\ ColumnParams[LeafColumn(node)] = node.params
<1> DEFINE rows == <<BuildFlowNode(node)>>
           column == LeafColumn(node)
<1>1. BuildFlowNode(node) \in FlowNodes
    BY RowOfNode
<1>2. rows \in Seq(FlowNodes)
    BY <1>1
<1>3. column = [rows |-> rows, count |-> 1, totalParams |-> node.params]
    BY DEF LeafColumn
<1> HIDE DEF rows, column
<1>4. column \in FlowColumns /\ column.totalParams = node.params
    BY <1>2, <1>3 DEF FlowColumns
<1>5. ColumnParams[column] = node.params
    BY <1>4 DEF ColumnParams
<1> QED BY <1>4, <1>5 DEF column

(* The column of a repeated run counts its first member times the length of the run. *)
LEMMA ColumnOfRun ==
    ASSUME NEW run \in Seq(Nodes), Len(run) >= 1
    PROVE  /\ RepeatedColumn(run) \in FlowColumns
           /\ ColumnParams[RepeatedColumn(run)] = SumLeafParams(RowsOf(run[1])) * Len(run)
<1> DEFINE rows == RowsOf(run[1])
           column == RepeatedColumn(run)
           total == SumLeafParams(rows) * Len(run)
<1>1. rows \in Seq(FlowNodes) /\ SumLeafParams(rows) \in Nat
    BY RepeatedRows, SumOfRows
<1>2. Len(run) \in Nat \ {0}
    OBVIOUS
<1>3. total \in Nat
    <2> HIDE DEF rows
    <2> QED BY <1>1, <1>2
<1>4. column = [rows |-> rows, count |-> Len(run), totalParams |-> total]
    BY DEF RepeatedColumn
<1>5. column \in FlowColumns /\ column.totalParams = total
    <2> HIDE DEF rows, column, total
    <2> QED BY <1>1, <1>2, <1>3, <1>4 DEF FlowColumns
<1> HIDE DEF column, total
<1>6. ColumnParams[column] = total
    BY <1>5 DEF ColumnParams
<1> QED BY <1>5, <1>6 DEF column, total

(* Every run of children becomes a list of columns. *)
LEMMA RunColumns ==
    ASSUME NEW g, NEW run \in Seq(Nodes), Len(run) >= 1,
           Len(run) = 1 => g[run[1]] \in Seq(FlowColumns)
    PROVE  ColumnsOf(g, run) \in Seq(FlowColumns)
<1>1. CASE IsLeaf(run[1])
    <2> DEFINE columns == [i \in DOMAIN run |-> LeafColumn(run[i])]
    <2>1. \A i \in DOMAIN run : LeafColumn(run[i]) \in FlowColumns
        BY ColumnOfLeaf
    <2>2. DOMAIN run = 1 .. Len(run) /\ Len(run) \in Nat
        OBVIOUS
    <2>3. columns \in Seq(FlowColumns)
        BY <2>1, <2>2
    <2> QED BY <1>1, <2>3 DEF ColumnsOf
<1>2. CASE ~IsLeaf(run[1]) /\ Len(run) > 1
    <2>1. RepeatedColumn(run) \in FlowColumns
        BY ColumnOfRun
    <2> DEFINE column == RepeatedColumn(run)
    <2> HIDE DEF column
    <2>2. <<column>> \in Seq(FlowColumns)
        BY <2>1 DEF column
    <2>3. ColumnsOf(g, run) = <<column>>
        BY <1>2 DEF ColumnsOf, column
    <2> QED BY <2>2, <2>3
<1>3. CASE ~IsLeaf(run[1]) /\ ~(Len(run) > 1)
    <2>1. Len(run) = 1
        <3> DEFINE n == Len(run)
        <3>1. n \in Nat /\ n >= 1 /\ ~(n > 1)
            BY <1>3
        <3> HIDE DEF n
        <3>2. n = 1
            BY <3>1
        <3> QED BY <3>2 DEF n
    <2> QED BY <1>3, <2>1 DEF ColumnsOf
<1> QED BY <1>1, <1>2, <1>3

(* The columns of a run, and what they leave out, count the parameters of all its members. *)
LEMMA RunAddsUp ==
    ASSUME NEW g, NEW run \in Seq(Nodes), Len(run) >= 1,
           \A i \in 1 .. Len(run) : IsLeaf(run[i]) <=> IsLeaf(run[1]),
           Len(run) = 1 /\ ~IsLeaf(run[1]) =>
                Weight(ColumnParams, g[run[1]]) + LeftOut[run[1]] = LeafParams[run[1]],
           Len(run) # 1 /\ ~IsLeaf(run[1]) =>
                \A i \in 1 .. Len(run) : LeafParams[run[i]] = LeafParams[run[1]]
    PROVE  Weight(ColumnParams, ColumnsOf(g, run)) + LeftOutOf(LeftOut, run)
                = Weight(LeafParams, run)
<1>0. /\ ColumnParams \in [FlowColumns -> Nat] /\ LeafParams \in [Nodes -> Nat]
      /\ DOMAIN run = 1 .. Len(run) /\ Len(run) \in Nat /\ run[1] \in Nodes
    BY LeafParamsOf DEF ColumnParams, FlowColumns
<1>1. CASE IsLeaf(run[1])
    <2> DEFINE columns == [i \in DOMAIN run |-> LeafColumn(run[i])]
    <2>1. \A i \in DOMAIN run : ColumnParams[LeafColumn(run[i])] = LeafParams[run[i]]
        BY <1>0, <1>1, ColumnOfLeaf, LeafParamsOf
    <2>2. DOMAIN columns = DOMAIN run
        OBVIOUS
    <2>3. [i \in DOMAIN columns |-> ColumnParams[columns[i]]]
            = [i \in DOMAIN run |-> LeafParams[run[i]]]
        BY <2>1, <2>2
    <2>4. ColumnsOf(g, run) = columns
        BY <1>1 DEF ColumnsOf
    <2> HIDE DEF columns
    <2>5. Weight(ColumnParams, ColumnsOf(g, run)) = Weight(LeafParams, run)
        BY <2>3, <2>4 DEF Weight
    <2>6. LeftOutOf(LeftOut, run) = 0
        BY <1>1 DEF LeftOutOf
    <2>7. Weight(LeafParams, run) \in Nat
        BY <1>0, WeightConcat
    <2> QED BY <2>5, <2>6, <2>7
<1>2. CASE ~IsLeaf(run[1]) /\ Len(run) > 1
    <2> DEFINE c == LeafParams[run[1]]
               f == [i \in DOMAIN run |-> LeafParams[run[i]]]
    <2>1. c \in Nat /\ \A i \in 1 .. Len(run) : f[i] = c
        BY <1>0, <1>2
    <2>2. DOMAIN f = 1 .. Len(run)
        BY <1>0
    <2>3. Weight(LeafParams, run) = SumFunctionOnSet(f, 1 .. Len(run))
        BY <2>2 DEF Weight, SumFunction
    <2> HIDE DEF f, c
    <2>4. Weight(LeafParams, run) = c * Len(run)
        BY <1>0, <2>1, <2>3, SumConstant
    <2> DEFINE rows == SumLeafParams(RowsOf(run[1]))
               hidden == Weight(Unlisted, run[1].children)
               times == Len(run)
    <2>5. rows \in Nat /\ hidden \in Nat /\ rows + hidden = c
        BY <1>0, <1>2, RepeatedRows, SumOfRows DEF c
    <2>6. /\ RepeatedColumn(run) \in FlowColumns
          /\ ColumnParams[RepeatedColumn(run)] = rows * times
        BY ColumnOfRun
    <2> DEFINE column == RepeatedColumn(run)
    <2>7. ColumnsOf(g, run) = <<column>> /\ LeftOutOf(LeftOut, run) = times * hidden
        BY <1>2 DEF ColumnsOf, LeftOutOf
    <2>8. column \in FlowColumns /\ ColumnParams[column] = rows * times
        BY <2>6
    <2>9. times \in Nat
        BY <1>0
    <2> HIDE DEF column, rows, hidden, times
    <2>10. Weight(ColumnParams, <<column>>) = rows * times
        BY <1>0, <2>8, WeightOfOne
    <2>11. c * times = rows * times + times * hidden
        BY <2>1, <2>5, <2>9
    <2> QED BY <2>4, <2>7, <2>10, <2>11 DEF times
<1>3. CASE ~IsLeaf(run[1]) /\ ~(Len(run) > 1)
    <2>1. Len(run) = 1
        <3> DEFINE n == Len(run)
        <3>1. n \in Nat /\ n >= 1 /\ ~(n > 1)
            BY <1>3
        <3> HIDE DEF n
        <3>2. n = 1
            BY <3>1
        <3> QED BY <3>2 DEF n
    <2>2. Weight(ColumnParams, ColumnsOf(g, run)) + LeftOutOf(LeftOut, run) = LeafParams[run[1]]
        BY <1>3, <2>1 DEF ColumnsOf, LeftOutOf
    <2>3. run = <<run[1]>>
        BY <2>1
    <2>4. Weight(LeafParams, <<run[1]>>) = LeafParams[run[1]]
        BY <1>0, WeightOfOne
    <2> QED BY <2>2, <2>3, <2>4
<1> QED BY <1>1, <1>2, <1>3

\* the parts of an expanded module, and what they weigh
LEMMA ExpandedColumns ==
    ASSUME NEW node \in Nodes, NEW g,
           \A child \in ToSet(node.children) : g[child] \in Seq(FlowColumns)
    PROVE  LET groups == GroupByFingerprint(node.children)
           IN  /\ Expanded(g, node) \in Seq(FlowColumns)
               /\ Weight(ColumnParams, Expanded(g, node))
                    = SumFunction([j \in DOMAIN groups |->
                                    Weight(ColumnParams, ColumnsOf(g, groups[j]))])
<1> DEFINE groups == GroupByFingerprint(node.children)
           parts == [j \in DOMAIN groups |-> ColumnsOf(g, groups[j])]
           flat == FlattenSeq(parts)
<1>1. /\ groups \in Seq(Seq(Nodes))
      /\ \A j \in DOMAIN groups : /\ groups[j] \in Seq(Nodes) /\ Len(groups[j]) >= 1
                                  /\ groups[j][1] \in ToSet(node.children)
    BY Runs
<1>2. Expanded(g, node) = UnderAll(node.name, flat)
    BY DEF Expanded
<1> HIDE DEF groups
<1>3. \A j \in DOMAIN groups : ColumnsOf(g, groups[j]) \in Seq(FlowColumns)
    BY <1>1, RunColumns
<1>4. parts \in Seq(Seq(FlowColumns)) /\ DOMAIN parts = DOMAIN groups
    <2>1. DOMAIN groups = 1 .. Len(groups) /\ Len(groups) \in Nat
        BY <1>1
    <2> QED BY <1>3, <2>1
<1>5. \A j \in DOMAIN groups : parts[j] = ColumnsOf(g, groups[j])
    OBVIOUS
<1> HIDE DEF parts
<1>6. ColumnParams \in [FlowColumns -> Nat]
    BY DEF ColumnParams, FlowColumns
<1>7. /\ flat \in Seq(FlowColumns)
      /\ Weight(ColumnParams, flat)
            = SumFunction([k \in DOMAIN parts |-> Weight(ColumnParams, parts[k])])
    BY <1>4, <1>6, WeightFlatten
<1> HIDE DEF flat
<1>8. /\ Expanded(g, node) \in Seq(FlowColumns)
      /\ Weight(ColumnParams, Expanded(g, node)) = Weight(ColumnParams, flat)
    BY <1>2, <1>7, ColumnUnder
<1>9. [k \in DOMAIN parts |-> Weight(ColumnParams, parts[k])]
        = [j \in DOMAIN groups |-> Weight(ColumnParams, ColumnsOf(g, groups[j]))]
    BY <1>4, <1>5
<1> QED BY <1>7, <1>8, <1>9 DEF groups

(* expandNodesToColumns is the recursion its definition states, and yields lists of columns. *)
LEMMA ExpandOf ==
    /\ ExpandNodesToColumns \in [Nodes -> Seq(FlowColumns)]
    /\ \A node \in Nodes : ExpandNodesToColumns[node] = Expanded(ExpandNodesToColumns, node)
<1> DEFINE V == Seq(FlowColumns)
           step == [p \in Nodes \X [Nodes -> V] |-> Expanded(p[2], p[1])]
<1>1. \A node \in Nodes, g \in [Nodes -> V] : Expanded(g, node) \in V
    BY Children, ExpandedColumns
<1>2. ASSUME NEW node \in Nodes, NEW g, NEW h,
             \A child \in ToSet(node.children) : g[child] = h[child]
      PROVE  Expanded(g, node) = Expanded(h, node)
    <2> DEFINE groups == GroupByFingerprint(node.children)
    <2>1. \A j \in DOMAIN groups : g[groups[j][1]] = h[groups[j][1]]
        BY <1>2, Runs
    <2>2. \A j \in DOMAIN groups : ColumnsOf(g, groups[j]) = ColumnsOf(h, groups[j])
        BY <2>1 DEF ColumnsOf
    <2>3. [j \in DOMAIN groups |-> ColumnsOf(g, groups[j])]
            = [j \in DOMAIN groups |-> ColumnsOf(h, groups[j])]
        BY <2>2
    <2> QED BY <2>3 DEF Expanded
<1>3. ExpandNodesToColumns = CHOOSE g : g = [node \in Nodes |-> Expanded(g, node)]
    BY DEF ExpandNodesToColumns, Expanded, ColumnsOf, FlatMap
<1>4. OfChildren(V, step)
    <2>1. <<>> \in V
        OBVIOUS
    <2> HIDE DEF V
    <2>2. step \in [Nodes \X [Nodes -> V] -> V]
        BY <1>1
    <2> QED BY <1>2, <2>1, <2>2 DEF OfChildren
<1>5. \A node \in Nodes, g \in [Nodes -> V] : step[<<node, g>>] = Expanded(g, node)
    OBVIOUS
<1> HIDE DEF step, V
<1>6. PICK f \in [Nodes -> V] : \A node \in Nodes : f[node] = step[<<node, f>>]
    BY <1>4, NodeRecursion
<1>7. \A node \in Nodes : f[node] = Expanded(f, node)
    BY <1>5, <1>6
<1>8. f = [node \in Nodes |-> Expanded(f, node)]
    BY <1>6, <1>7
<1>9. ExpandNodesToColumns = [node \in Nodes |-> Expanded(ExpandNodesToColumns, node)]
    BY <1>3, <1>8
<1> DEFINE W == {x \in Nodes : ExpandNodesToColumns[x] = f[x]}
<1>10. ASSUME NEW node \in Nodes, ToSet(node.children) \subseteq W PROVE node \in W
    <2>1. Expanded(ExpandNodesToColumns, node) = Expanded(f, node)
        BY <1>2, <1>10
    <2>2. ExpandNodesToColumns[node] = Expanded(ExpandNodesToColumns, node)
        BY <1>9
    <2> QED BY <1>7, <2>1, <2>2
<1> HIDE DEF W
<1>11. Nodes \subseteq W
    BY <1>10, NodeInduction
<1>12. \A node \in Nodes : ExpandNodesToColumns[node] = f[node]
    BY <1>11 DEF W
<1>13. ExpandNodesToColumns \in [Nodes -> V]
    BY <1>6, <1>9, <1>12
<1>14. \A node \in Nodes :
            ExpandNodesToColumns[node] = Expanded(ExpandNodesToColumns, node)
    BY <1>9
<1> QED BY <1>13, <1>14 DEF V

\* the columns of a module, and what they leave out, are the parameters of its leaves
LEMMA ColumnsAddUp ==
    ASSUME NEW node \in Nodes, ~IsLeaf(node), Even[node]
    PROVE  Weight(ColumnParams, ExpandNodesToColumns[node]) + LeftOut[node] = LeafParams[node]
<1> DEFINE E == ExpandNodesToColumns
           W == {x \in Nodes : ~IsLeaf(x) /\ Even[x] =>
                                    Weight(ColumnParams, E[x]) + LeftOut[x] = LeafParams[x]}
<1>1. ASSUME NEW x \in Nodes, ToSet(x.children) \subseteq W PROVE x \in W
    <2> SUFFICES ASSUME ~IsLeaf(x), Even[x]
                 PROVE  Weight(ColumnParams, E[x]) + LeftOut[x] = LeafParams[x]
        OBVIOUS
    <2> DEFINE groups == GroupByFingerprint(x.children)
    <2>1. /\ groups \in Seq(Seq(Nodes))
          /\ \A j \in DOMAIN groups :
                /\ groups[j] \in Seq(Nodes) /\ Len(groups[j]) >= 1
                /\ groups[j][1] \in ToSet(x.children) /\ groups[j][1] \in Nodes
                /\ \A i \in 1 .. Len(groups[j]) :
                    /\ groups[j][i] \in ToSet(x.children) /\ groups[j][i] \in Nodes
                    /\ IsLeaf(groups[j][i]) <=> IsLeaf(groups[j][1])
        BY Runs
    <2>2. \A run \in ToSet(groups) :
                IF Len(run) = 1 \/ IsLeaf(run[1]) THEN Even[run[1]]
                ELSE \A member \in ToSet(run) : LeafParams[member] = LeafParams[run[1]]
        BY EvenOf
    <2>3. x.children \in Seq(Nodes) /\ ToSet(x.children) \subseteq Nodes
        BY Children
    <2>4. GroupsSum(groups, x.children, Len(x.children))
        BY <2>3, Grouping
    <2>5. Weight(ColumnParams, E[x])
            = SumFunction([j \in DOMAIN groups |->
                            Weight(ColumnParams, ColumnsOf(E, groups[j]))])
        <3>1. /\ \A child \in ToSet(x.children) : E[child] \in Seq(FlowColumns)
              /\ E[x] = Expanded(E, x)
            BY <2>3, ExpandOf
        <3> HIDE DEF E
        <3> QED BY <3>1, ExpandedColumns
    <2>6. LeftOut[x] = SumFunction([j \in DOMAIN groups |-> LeftOutOf(LeftOut, groups[j])])
        BY LeftOutIs DEF LeftOutBelow
    <2> DEFINE drawn == [j \in DOMAIN groups |-> Weight(ColumnParams, ColumnsOf(E, groups[j]))]
               hidden == [j \in DOMAIN groups |-> LeftOutOf(LeftOut, groups[j])]
               all == [j \in DOMAIN groups |-> Weight(LeafParams, groups[j])]
               n == Len(groups)
    <2>7. ASSUME NEW j \in DOMAIN groups
          PROVE  /\ drawn[j] \in Nat /\ hidden[j] \in Nat /\ all[j] \in Nat
                 /\ all[j] = drawn[j] + hidden[j]
        <3> DEFINE run == groups[j]
        <3>1. /\ run \in Seq(Nodes) /\ Len(run) >= 1
              /\ run[1] \in ToSet(x.children) /\ run[1] \in Nodes
              /\ \A i \in 1 .. Len(run) : IsLeaf(run[i]) <=> IsLeaf(run[1])
            BY <2>1
        <3>2. run \in ToSet(groups)
            BY DEF ToSet
        <3>3. /\ drawn[j] = Weight(ColumnParams, ColumnsOf(E, run))
              /\ hidden[j] = LeftOutOf(LeftOut, run) /\ all[j] = Weight(LeafParams, run)
            OBVIOUS
        <3> HIDE DEF run, E, groups, drawn, hidden, all
        <3>4. Len(run) = 1 /\ ~IsLeaf(run[1]) =>
                    Weight(ColumnParams, E[run[1]]) + LeftOut[run[1]] = LeafParams[run[1]]
            BY <1>1, <2>2, <3>1, <3>2
        <3>5. ASSUME Len(run) # 1, ~IsLeaf(run[1]), NEW i \in 1 .. Len(run)
              PROVE  LeafParams[run[i]] = LeafParams[run[1]]
            <4>1. run[i] \in ToSet(run)
                BY <3>1 DEF ToSet
            <4> QED BY <2>2, <3>2, <3>5, <4>1
        <3>6. Weight(ColumnParams, ColumnsOf(E, run)) + LeftOutOf(LeftOut, run)
                = Weight(LeafParams, run)
            BY <3>1, <3>4, <3>5, RunAddsUp
        <3>7. E[run[1]] \in Seq(FlowColumns)
            BY <3>1, ExpandOf DEF E
        <3>8. Weight(ColumnParams, ColumnsOf(E, run)) \in Nat
            <4>1. ColumnsOf(E, run) \in Seq(FlowColumns)
                BY <3>1, <3>7, RunColumns
            <4>2. ColumnParams \in [FlowColumns -> Nat]
                BY DEF ColumnParams, FlowColumns
            <4> QED BY <4>1, <4>2, WeightConcat
        <3>9. Weight(LeafParams, run) \in Nat
            BY <3>1, LeafParamsOf, WeightConcat
        <3>10. LeftOutOf(LeftOut, run) \in Nat
            <4>1. Weight(Unlisted, run[1].children) \in Nat /\ LeftOut[run[1]] \in Nat
                BY <3>1, RepeatedRows, LeftOutIs
            <4> QED BY <3>1, <4>1 DEF LeftOutOf
        <3> QED BY <3>3, <3>6, <3>8, <3>9, <3>10
    <2>8. DOMAIN drawn = DOMAIN groups /\ DOMAIN hidden = DOMAIN groups /\ DOMAIN all = DOMAIN groups
        OBVIOUS
    <2>9. n \in Nat /\ DOMAIN groups = 1 .. n
        <3> HIDE DEF groups
        <3> QED BY <2>1
    <2> HIDE DEF drawn, hidden, all
    <2>10. /\ SumFunction(drawn) = SumFunctionOnSet(drawn, 1 .. n)
           /\ SumFunction(hidden) = SumFunctionOnSet(hidden, 1 .. n)
           /\ SumFunction(all) = SumFunctionOnSet(all, 1 .. n)
        BY <2>7, <2>8, RunSum
    <2> HIDE DEF groups, n, E
    <2>11. SumFunction(all) = SumFunction(drawn) + SumFunction(hidden)
        <3>1. \A i \in 1 .. n : drawn[i] \in Nat /\ hidden[i] \in Nat /\ all[i] = drawn[i] + hidden[i]
            BY <2>7, <2>9
        <3>2. SumFunctionOnSet(all, 1 .. n)
                = SumFunctionOnSet(drawn, 1 .. n) + SumFunctionOnSet(hidden, 1 .. n)
            BY <2>9, <3>1, SumPlus
        <3> QED BY <2>10, <3>2
    <2>12. SumFunction(all) = Weight(LeafParams, x.children)
        <3> DEFINE f == [i \in DOMAIN x.children |-> LeafParams[x.children[i]]]
        <3>1. SumFunction(all) = SumFunctionOnSet(f, 1 .. Len(x.children))
            BY <2>4, LeafParamsOf DEF GroupsSum, all
        <3>2. DOMAIN f = 1 .. Len(x.children)
            BY <2>3
        <3> QED BY <3>1, <3>2 DEF Weight, SumFunction
    <2>13. LeafParams[x] = Weight(LeafParams, x.children)
        BY LeafParamsOf
    <2> QED BY <2>5, <2>6, <2>11, <2>12, <2>13 DEF drawn, hidden
<1> HIDE DEF W
<1>2. Nodes \subseteq W
    BY <1>1, NodeInduction
<1> QED BY <1>2 DEF W

\* the figure of a model
LEMMA FigureAddsUp ==
    ASSUME NEW tree \in Architectures
    PROVE  /\ FlattenToFlowColumns[tree] \in Seq(FlowColumns)
           /\ Even[tree] =>
                Total(FlattenToFlowColumns[tree], LAMBDA column : column.totalParams)
                    + LeftOut[tree] = LeafParams[tree]
<1> DEFINE columns == FlattenToFlowColumns[tree]
<1>1. tree \in Nodes /\ ~IsLeaf(tree)
    BY Children
<1>2. columns = ExpandNodesToColumns[tree]
    BY DEF FlattenToFlowColumns
<1>3. columns \in Seq(FlowColumns)
    BY <1>1, <1>2, ExpandOf
<1>4. Even[tree] => Weight(ColumnParams, columns) + LeftOut[tree] = LeafParams[tree]
    BY <1>1, <1>2, ColumnsAddUp
<1> HIDE DEF columns
<1>5. \A i \in DOMAIN columns : ColumnParams[columns[i]] = columns[i].totalParams
    BY <1>3 DEF ColumnParams
<1>6. [i \in DOMAIN columns |-> ColumnParams[columns[i]]]
        = [i \in DOMAIN columns |-> columns[i].totalParams]
    BY <1>5
<1>7. Total(columns, LAMBDA column : column.totalParams) = Weight(ColumnParams, columns)
    BY <1>6 DEF Total, Weight
<1> QED BY <1>3, <1>4, <1>7 DEF columns

-----------------------------------------------------------------------------
(* The grid. *)

(* Quotient and remainder by a positive number, as the grid of the canvas uses them. *)
LEMMA Division ==
    ASSUME NEW n \in Nat, NEW p \in Nat \ {0}
    PROVE  /\ n \div p \in Nat /\ n % p \in 0 .. p - 1
           /\ n % p = n - p * (n \div p)
    OBVIOUS

(* The larger of two numbers. *)
LEMMA LargerOfTwo ==
    ASSUME NEW a \in Int, NEW b \in Int
    PROVE  Max({a, b}) = IF a >= b THEN a ELSE b
<1>1. (IF a >= b THEN a ELSE b) \in {a, b}
    OBVIOUS
<1> QED BY <1>1 DEF Max

(* The smaller of two numbers. *)
LEMMA SmallerOfTwo ==
    ASSUME NEW a \in Int, NEW b \in Int
    PROVE  Min({a, b}) = IF a <= b THEN a ELSE b
<1>1. (IF a <= b THEN a ELSE b) \in {a, b}
    OBVIOUS
<1> QED BY <1>1 DEF Min

(* A non-empty set of naturals with a bound has a largest element. *)
LEMMA LargestOf ==
    ASSUME NEW N \in Nat, NEW S \in SUBSET (0 .. N), S # {}
    PROVE  Max(S) \in S /\ \A x \in S : x <= Max(S)
<1>1. \E x \in S : \A y \in S : x >= y
    BY GreatestElement
<1>2. Max(S) \in S /\ \A y \in S : Max(S) >= y
    BY <1>1 DEF Max
<1> QED BY <1>2

\* each of some numbers is at most their sum
LEMMA BelowSum ==
    ASSUME NEW n \in Nat, NEW f, \A i \in 1 .. n : f[i] \in Nat
    PROVE  /\ SumFunctionOnSet(f, 1 .. n) \in Nat
           /\ \A i \in 1 .. n : f[i] <= SumFunctionOnSet(f, 1 .. n)
<1>1. IsFiniteSet(1 .. n)
    BY FS_Interval
<1>2. SumFunctionOnSet(f, 1 .. n) \in Nat
    BY SumToNat
<1>3. ASSUME NEW i \in 1 .. n PROVE f[i] <= SumFunctionOnSet(f, 1 .. n)
    <2> DEFINE S == 1 .. n
               R == S \ {i}
    <2>1. SumFunctionOnSet(f, S) = f[i] + SumFunctionOnSet(f, R)
        BY <1>1, SumElement
    <2>2. IsFiniteSet(R) /\ \A x \in R : f[x] \in Nat
        BY <1>1, FS_Subset
    <2> HIDE DEF R
    <2>3. SumFunctionOnSet(f, R) \in Nat
        BY <2>2, SumElement
    <2>4. f[i] \in Nat
        OBVIOUS
    <2> QED BY <2>1, <2>3, <2>4
<1> QED BY <1>2, <1>3

(* The height of a card is a natural number. *)
LEMMA HeightOfColumn ==
    ASSUME NEW column \in FlowColumns
    PROVE  ColumnHeight(column) \in Nat
<1> DEFINE rows == column.rows
           f == [i \in DOMAIN rows |-> NodeHeight(rows[i]) + NodeGap]
<1>1. rows \in Seq(FlowNodes)
    BY DEF FlowColumns
<1> HIDE DEF rows
<1>2. DOMAIN f = 1 .. Len(rows) /\ Len(rows) \in Nat /\ \A i \in 1 .. Len(rows) : f[i] \in Nat
    BY <1>1 DEF NodeHeight, NodeGap
<1>3. ColumnHeight(column) = ColumnHeader + 2 * Padding + SumFunctionOnSet(f, 1 .. Len(rows))
    BY <1>2 DEF ColumnHeight, Total, SumFunction, rows
<1> HIDE DEF f
<1>4. SumFunctionOnSet(f, 1 .. Len(rows)) \in Nat
    BY <1>2, SumToNat
<1> QED BY <1>3, <1>4 DEF ColumnHeader, Padding

(* A row of the grid is as high as each of its cards. *)
LEMMA HeightOfRow ==
    ASSUME NEW flat \in Seq(FlowColumns), NEW perRow, NEW r
    PROVE  /\ RowHeight(flat, perRow, r) \in Nat
           /\ \A i \in DOMAIN flat : GridRow(i, perRow) = r =>
                    ColumnHeight(flat[i]) <= RowHeight(flat, perRow, r)
<1> DEFINE n == Len(flat)
           f == [i \in 1 .. n |-> ColumnHeight(flat[i])]
           total == SumFunctionOnSet(f, 1 .. n)
           heights == {ColumnHeight(flat[i]) : i \in {j \in DOMAIN flat : GridRow(j, perRow) = r}}
           S == {200} \cup heights
<1>1. n \in Nat /\ DOMAIN flat = 1 .. n /\ \A i \in 1 .. n : flat[i] \in FlowColumns
    OBVIOUS
<1>2. \A i \in 1 .. n : f[i] = ColumnHeight(flat[i]) /\ f[i] \in Nat
    BY <1>1, HeightOfColumn
<1> HIDE DEF f, n
<1>3. total \in Nat /\ \A i \in 1 .. n : f[i] <= total
    BY <1>1, <1>2, BelowSum
<1> HIDE DEF total
<1>4. S \in SUBSET (0 .. 200 + total) /\ S # {}
    BY <1>1, <1>2, <1>3
<1>5. RowHeight(flat, perRow, r) = Max(S)
    BY DEF RowHeight
<1>6. \A i \in DOMAIN flat : GridRow(i, perRow) = r => ColumnHeight(flat[i]) \in S
    OBVIOUS
<1> HIDE DEF S
<1>7. 200 + total \in Nat
    BY <1>3
<1>8. Max(S) \in S /\ \A x \in S : x <= Max(S)
    BY <1>4, <1>7, LargestOf
<1>9. Max(S) \in Nat
    <2>1. Max(S) \in 0 .. 200 + total
        BY <1>4, <1>8
    <2> QED BY <1>7, <2>1
<1> QED BY <1>5, <1>6, <1>8, <1>9

(* A row of the grid starts where the one before ends, a gap further. *)
LEMMA TopOfRow ==
    ASSUME NEW flat \in Seq(FlowColumns), NEW perRow
    PROVE  /\ \A r \in Nat : RowTop(flat, perRow, r) \in Nat
           /\ \A r \in Nat : RowTop(flat, perRow, r + 1)
                = RowTop(flat, perRow, r) + RowHeight(flat, perRow, r) + RowGap
<1> DEFINE f(r) == [k \in 1 .. r |-> RowHeight(flat, perRow, k - 1) + RowGap]
           h(k) == RowHeight(flat, perRow, k)
<1>1. \A k \in Int : h(k) \in Nat /\ h(k) + RowGap \in Nat
    BY HeightOfRow DEF RowGap
<1>2. ASSUME NEW r \in Nat
      PROVE  /\ DOMAIN f(r) = 1 .. r
             /\ \A k \in 1 .. r : f(r)[k] = h(k - 1) + RowGap /\ f(r)[k] \in Nat
    <2>1. ASSUME NEW k \in 1 .. r PROVE f(r)[k] = h(k - 1) + RowGap /\ f(r)[k] \in Nat
        <3>1. f(r)[k] = h(k - 1) + RowGap
            OBVIOUS
        <3>2. k - 1 \in Int
            OBVIOUS
        <3> HIDE DEF h
        <3> QED BY <1>1, <3>1, <3>2
    <2> QED BY <2>1
<1>3. \A r \in Nat : RowTop(flat, perRow, r) = SumFunctionOnSet(f(r), 1 .. r)
    BY <1>2 DEF RowTop, SumFunction
<1> HIDE DEF f, h
<1>4. \A r \in Nat : RowTop(flat, perRow, r) \in Nat
    BY <1>2, <1>3, SumToNat
<1>5. ASSUME NEW r \in Nat
      PROVE  RowTop(flat, perRow, r + 1) = RowTop(flat, perRow, r) + (h(r) + RowGap)
    <2> DEFINE a == f(r)
               b == f(r + 1)
    <2>1. /\ \A k \in 1 .. r + 1 : b[k] = h(k - 1) + RowGap /\ b[k] \in Nat
          /\ \A k \in 1 .. r : a[k] = h(k - 1) + RowGap
        BY <1>2
    <2>2. RowTop(flat, perRow, r + 1) = SumFunctionOnSet(b, 1 .. r + 1)
        BY <1>3
    <2>3. RowTop(flat, perRow, r) = SumFunctionOnSet(a, 1 .. r)
        BY <1>3
    <2> HIDE DEF a, b
    <2>4. SumFunctionOnSet(b, 1 .. r + 1) = SumFunctionOnSet(b, 1 .. r) + b[r + 1]
        BY <2>1, SumNext
    <2>5. \A k \in 1 .. r : b[k] \in Nat /\ b[k] = a[k]
        BY <2>1
    <2>6. SumFunctionOnSet(b, 1 .. r) = SumFunctionOnSet(a, 1 .. r)
        BY <2>5, SumToSame
    <2>7. b[r + 1] = h(r) + RowGap
        BY <2>1
    <2> QED BY <2>2, <2>3, <2>4, <2>6, <2>7
<1>6. ASSUME NEW r \in Nat
      PROVE  RowTop(flat, perRow, r + 1) = RowTop(flat, perRow, r) + h(r) + RowGap
    <2>1. h(r) \in Nat /\ RowTop(flat, perRow, r) \in Nat
        BY <1>1, <1>4
    <2> QED BY <1>5, <2>1 DEF RowGap
<1> QED BY <1>4, <1>6 DEF h

(* A later row of the grid lies wholly below an earlier one. *)
LEMMA RowsBelow ==
    ASSUME NEW flat \in Seq(FlowColumns), NEW perRow, NEW r \in Nat, NEW q \in Nat, r < q
    PROVE  RowTop(flat, perRow, r) + RowHeight(flat, perRow, r) + RowGap
                <= RowTop(flat, perRow, q)
<1> DEFINE top(k) == RowTop(flat, perRow, k)
           h(k) == RowHeight(flat, perRow, k)
           W == {n \in Nat : top(r) + h(r) + RowGap <= top((r + 1) + n)}
<1>1. /\ \A k \in Nat : top(k) \in Nat /\ h(k) \in Nat
      /\ \A k \in Nat : top(k + 1) = top(k) + h(k) + RowGap
    BY HeightOfRow, TopOfRow
<1> HIDE DEF top, h
<1>2. 0 \in W
    BY <1>1 DEF RowGap
<1>3. ASSUME NEW n \in Nat, n \in W PROVE n + 1 \in W
    <2>1. top(((r + 1) + n) + 1) = top((r + 1) + n) + h((r + 1) + n) + RowGap
        BY <1>1
    <2>0. (r + 1) + n \in Nat /\ ((r + 1) + n) + 1 = (r + 1) + (n + 1)
        OBVIOUS
    <2>2. /\ top((r + 1) + n) \in Nat /\ h((r + 1) + n) \in Nat
          /\ ((r + 1) + n) + 1 = (r + 1) + (n + 1)
          /\ top(r) \in Nat /\ h(r) \in Nat
        BY <1>1, <2>0
    <2>3. top((r + 1) + (n + 1)) = top((r + 1) + n) + h((r + 1) + n) + RowGap
        BY <2>1, <2>2
    <2>4. top(r) + h(r) + RowGap <= top((r + 1) + n)
        BY <1>3
    <2>5. top(r) + h(r) + RowGap <= top((r + 1) + (n + 1))
        BY <2>2, <2>3, <2>4 DEF RowGap
    <2> QED BY <2>5
<1> HIDE DEF W
<1>4. q - (r + 1) \in W
    BY <1>2, <1>3, SetInduction
<1>5. (r + 1) + (q - (r + 1)) = q
    OBVIOUS
<1> QED BY <1>4, <1>5 DEF W, top, h

\* a card is beside another, or above it
Apart(a, b) ==
    \/ a.x + ColumnWidth < b.x \/ b.x + ColumnWidth < a.x
    \/ a.y + a.height < b.y \/ b.y + b.height < a.y

\* where a card is: row r, and c cards before it in the row
Placed(card, r, c, flat, per, i) ==
    /\ r \in Nat /\ c \in 0 .. per - 1 /\ i - 1 = per * r + c
    /\ card.x = c * 268 /\ card.y = RowTop(flat, per, r) /\ card.y \in Nat
    /\ card.height \in Nat /\ card.height <= RowHeight(flat, per, r)

(* The place of the i-th card: its row, its column, and the corner they give. *)
LEMMA PlaceOfCard ==
    ASSUME NEW flat \in Seq(FlowColumns), NEW per \in Nat \ {0}, NEW i \in DOMAIN flat
    PROVE  Placed(CardAt(flat, per, i), GridRow(i, per), (i - 1) % per, flat, per, i)
<1> DEFINE card == CardAt(flat, per, i)
           r == GridRow(i, per)
           c == (i - 1) % per
           n == i - 1
<1>1. n \in Nat /\ flat[i] \in FlowColumns
    OBVIOUS
<1>2. r = n \div per /\ c = n % per
    BY DEF GridRow
<1>3. card.x = c * 268 /\ card.y = RowTop(flat, per, r) /\ card.height = ColumnHeight(flat[i])
    BY DEF CardAt, ColumnWidth, ColumnGap
<1> HIDE DEF card, r, c, n
<1>4. r \in Nat /\ c \in 0 .. per - 1 /\ c = n - per * r
    BY <1>1, <1>2, Division
<1>5. n = per * r + c
    <2> DEFINE m == per * r
    <2>1. m \in Int
        BY <1>4
    <2>2. c = n - m /\ c \in Int
        BY <1>4
    <2> HIDE DEF m
    <2>3. n = m + c
        BY <1>1, <2>1, <2>2
    <2> QED BY <2>3 DEF m
<1>6. card.height \in Nat /\ card.height <= RowHeight(flat, per, r)
    BY <1>1, <1>3, HeightOfColumn, HeightOfRow DEF r
<1>7. card.y \in Nat
    BY <1>3, <1>4, TopOfRow
<1>8. Placed(card, r, c, flat, per, i)
    BY <1>3, <1>4, <1>5, <1>6, <1>7 DEF Placed, n
<1> QED BY <1>8 DEF card, r, c

(* No two cards of the canvas overlap. *)
LEMMA CardsApart ==
    ASSUME NEW flat \in Seq(FlowColumns), NEW per \in Nat \ {0},
           NEW i \in DOMAIN flat, NEW j \in DOMAIN flat, i # j
    PROVE  Apart(CardAt(flat, per, i), CardAt(flat, per, j))
<1> DEFINE a == CardAt(flat, per, i)
           b == CardAt(flat, per, j)
           r == GridRow(i, per)
           q == GridRow(j, per)
           c == (i - 1) % per
           d == (j - 1) % per
           top(k) == RowTop(flat, per, k)
           h(k) == RowHeight(flat, per, k)
<1>0. i \in 1 .. Len(flat) /\ j \in 1 .. Len(flat) /\ Len(flat) \in Nat
    OBVIOUS
<1>a. Placed(a, r, c, flat, per, i) /\ Placed(b, q, d, flat, per, j)
    BY PlaceOfCard
<1> HIDE DEF a, b, r, q, c, d
<1>1. /\ r \in Nat /\ c \in 0 .. per - 1 /\ i - 1 = per * r + c
      /\ a.x = c * 268 /\ a.y = top(r) /\ a.y \in Nat /\ a.height \in Nat /\ a.height <= h(r)
    BY <1>a DEF Placed
<1>2. /\ q \in Nat /\ d \in 0 .. per - 1 /\ j - 1 = per * q + d
      /\ b.x = d * 268 /\ b.y = top(q) /\ b.y \in Nat /\ b.height \in Nat /\ b.height <= h(q)
    BY <1>a DEF Placed
<1>3. i \in Int /\ j \in Int /\ \A k \in Nat : top(k) \in Nat /\ h(k) \in Nat
    <2>1. i \in Int /\ j \in Int
        BY <1>0
    <2>2. \A k \in Nat : top(k) \in Nat /\ h(k) \in Nat
        BY TopOfRow, HeightOfRow
    <2> QED BY <2>1, <2>2
<1>4. /\ r < q => top(r) + h(r) + 80 <= top(q)
      /\ q < r => top(q) + h(q) + 80 <= top(r)
    BY <1>1, <1>2, RowsBelow DEF RowGap
<1> HIDE DEF top, h
<1>5. CASE r = q
    <2>1. c # d
        <3> SUFFICES ASSUME c = d PROVE FALSE
            OBVIOUS
        <3>1. i - 1 = j - 1
            BY <1>1, <1>2, <1>5
        <3> QED BY <1>3, <3>1
    <2>2. c \in Int /\ d \in Int
        BY <1>1, <1>2
    <2>3. c * 268 + 220 < d * 268 \/ d * 268 + 220 < c * 268
        BY <2>1, <2>2
    <2>4. a.x + 220 < b.x \/ b.x + 220 < a.x
        BY <1>1, <1>2, <2>3
    <2>5. Apart(a, b)
        BY <2>4 DEF Apart, ColumnWidth
    <2> QED BY <2>5 DEF a, b
<1>6. CASE r < q
    <2>1. top(r) \in Nat /\ h(r) \in Nat /\ top(q) \in Nat
        BY <1>1, <1>2, <1>3
    <2>2. a.y + a.height < b.y
        BY <1>1, <1>2, <1>4, <1>6, <2>1
    <2>3. Apart(a, b)
        BY <2>2 DEF Apart
    <2> QED BY <2>3 DEF a, b
<1>7. CASE q < r
    <2>1. top(r) \in Nat /\ h(q) \in Nat /\ top(q) \in Nat
        BY <1>1, <1>2, <1>3
    <2>2. b.y + b.height < a.y
        BY <1>1, <1>2, <1>4, <1>7, <2>1
    <2>3. Apart(a, b)
        BY <2>2 DEF Apart
    <2> QED BY <2>3 DEF a, b
<1> QED BY <1>1, <1>2, <1>5, <1>6, <1>7

(* Every card lies within the width and the height of the canvas. *)
LEMMA CardWithin ==
    ASSUME NEW flat \in Seq(FlowColumns), NEW per \in Nat \ {0}, NEW i \in DOMAIN flat
    PROVE  LET card == CardAt(flat, per, i)
           IN  /\ card.x + ColumnWidth <= CanvasWidth(flat, per)
               /\ card.y + card.height <= CanvasHeight(flat, per)
<1> DEFINE card == CardAt(flat, per, i)
           r == GridRow(i, per)
           c == (i - 1) % per
           n == Len(flat)
           last == GridRow(n, per)
           d == (n - 1) % per
           m == Min({n, per})
           top(k) == RowTop(flat, per, k)
           h(k) == RowHeight(flat, per, k)
<1>2. i \in 1 .. n /\ n \in Nat \ {0} /\ n \in DOMAIN flat
    OBVIOUS
<1>a. Placed(card, r, c, flat, per, i)
    BY PlaceOfCard
<1>b. Placed(CardAt(flat, per, n), last, d, flat, per, n)
    BY <1>2, PlaceOfCard
<1>1. /\ r \in Nat /\ c \in 0 .. per - 1 /\ i - 1 = per * r + c
      /\ card.x = c * 268 /\ card.y = top(r) /\ card.y \in Nat
      /\ card.height \in Nat /\ card.height <= h(r)
    <2> HIDE DEF card, r, c
    <2> QED BY <1>a DEF Placed
<1>3. last \in Nat /\ d \in 0 .. per - 1 /\ n - 1 = per * last + d
    BY <1>b DEF Placed
<1>4. m = IF n <= per THEN n ELSE per
    BY <1>2, SmallerOfTwo
<1>5. CanvasWidth(flat, per) = m * 268 - 48
    BY DEF CanvasWidth, ColumnWidth, ColumnGap
<1>6. CanvasHeight(flat, per) = top(last) + h(last)
    BY DEF CanvasHeight
<1>7. \A k \in Nat : top(k) \in Nat /\ h(k) \in Nat
    BY TopOfRow, HeightOfRow
<1>8. r < last => top(r) + h(r) + 80 <= top(last)
    BY <1>1, <1>3, RowsBelow DEF RowGap
<1> HIDE DEF card, r, c, n, last, d, m, top, h
<1>9. c <= m - 1 /\ m \in Nat
    <2> DEFINE p == per * r
    <2>1. p \in Nat
        BY <1>1
    <2>2. i - 1 = p + c /\ c \in Nat /\ c <= per - 1
        BY <1>1
    <2> HIDE DEF p
    <2>3. c <= n - 1
        BY <1>2, <2>1, <2>2
    <2> QED BY <1>2, <1>4, <2>2, <2>3
<1>10. card.x + 220 <= CanvasWidth(flat, per)
    <2>1. c \in Nat
        BY <1>1
    <2>2. c * 268 + 220 <= m * 268 - 48
        BY <1>9, <2>1
    <2> QED BY <1>1, <1>5, <2>2
<1>11. r <= last
    <2> SUFFICES ASSUME last + 1 <= r PROVE FALSE
        BY <1>1, <1>3
    <2> DEFINE p == per * r
               l == per * last
    <2>1. p \in Int /\ l \in Int /\ per * (last + 1) = l + per
        BY <1>1, <1>3
    <2>2. per * (last + 1) <= p
        <3>1. PICK x \in Nat : r = (last + 1) + x
            <4>1. r - (last + 1) \in Nat /\ r = (last + 1) + (r - (last + 1))
                BY <1>1, <1>3
            <4> QED BY <4>1
        <3>2. p = per * (last + 1) + per * x
            BY <1>3, <3>1
        <3>3. per * x \in Nat /\ per * (last + 1) \in Int
            BY <1>3, <3>1
        <3> QED BY <3>2, <3>3
    <2>3. n - 1 = l + d /\ d \in Nat /\ d <= per - 1 /\ i - 1 = p + c /\ c \in Nat
        BY <1>1, <1>3
    <2> HIDE DEF p, l
    <2> QED BY <1>2, <2>1, <2>2, <2>3
<1>12. card.y + card.height <= CanvasHeight(flat, per)
    <2>1. top(r) \in Nat /\ h(r) \in Nat /\ top(last) \in Nat /\ h(last) \in Nat
        BY <1>1, <1>3, <1>7
    <2>2. top(r) + h(r) <= top(last) + h(last)
        <3>1. CASE r = last
            BY <2>1, <3>1
        <3>2. CASE r # last
            BY <1>1, <1>3, <1>8, <1>11, <2>1, <3>2
        <3> QED BY <3>1, <3>2
    <2> QED BY <1>1, <1>6, <2>1, <2>2
<1> QED BY <1>10, <1>12 DEF card, ColumnWidth

(* Half of a natural number is a natural number that is no larger. *)
LEMMA Half ==
    ASSUME NEW n \in Nat
    PROVE  n \div 2 \in Nat /\ n \div 2 <= n /\ 2 * (n \div 2) <= n /\ n <= 2 * (n \div 2) + 1
    OBVIOUS

(* The next card is in the same row or in a lower one. *)
LEMMA RowsGrow ==
    ASSUME NEW flat \in Seq(FlowColumns), NEW per \in Nat \ {0}, NEW i \in 1 .. Len(flat) - 1
    PROVE  GridRow(i, per) <= GridRow(i + 1, per)
<1> DEFINE r == GridRow(i, per)
           q == GridRow(i + 1, per)
           c == (i - 1) % per
           d == ((i + 1) - 1) % per
<1>1. i \in DOMAIN flat /\ i + 1 \in DOMAIN flat /\ i \in Nat
    OBVIOUS
<1>2. /\ Placed(CardAt(flat, per, i), r, c, flat, per, i)
      /\ Placed(CardAt(flat, per, i + 1), q, d, flat, per, i + 1)
    BY <1>1, PlaceOfCard
<1>3. /\ r \in Nat /\ c \in 0 .. per - 1 /\ i - 1 = per * r + c
      /\ q \in Nat /\ d \in 0 .. per - 1 /\ (i + 1) - 1 = per * q + d
    <2> HIDE DEF r, q, c, d
    <2> QED BY <1>2 DEF Placed
<1> HIDE DEF r, q, c, d
<1> SUFFICES ASSUME q + 1 <= r PROVE FALSE
    BY <1>3 DEF r, q
<1> DEFINE p == per * r
           l == per * q
<1>4. p \in Int /\ l \in Int /\ per * (q + 1) = l + per
    BY <1>3
<1>5. per * (q + 1) <= p
    <2>1. PICK x \in Nat : r = (q + 1) + x
        <3>1. r - (q + 1) \in Nat /\ r = (q + 1) + (r - (q + 1))
            BY <1>3
        <3> QED BY <3>1
    <2>2. p = per * (q + 1) + per * x
        BY <1>3, <2>1
    <2>3. per * x \in Nat /\ per * (q + 1) \in Int
        BY <1>3, <2>1
    <2> QED BY <2>2, <2>3
<1>6. i - 1 = p + c /\ i = l + d /\ c \in Nat /\ d \in Nat /\ d <= per - 1
    BY <1>1, <1>3
<1> HIDE DEF p, l
<1> QED BY <1>1, <1>4, <1>5, <1>6

\* where an arrow starts and ends, on a canvas of this size
Reaches(e, width, height) ==
    /\ width \in Nat /\ height \in Nat
    /\ e.x1 \in 268 .. 48 + width /\ e.x2 \in 48 .. 48 + width
    /\ e.y1 \in 48 .. 48 + height /\ e.y2 \in 48 .. 48 + height

(* An arrow starts and ends at cards, and one that wraps ends a gap lower at least. *)
LEMMA EndsOfArrow ==
    ASSUME NEW flat \in Seq(FlowColumns), NEW per \in Nat \ {0}, NEW i \in 1 .. Len(flat) - 1
    PROVE  LET e == Ends(flat, per, i)
           IN  /\ Reaches(e, CanvasWidth(flat, per), CanvasHeight(flat, per))
               /\ Wraps(per, i) => e.y1 + 80 <= e.y2
<1> DEFINE from == CardAt(flat, per, i)
           to == CardAt(flat, per, i + 1)
           r == GridRow(i, per)
           q == GridRow(i + 1, per)
           c == (i - 1) % per
           d == ((i + 1) - 1) % per
           top(k) == RowTop(flat, per, k)
           h(k) == RowHeight(flat, per, k)
           W == CanvasWidth(flat, per)
           H == CanvasHeight(flat, per)
           e == Ends(flat, per, i)
<1>1. i \in DOMAIN flat /\ i + 1 \in DOMAIN flat
    OBVIOUS
<1>2. Placed(from, r, c, flat, per, i) /\ Placed(to, q, d, flat, per, i + 1)
    BY <1>1, PlaceOfCard
<1>3. /\ from.x + 220 <= W /\ from.y + from.height <= H
      /\ to.x + 220 <= W /\ to.y + to.height <= H
    BY <1>1, CardWithin DEF ColumnWidth
<1>4. /\ e.x1 = 48 + from.x + 220 /\ e.y1 = 48 + from.y + from.height \div 2
      /\ e.x2 = 48 + to.x /\ e.y2 = 48 + to.y + to.height \div 2
    BY DEF Ends, CanvasPadding, ColumnGap, ColumnWidth
<1>5. \A k \in Nat : top(k) \in Nat /\ h(k) \in Nat
    BY TopOfRow, HeightOfRow
<1>6. W \in Int /\ H \in Int
    <2>1. Len(flat) \in Nat \ {0} /\ Len(flat) \in DOMAIN flat
        BY <1>1
    <2>2. Min({Len(flat), per}) \in Int
        BY <2>1, SmallerOfTwo
    <2>3. W \in Int
        BY <2>2 DEF CanvasWidth, ColumnWidth, ColumnGap
    <2>4. GridRow(Len(flat), per) \in Nat
        BY <2>1, PlaceOfCard DEF Placed
    <2> DEFINE last == GridRow(Len(flat), per)
    <2>5. H = top(last) + h(last)
        BY DEF CanvasHeight
    <2> HIDE DEF last, top, h
    <2>6. top(last) \in Nat /\ h(last) \in Nat
        BY <1>5, <2>4 DEF last
    <2> QED BY <2>3, <2>5, <2>6
<1>7. r <= q
    BY RowsGrow
<1>8. Wraps(per, i) => r # q
    BY DEF Wraps
<1>9. r \in Nat /\ q \in Nat /\ (r < q => top(r) + h(r) + 80 <= top(q))
    <2>1. r \in Nat /\ q \in Nat
        BY <1>2 DEF Placed
    <2> QED BY <2>1, RowsBelow DEF RowGap
<1> HIDE DEF from, to, r, q, c, d, top, h, W, H, e
<1>10. /\ c \in Nat /\ from.x = c * 268 /\ from.y = top(r) /\ from.y \in Nat
       /\ from.height \in Nat /\ from.height <= h(r)
       /\ d \in Nat /\ to.x = d * 268 /\ to.y = top(q) /\ to.y \in Nat /\ to.height \in Nat
    BY <1>2 DEF Placed, top, h
<1>11. /\ from.height \div 2 \in Nat /\ from.height \div 2 <= from.height
       /\ to.height \div 2 \in Nat /\ to.height \div 2 <= to.height
    BY <1>10, Half
<1> DEFINE a == from.height \div 2
           b == to.height \div 2
<1>12. /\ e.y1 = 48 + from.y + a /\ e.y2 = 48 + to.y + b
       /\ a \in Nat /\ a <= from.height /\ b \in Nat /\ b <= to.height
    BY <1>4, <1>11
<1> HIDE DEF a, b
<1>13. from.x \in Nat /\ to.x \in Nat
    BY <1>10
<1>14. Reaches(e, W, H)
    <2>1. W \in Nat /\ H \in Nat
        BY <1>3, <1>6, <1>10, <1>13
    <2> DEFINE fx == from.x
               tx == to.x
               fy == from.y
               ty == to.y
               fh == from.height
               th == to.height
    <2>4. /\ fx \in Nat /\ tx \in Nat /\ fx + 220 <= W /\ tx + 220 <= W
          /\ e.x1 = 48 + fx + 220 /\ e.x2 = 48 + tx
        BY <1>3, <1>4, <1>13
    <2>5. /\ fy \in Nat /\ ty \in Nat /\ fy + fh <= H /\ ty + th <= H /\ fh \in Nat /\ th \in Nat
          /\ e.y1 = 48 + fy + a /\ e.y2 = 48 + ty + b
          /\ a \in Nat /\ a <= fh /\ b \in Nat /\ b <= th
        BY <1>3, <1>10, <1>12
    <2> HIDE DEF fx, tx, fy, ty, fh, th
    <2>2. e.x1 \in 268 .. 48 + W /\ e.x2 \in 48 .. 48 + W
        BY <2>1, <2>4
    <2>3. e.y1 \in 48 .. 48 + H /\ e.y2 \in 48 .. 48 + H
        BY <2>1, <2>5
    <2> QED BY <2>1, <2>2, <2>3 DEF Reaches
<1>15. ASSUME Wraps(per, i) PROVE e.y1 + 80 <= e.y2
    <2>1. top(r) + h(r) + 80 <= top(q)
        BY <1>7, <1>8, <1>9, <1>15
    <2>2. top(r) \in Nat /\ h(r) \in Nat /\ top(q) \in Nat
        BY <1>5, <1>9 DEF top, h
    <2> QED BY <1>10, <1>12, <2>1, <2>2
<1> QED BY <1>14, <1>15 DEF e, W, H

(* Every arrow is within the picture, and one that wraps only goes down. *)
LEMMA ArrowsFit ==
    ASSUME NEW flat \in Seq(FlowColumns), NEW per \in Nat \ {0}, NEW i \in 1 .. Len(flat) - 1
    PROVE  ArrowFits(flat, per, i)
<1> DEFINE e == Ends(flat, per, i)
           W == CanvasWidth(flat, per)
           H == CanvasHeight(flat, per)
           path == ArrowPath(flat, per, i)
           right == WrapRight(flat, per)
           left == WrapLeft
           cx == (e.x1 + e.x2) \div 2
           midY == (e.y1 + e.y2) \div 2
<1>1. Reaches(e, W, H) /\ (Wraps(per, i) => e.y1 + 80 <= e.y2)
    BY EndsOfArrow
<1>2. right = 72 + W /\ left = 24
    <2>1. 48 \div 2 = 24
        OBVIOUS
    <2>2. W \in Nat
        BY <1>1 DEF Reaches
    <2> HIDE DEF W
    <2>3. right = 48 + W + 48 \div 2 /\ left = 48 - 48 \div 2
        BY DEF WrapRight, WrapLeft, CanvasPadding, ColumnGap, W
    <2> QED BY <2>1, <2>2, <2>3
<1>3. SvgWidth(flat, per) = W + 96 /\ SvgHeight(flat, per) = H + 96
    BY <1>1 DEF SvgWidth, SvgHeight, CanvasPadding, ColumnGap, Reaches
<1>4. ASSUME ~Wraps(per, i)
      PROVE  path = <<[x |-> e.x1, y |-> e.y1], [x |-> cx, y |-> e.y1],
                      [x |-> cx, y |-> e.y2], [x |-> e.x2, y |-> e.y2]>>
    BY <1>4 DEF ArrowPath, SameRowPath
<1>5. ASSUME Wraps(per, i)
      PROVE  path =
                <<[x |-> e.x1, y |-> e.y1],
                  [x |-> right - 8, y |-> e.y1], [x |-> right, y |-> e.y1],
                  [x |-> right, y |-> e.y1 + 8], [x |-> right, y |-> midY - 8],
                  [x |-> right, y |-> midY], [x |-> right - 8, y |-> midY],
                  [x |-> left + 8, y |-> midY], [x |-> left, y |-> midY],
                  [x |-> left, y |-> midY + 8], [x |-> left, y |-> e.y2 - 8],
                  [x |-> left, y |-> e.y2], [x |-> left + 8, y |-> e.y2],
                  [x |-> e.x2, y |-> e.y2]>>
    BY <1>5 DEF ArrowPath, WrapPath, Corner
<1> DEFINE x1 == e.x1
           x2 == e.x2
           y1 == e.y1
           y2 == e.y2
           px(k) == path[k].x
           py(k) == path[k].y
           inside(k) == px(k) \in 0 .. W + 96 /\ py(k) \in 0 .. H + 96
<1>6. /\ W \in Nat /\ H \in Nat
      /\ x1 \in 268 .. 48 + W /\ x2 \in 48 .. 48 + W
      /\ y1 \in 48 .. 48 + H /\ y2 \in 48 .. 48 + H
    <2> HIDE DEF e, W, H
    <2> QED BY <1>1 DEF Reaches
<1>7. /\ cx \in Nat /\ 2 * cx <= x1 + x2
      /\ midY \in Nat /\ 2 * midY <= y1 + y2 /\ y1 + y2 <= 2 * midY + 1
    <2>1. cx = (x1 + x2) \div 2 /\ midY = (y1 + y2) \div 2
        OBVIOUS
    <2> HIDE DEF x1, x2, y1, y2, cx, midY, W, H
    <2>2. x1 + x2 \in Nat /\ y1 + y2 \in Nat
        BY <1>6
    <2> QED BY <2>1, <2>2, Half
<1>a. Wraps(per, i) => y1 + 80 <= y2
    BY <1>1
<1> HIDE DEF W, H, path, right, left, cx, midY, e
<1>8. CASE ~Wraps(per, i)
    <2>1. /\ DOMAIN path = 1 .. 4
          /\ px(1) = x1 /\ py(1) = y1 /\ px(2) = cx /\ py(2) = y1
          /\ px(3) = cx /\ py(3) = y2 /\ px(4) = x2 /\ py(4) = y2
        BY <1>4, <1>8
    <2>2. \A k \in DOMAIN path : inside(k)
        <3> HIDE DEF px, py, x1, x2, y1, y2
        <3>1. cx \in 0 .. W + 96
            BY <1>6, <1>7
        <3>2. inside(1) /\ inside(2)
            BY <1>6, <2>1, <3>1
        <3>3. inside(3) /\ inside(4)
            BY <1>6, <2>1, <3>1
        <3>4. \A k \in DOMAIN path : k \in {1, 2, 3, 4}
            BY <2>1
        <3> HIDE DEF inside
        <3> QED BY <3>2, <3>3, <3>4
    <2> QED BY <1>3, <1>8, <2>2 DEF ArrowFits, path
<1>9. CASE Wraps(per, i)
    <2>1. DOMAIN path = 1 .. 14 /\ Len(path) - 1 = 13
        BY <1>5, <1>9
    <2>2. /\ px(1) = x1 /\ py(1) = y1 /\ px(2) = right - 8 /\ py(2) = y1
          /\ px(3) = right /\ py(3) = y1 /\ px(4) = right /\ py(4) = y1 + 8
          /\ px(5) = right /\ py(5) = midY - 8 /\ px(6) = right /\ py(6) = midY
          /\ px(7) = right - 8 /\ py(7) = midY
        BY <1>5, <1>9
    <2>3. /\ px(8) = left + 8 /\ py(8) = midY /\ px(9) = left /\ py(9) = midY
          /\ px(10) = left /\ py(10) = midY + 8 /\ px(11) = left /\ py(11) = y2 - 8
          /\ px(12) = left /\ py(12) = y2 /\ px(13) = left + 8 /\ py(13) = y2
          /\ px(14) = x2 /\ py(14) = y2
        BY <1>5, <1>9
    <2> HIDE DEF px, py, x1, x2, y1, y2
    <2>4. midY \in Nat /\ y1 + 39 <= midY /\ midY + 39 <= y2
        BY <1>6, <1>7, <1>9, <1>a
    <2>5. /\ y1 \in Nat /\ y2 \in Nat /\ y2 <= H + 48 /\ W \in Nat /\ H \in Nat
          /\ x1 \in 0 .. W + 96 /\ x2 \in 0 .. W + 96
        BY <1>6
    <2>6. \A k \in DOMAIN path : inside(k)
        <3>1. inside(1) /\ inside(2) /\ inside(3) /\ inside(4)
            BY <1>2, <2>2, <2>4, <2>5
        <3>2. inside(5) /\ inside(6) /\ inside(7)
            BY <1>2, <2>2, <2>4, <2>5
        <3>3. inside(8) /\ inside(9) /\ inside(10) /\ inside(11)
            BY <1>2, <2>3, <2>4, <2>5
        <3>4. inside(12) /\ inside(13) /\ inside(14)
            BY <1>2, <2>3, <2>4, <2>5
        <3>5. \A k \in DOMAIN path : k \in {1, 2, 3, 4, 5, 6, 7, 8, 9, 10, 11, 12, 13, 14}
            BY <2>1
        <3> HIDE DEF inside
        <3> QED BY <3>1, <3>2, <3>3, <3>4, <3>5
    <2>7. \A k \in 1 .. 13 : py(k) <= py(k + 1)
        <3>1. /\ py(1) <= py(2) /\ py(2) <= py(3) /\ py(3) <= py(4) /\ py(4) <= py(5)
              /\ py(5) <= py(6) /\ py(6) <= py(7) /\ py(7) <= py(8)
            BY <2>2, <2>3, <2>4, <2>5
        <3>2. /\ py(8) <= py(9) /\ py(9) <= py(10) /\ py(10) <= py(11) /\ py(11) <= py(12)
              /\ py(12) <= py(13) /\ py(13) <= py(14)
            BY <2>3, <2>4, <2>5
        <3> TAKE k \in 1 .. 13
        <3>3. k \in {1, 2, 3, 4, 5, 6, 7, 8, 9, 10, 11, 12, 13}
            OBVIOUS
        <3> QED BY <3>1, <3>2, <3>3
    <2> QED BY <1>3, <2>1, <2>6, <2>7 DEF ArrowFits, path, px, py
<1> QED BY <1>8, <1>9

(* The gutters are beside every card. *)
LEMMA GuttersBeside ==
    ASSUME NEW flat \in Seq(FlowColumns), NEW per \in Nat \ {0}, NEW i \in DOMAIN flat
    PROVE  BesideGutters(flat, per, CardAt(flat, per, i))
<1> DEFINE card == CardAt(flat, per, i)
           c == (i - 1) % per
           W == CanvasWidth(flat, per)
<1>1. Placed(card, GridRow(i, per), c, flat, per, i)
    BY PlaceOfCard
<1>2. card.x + 220 <= W
    BY CardWithin DEF ColumnWidth
<1>3. W \in Int
    <2>1. Len(flat) \in Nat
        OBVIOUS
    <2>2. Min({Len(flat), per}) \in Int
        BY <2>1, SmallerOfTwo
    <2> QED BY <2>2 DEF CanvasWidth, ColumnWidth, ColumnGap
<1>4. 48 \div 2 = 24
    OBVIOUS
<1> HIDE DEF card, c, W
<1>5. card.x \in Nat
    BY <1>1 DEF Placed
<1>6. 48 - 48 \div 2 < 48 + card.x /\ 48 + card.x + 220 < 48 + W + 48 \div 2
    BY <1>2, <1>3, <1>4, <1>5
<1> QED BY <1>6 DEF BesideGutters, WrapLeft, WrapRight, CanvasPadding, ColumnGap, ColumnWidth, card, W

(* At least one column fits, however narrow the container is. *)
LEMMA Fitting ==
    ASSUME NEW width \in Nat
    PROVE  ColsPerRow(width) \in Nat \ {0}
<1> DEFINE fit == (width - 48) \div 268
<1>1. fit \in Int
    OBVIOUS
<1>2. ColsPerRow(width) = Max({1, fit})
    BY DEF ColsPerRow, ColumnGap, ColumnWidth
<1> HIDE DEF fit
<1>3. Max({1, fit}) = IF 1 >= fit THEN 1 ELSE fit
    BY <1>1, LargerOfTwo
<1> QED BY <1>1, <1>2, <1>3

(* buildFlatColumns yields columns, expanded or not. *)
LEMMA FlatColumns ==
    ASSUME NEW columns \in Seq(FlowColumns), NEW expanded
    PROVE  BuildFlatColumns(columns, expanded) \in Seq(FlowColumns)
<1> DEFINE times(i) == IF i \in expanded THEN columns[i].count ELSE 1
           copies(i) == [j \in 1 .. times(i) |-> columns[i]]
           parts == [i \in DOMAIN columns |-> copies(i)]
<1>1. DOMAIN columns = 1 .. Len(columns) /\ Len(columns) \in Nat
    OBVIOUS
<1>2. ASSUME NEW i \in DOMAIN columns PROVE copies(i) \in Seq(FlowColumns)
    <2>1. columns[i] \in FlowColumns
        OBVIOUS
    <2> DEFINE column == columns[i]
    <2> HIDE DEF column
    <2>2. column.count \in Nat
        BY <2>1 DEF FlowColumns, column
    <2>3. times(i) \in Nat
        BY <2>2 DEF column
    <2> HIDE DEF times
    <2> QED BY <2>1, <2>3 DEF column
<1>3. BuildFlatColumns(columns, expanded) = FlattenSeq(parts)
    BY DEF BuildFlatColumns
<1> HIDE DEF copies
<1>4. parts \in Seq(Seq(FlowColumns))
    BY <1>1, <1>2
<1> HIDE DEF parts
<1>5. ColumnParams \in [FlowColumns -> Nat]
    BY DEF ColumnParams, FlowColumns
<1>6. FlattenSeq(parts) \in Seq(FlowColumns)
    BY <1>4, <1>5, WeightFlatten
<1> QED BY <1>3, <1>6

\* as many cards as columns, each beside or above the others
LEMMA CardsOfFlow ==
    ASSUME NEW flat \in Seq(FlowColumns), NEW per \in Nat \ {0}
    PROVE  LET cards == {CardAt(flat, per, i) : i \in DOMAIN flat}
           IN  /\ Cardinality(cards) = Len(flat)
               /\ \A a, b \in cards : a # b => Apart(a, b)
<1> DEFINE at(i) == CardAt(flat, per, i)
           n == Len(flat)
           cards == {at(i) : i \in 1 .. n}
           f == [i \in 1 .. n |-> at(i)]
<1>1. n \in Nat /\ DOMAIN flat = 1 .. n
    OBVIOUS
<1>2. \A i, j \in 1 .. n : i # j => Apart(at(i), at(j))
    BY <1>1, CardsApart
<1>3. ASSUME NEW i \in 1 .. n PROVE ~Apart(at(i), at(i))
    <2>1. Placed(at(i), GridRow(i, per), (i - 1) % per, flat, per, i)
        BY <1>1, PlaceOfCard
    <2> DEFINE card == at(i)
               c == (i - 1) % per
    <2> HIDE DEF card, c
    <2>2. Placed(card, GridRow(i, per), c, flat, per, i)
        BY <2>1 DEF card, c
    <2>3. c \in Nat /\ card.x = c * 268 /\ card.y \in Nat /\ card.height \in Nat
        BY <2>2 DEF Placed
    <2>4. ~Apart(card, card)
        BY <2>3 DEF Apart, ColumnWidth
    <2> QED BY <2>4 DEF card
<1> HIDE DEF at
<1>4. \A i, j \in 1 .. n : at(i) = at(j) => i = j
    BY <1>2, <1>3
<1>5. f \in Bijection(1 .. n, cards)
    <2>1. f \in [1 .. n -> cards] /\ \A i, j \in 1 .. n : f[i] = f[j] => i = j
        BY <1>4
    <2>2. \A a \in cards : \E i \in 1 .. n : f[i] = a
        OBVIOUS
    <2>3. DOMAIN f = 1 .. n
        OBVIOUS
    <2> HIDE DEF cards, f
    <2>4. IsInjective(f)
        BY <2>1, <2>3 DEF IsInjective
    <2> QED BY <2>1, <2>2, <2>4 DEF Bijection, Injection, Surjection
<1>6. ExistsBijection(1 .. n, cards)
    BY <1>5 DEF ExistsBijection
<1> HIDE DEF f
<1>7. \A a, b \in cards : a # b => Apart(a, b)
    BY <1>2
<1> HIDE DEF cards, n
<1>8. Cardinality(cards) = n
    BY <1>1, <1>6, FS_CountingElements
<1> QED BY <1>1, <1>7, <1>8 DEF cards, at, n

-----------------------------------------------------------------------------
(* The strip of layers. *)

Stacked(child) ==
    /\ Len(child.children) >= 2
    /\ \A i \in DOMAIN child.children : child.children[i].type = child.children[1].type

\* the body of FindLayerStackNode
Found(g, node) ==
    LET top(child) == IF Stacked(child) THEN {child} ELSE g[child]
        found == {i \in DOMAIN node.children : top(node.children[i]) # {}}
    IN  IF found = {} THEN {} ELSE top(node.children[Min(found)])

(* findLayerStackNode returns nodes of the tree it searches. *)
LEMMA FoundIn ==
    ASSUME NEW node \in Nodes, NEW g,
           \A child \in ToSet(node.children) : g[child] \in SUBSET Nodes
    PROVE  Found(g, node) \in SUBSET Nodes
<1> DEFINE top(child) == IF Stacked(child) THEN {child} ELSE g[child]
           found == {i \in DOMAIN node.children : top(node.children[i]) # {}}
<1>1. node.children \in Seq(Nodes) /\ ToSet(node.children) \subseteq Nodes
    BY Children
<1>2. \A child \in ToSet(node.children) : top(child) \in SUBSET Nodes
    BY <1>1
<1>3. \A i \in DOMAIN node.children : node.children[i] \in ToSet(node.children)
    BY DEF ToSet
<1>4. Found(g, node) = IF found = {} THEN {} ELSE top(node.children[Min(found)])
    BY DEF Found
<1>5. found \in SUBSET Nat /\ found \subseteq DOMAIN node.children
    BY <1>1
<1> HIDE DEF top, found
<1>6. ASSUME found # {} PROVE Min(found) \in found
    <2>1. \E x \in found : \A y \in found : x <= y
        BY <1>5, <1>6, LeastElement
    <2> QED BY <2>1 DEF Min
<1> QED BY <1>2, <1>3, <1>4, <1>5, <1>6

(* findLayerStackNode is defined on every node. *)
LEMMA StackOf == FindLayerStackNode \in [Nodes -> SUBSET Nodes]
<1> DEFINE V == SUBSET Nodes
           step == [p \in Nodes \X [Nodes -> V] |-> Found(p[2], p[1])]
<1>1. \A node \in Nodes, g \in [Nodes -> V] : Found(g, node) \in V
    BY Children, FoundIn
<1>2. ASSUME NEW node \in Nodes, NEW g, NEW h,
             \A child \in ToSet(node.children) : g[child] = h[child]
      PROVE  Found(g, node) = Found(h, node)
    <2> DEFINE top(e, child) == IF Stacked(child) THEN {child} ELSE e[child]
               found(e) == {i \in DOMAIN node.children : top(e, node.children[i]) # {}}
    <2>1. \A i \in DOMAIN node.children : top(g, node.children[i]) = top(h, node.children[i])
        BY <1>2 DEF ToSet
    <2>2. \A e : Found(e, node) = IF found(e) = {} THEN {}
                                  ELSE top(e, node.children[Min(found(e))])
        BY DEF Found
    <2>3. found(g) \in SUBSET Nat /\ found(g) \subseteq DOMAIN node.children
        BY Children
    <2> HIDE DEF top
    <2>4. found(g) = found(h)
        BY <2>1
    <2> HIDE DEF found
    <2>5. ASSUME found(g) # {} PROVE Min(found(g)) \in DOMAIN node.children
        <3>1. \E x \in found(g) : \A y \in found(g) : x <= y
            BY <2>3, <2>5, LeastElement
        <3> QED BY <2>3, <3>1 DEF Min
    <2> QED BY <2>1, <2>2, <2>4, <2>5
<1>3. FindLayerStackNode = CHOOSE g : g = [node \in Nodes |-> Found(g, node)]
    BY DEF FindLayerStackNode, Found, Stacked
<1>4. OfChildren(V, step)
    <2>1. {} \in V
        OBVIOUS
    <2> HIDE DEF V
    <2>2. step \in [Nodes \X [Nodes -> V] -> V]
        BY <1>1
    <2> QED BY <1>2, <2>1, <2>2 DEF OfChildren
<1>5. \A node \in Nodes, g \in [Nodes -> V] : step[<<node, g>>] = Found(g, node)
    OBVIOUS
<1> HIDE DEF step, V
<1>6. PICK f \in [Nodes -> V] : \A node \in Nodes : f[node] = step[<<node, f>>]
    BY <1>4, NodeRecursion
<1>7. \A node \in Nodes : f[node] = Found(f, node)
    BY <1>5, <1>6
<1>8. f = [node \in Nodes |-> Found(f, node)]
    BY <1>6, <1>7
<1>9. FindLayerStackNode = [node \in Nodes |-> Found(FindLayerStackNode, node)]
    BY <1>3, <1>8
<1> DEFINE W == {x \in Nodes : FindLayerStackNode[x] = f[x]}
<1>10. ASSUME NEW node \in Nodes, ToSet(node.children) \subseteq W PROVE node \in W
    <2>1. Found(FindLayerStackNode, node) = Found(f, node)
        BY <1>2, <1>10
    <2>2. FindLayerStackNode[node] = Found(FindLayerStackNode, node)
        BY <1>9
    <2> QED BY <1>7, <2>1, <2>2
<1> HIDE DEF W
<1>11. Nodes \subseteq W
    BY <1>10, NodeInduction
<1>12. \A node \in Nodes : FindLayerStackNode[node] = f[node]
    BY <1>11 DEF W
<1> QED BY <1>6, <1>9, <1>12 DEF V

(* The number of layers of a tree is a natural number. *)
LEMMA LayersOf ==
    ASSUME NEW tree \in Architectures
    PROVE  LayerCount(tree) \in Nat
<1>1. FindLayerStackNode[tree] \in SUBSET Nodes
    BY StackOf, Children
<1>2. LayerNodes[tree] = {s.children : s \in FindLayerStackNode[tree]}
    BY DEF LayerNodes
<1>3. LayerNodes[tree] \subseteq Seq(Nodes)
    BY <1>1, <1>2, Children
<1>4. ASSUME LayerNodes[tree] # {}
      PROVE  (CHOOSE s \in LayerNodes[tree] : TRUE) \in Seq(Nodes)
    BY <1>3, <1>4
<1>5. ASSUME LayerNodes[tree] # {}
      PROVE  Len(CHOOSE s \in LayerNodes[tree] : TRUE) \in Nat
    <2> DEFINE s == CHOOSE s \in LayerNodes[tree] : TRUE
    <2>1. s \in Seq(Nodes)
        BY <1>4, <1>5
    <2> HIDE DEF s
    <2>2. Len(s) \in Nat
        BY <2>1
    <2> QED BY <2>2 DEF s
<1> QED BY <1>5 DEF LayerCount

\* what is 26 more has a greater quotient
LEMMA Tick26 ==
    ASSUME NEW a \in Nat, NEW b \in Nat, a + 26 <= b
    PROVE  a \div 26 < b \div 26
    OBVIOUS

(* Rounding x * b / b to the nearest whole number gives x, for the numbers of ticks the stack
   draws. *)
LEMMA FewTicks ==
    ASSUME NEW b \in 1 .. 12, NEW x \in 0 .. 12
    PROVE  (2 * (x * b) + b) \div (2 * b) = x
<1>1. CASE b \in 1 .. 4
    <2>1. b = 1 \/ b = 2 \/ b = 3 \/ b = 4
        BY <1>1
    <2> QED BY <2>1
<1>2. CASE b \in 5 .. 8
    <2>1. b = 5 \/ b = 6 \/ b = 7 \/ b = 8
        BY <1>2
    <2> QED BY <2>1
<1>3. CASE b \in 9 .. 12
    <2>1. b = 9 \/ b = 10 \/ b = 11 \/ b = 12
        BY <1>3
    <2> QED BY <2>1
<1> QED BY <1>1, <1>2, <1>3

(* The ticks of the stack are distinct, start at the first layer and end at the last. *)
LEMMA TicksOf ==
    ASSUME NEW layers \in Nat, layers > 0
    PROVE  LET ticks == StackTicks(layers)
           IN  /\ IsInjective(ticks) /\ ticks[1] = 0
               /\ ticks[Len(ticks)] = layers - 1
<1> DEFINE m == layers - 1
           n == Min({14, Max({1, layers})})
           b == Max({1, n - 1})
           ticks == StackTicks(layers)
           at(t) == (2 * ((t - 1) * m) + b) \div (2 * b)
<1>1. n = IF 14 <= layers THEN 14 ELSE layers
    <2>1. Max({1, layers}) = layers
        BY LargerOfTwo
    <2>2. n = Min({14, layers})
        BY <2>1
    <2> HIDE DEF n
    <2>3. Min({14, layers}) = IF 14 <= layers THEN 14 ELSE layers
        BY SmallerOfTwo
    <2> QED BY <2>2, <2>3
<1>2. b = IF 1 >= n - 1 THEN 1 ELSE n - 1
    <2> HIDE DEF n
    <2>1. n - 1 \in Int
        BY <1>1
    <2> QED BY <2>1, LargerOfTwo
<1>3. ticks = [t \in 1 .. n |-> at(t)]
    BY DEF StackTicks
<1> HIDE DEF n, b, at, ticks
<1>4. n \in Nat /\ n >= 1 /\ m \in Nat
    BY <1>1
<1>5. DOMAIN ticks = 1 .. n /\ Len(ticks) = n /\ \A t \in 1 .. n : ticks[t] = at(t)
    BY <1>3, <1>4
<1>6. CASE layers >= 14
    <2>1. n = 14 /\ b = 13 /\ m >= 13
        BY <1>1, <1>2, <1>6
    <2>2. \A t : at(t) = (2 * ((t - 1) * m) + 13) \div 26
        BY <2>1 DEF at
    <2> HIDE DEF m
    <2>3. ASSUME NEW s \in 1 .. 14, NEW t \in 1 .. 14, s < t PROVE at(s) < at(t)
        <3> DEFINE x == (s - 1) * m
                   y == (t - 1) * m
        <3>1. x \in Nat /\ y \in Nat
            BY <1>4
        <3>2. x + m <= y
            <4>1. PICK k \in Nat : t - 1 = (s - 1) + 1 + k
                <5>1. t - s - 1 \in Nat /\ t - 1 = (s - 1) + 1 + (t - s - 1)
                    BY <2>3
                <5> QED BY <5>1
            <4>2. y = x + m + k * m
                BY <1>4, <4>1
            <4>3. k * m \in Nat
                BY <1>4, <4>1
            <4> HIDE DEF x, y
            <4> DEFINE z == k * m
            <4> HIDE DEF z
            <4>4. y = x + m + z /\ z \in Nat
                BY <4>2, <4>3 DEF z
            <4> QED BY <1>4, <3>1, <4>4
        <3> HIDE DEF x, y
        <3>3. (2 * x + 13) + 26 <= 2 * y + 13 /\ 2 * x + 13 \in Nat /\ 2 * y + 13 \in Nat
            BY <1>4, <2>1, <3>1, <3>2
        <3>4. (2 * x + 13) \div 26 < (2 * y + 13) \div 26
            BY <3>3, Tick26
        <3> QED BY <2>2, <3>4 DEF x, y
    <2>4. IsInjective(ticks)
        <3>1. ASSUME NEW s \in 1 .. 14, NEW t \in 1 .. 14, at(s) = at(t) PROVE s = t
            <4>1. ASSUME NEW k \in 1 .. 14 PROVE at(k) \in Int
                <5> DEFINE x == (k - 1) * m
                <5>1. x \in Int
                    BY <1>4
                <5>2. at(k) = (2 * x + 13) \div 26
                    BY <2>2
                <5> HIDE DEF x
                <5> QED BY <5>1, <5>2
            <4>2. at(s) \in Int /\ ~(at(s) < at(t)) /\ ~(at(t) < at(s))
                <5>1. at(s) \in Int
                    BY <4>1
                <5> QED BY <3>1, <5>1
            <4>3. ~(s < t) /\ ~(t < s)
                BY <2>3, <4>2
            <4> QED BY <4>3
        <3> QED BY <1>5, <2>1, <3>1 DEF IsInjective
    <2>5. at(1) = 0
        <3>1. (1 - 1) * m = 0
            BY <1>4
        <3> QED BY <2>2, <3>1
    <2>6. at(14) = m
        <3>1. at(14) = (2 * ((14 - 1) * m) + 13) \div 26
            BY <2>2
        <3> QED BY <1>4, <3>1
    <2>7. ticks[1] = 0 /\ ticks[Len(ticks)] = m
        BY <1>5, <2>1, <2>5, <2>6
    <2> QED BY <2>4, <2>7 DEF ticks, m
<1>7. CASE layers \in 2 .. 13
    <2>1. n = layers /\ b = m /\ b \in 1 .. 12
        BY <1>1, <1>2, <1>7
    <2>2. ASSUME NEW t \in 1 .. n PROVE at(t) = t - 1
        <3>1. t - 1 \in 0 .. 12
            BY <1>7, <2>1
        <3>2. (2 * ((t - 1) * b) + b) \div (2 * b) = t - 1
            BY <2>1, <3>1, FewTicks
        <3> QED BY <2>1, <3>2 DEF at
    <2>3. \A t \in 1 .. n : ticks[t] = t - 1
        BY <1>5, <2>2
    <2>4. IsInjective(ticks)
        BY <1>4, <1>5, <2>3 DEF IsInjective
    <2>5. ticks[1] = 0 /\ ticks[Len(ticks)] = m
        BY <1>4, <1>5, <2>1, <2>3
    <2> QED BY <2>4, <2>5 DEF ticks, m
<1>8. CASE layers = 1
    <2>1. n = 1 /\ b = 1 /\ m = 0
        BY <1>1, <1>2, <1>8
    <2>2. at(1) = 0
        BY <2>1 DEF at
    <2>3. ticks[1] = 0 /\ ticks[Len(ticks)] = m /\ IsInjective(ticks)
        BY <1>5, <2>1, <2>2 DEF IsInjective
    <2> QED BY <2>3 DEF ticks, m
<1>9. layers >= 14 \/ layers \in 2 .. 13 \/ layers = 1
    OBVIOUS
<1> QED BY <1>6, <1>7, <1>8, <1>9

=============================================================================
