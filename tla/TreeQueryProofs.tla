---------------------------- MODULE TreeQueryProofs ----------------------------
(***************************************************************************)
(* Proofs about TreeQueries: on every tree that the operations of Forest   *)
(* can make, of any size and with any headers, the walks of util.cpp and   *)
(* of Content agree with each other, and taking out an attachment leaves   *)
(* what was an attachment one.  Memory is finite.                          *)
(*                                                                         *)
(* The walks are recursive functions.  In a finite forest every content    *)
(* has a height (HeightExists), so that they are defined and an induction  *)
(* goes down the trees.  A walk is then characterised without recursion:   *)
(* by which contents it reaches, and, as the lists of siblings are         *)
(* disjoint, by the order of what it finds (FlattenSeq).  For a step, what *)
(* holds of the walks before (Rules) holds of those after, and the walks   *)
(* outside the subtree that was taken out find what they found.            *)
(***************************************************************************)
EXTENDS ForestProofs, TreeQueries

-----------------------------------------------------------------------------
(* Induction over the numbers.                                             *)

LEMMA LeastNat ==
    ASSUME NEW T \in SUBSET Nat, T # {}
    PROVE  \E x \in T : \A y \in T : x <= y
  <1> DEFINE R == OpToRel(<, Nat)
  <1>1. IsWellFoundedOn(R, Nat)
    BY NatLessThanWellFounded
  <1>2. \A y, x \in Nat : y < x => <<y, x>> \in R
    BY DEF OpToRel
  <1> HIDE DEF R
  <1>3. PICK x \in T : \A y \in T : ~ (<<y, x>> \in R)
    BY <1>1, WFMin
  <1>4. ASSUME NEW y \in T PROVE x <= y
    <2>1. x \in Nat /\ y \in Nat /\ ~(y < x)
      BY <1>2, <1>3
    <2> QED
      BY <2>1
  <1> QED
    BY <1>4

LEMMA SetInduction ==
    ASSUME NEW S \in SUBSET Nat, 0 \in S, \A n \in S : n + 1 \in S
    PROVE  S = Nat
  <1> SUFFICES ASSUME Nat \ S # {} PROVE FALSE
    OBVIOUS
  <1>1. PICK x \in Nat \ S : \A y \in Nat \ S : x <= y
    <2>1. Nat \ S \in SUBSET Nat
      OBVIOUS
    <2> QED
      BY <2>1, LeastNat
  <1>2. x # 0 /\ x - 1 \in Nat /\ x - 1 \in S
    BY <1>1
  <1> QED
    BY <1>1, <1>2

LEMMA MinIs ==
    ASSUME NEW T \in SUBSET Nat, T # {}
    PROVE  Min(T) \in T /\ \A i \in T : Min(T) <= i
  <1>1. \E x \in T : \A y \in T : x <= y
    BY LeastNat
  <1> QED
    BY <1>1 DEF Min

-----------------------------------------------------------------------------
(* Recursion.                                                              *)

\* The value of step[d] depends only on what is lower than d.
Descends(step, D, V, h) ==
    /\ step \in [D -> [[D -> V] -> V]]
    /\ \A d \in D : \A f, g \in [D -> V] :
          (\A e \in D : h[e] < h[d] => f[e] = g[e]) => step[d][f] = step[d][g]

Bounded(h, D) == h \in [D -> Nat] /\ \E N \in Nat : \A d \in D : h[d] <= N

LEMMA RecursionIsDefined ==
    ASSUME NEW D, NEW V, NEW step, NEW h, Bounded(h, D), Descends(step, D, V, h), V # {}
    PROVE  \E f \in [D -> V] : f = [d \in D |-> step[d][f]]
  <1> PICK N \in Nat : h \in [D -> Nat] /\ \A d \in D : h[d] <= N
    BY DEF Bounded
  <1>0. /\ step \in [D -> [[D -> V] -> V]]
        /\ \A d \in D : \A f, g \in [D -> V] :
              (\A e \in D : h[e] < h[d] => f[e] = g[e]) => step[d][f] = step[d][g]
    BY DEF Descends
  <1> DEFINE Is(f, k) == \A d \in D : h[d] < k => f[d] = step[d][f]
             S == {k \in Nat : \E f \in [D -> V] : Is(f, k)}
  <1>1. 0 \in S
    <2>1. PICK v \in V : TRUE
      OBVIOUS
    <2>2. [d \in D |-> v] \in [D -> V]
      OBVIOUS
    <2>3. \A f \in [D -> V] : Is(f, 0)
      OBVIOUS
    <2> HIDE DEF Is
    <2> QED
      BY <2>2, <2>3
  <1>2. ASSUME NEW k \in S PROVE k + 1 \in S
    <2>0. k \in Nat
      OBVIOUS
    <2>1. PICK f \in [D -> V] : Is(f, k)
      OBVIOUS
    <2> DEFINE g == [d \in D |-> step[d][f]]
    <2>2. g \in [D -> V] /\ \A d \in D : g[d] = step[d][f]
      BY <1>0
    <2> HIDE DEF g
    <2>3. ASSUME NEW d \in D, h[d] < k + 1 PROVE g[d] = step[d][g]
      <3>1. \A e \in D : h[e] < h[d] => f[e] = g[e]
        <4> SUFFICES ASSUME NEW e \in D, h[e] < h[d] PROVE f[e] = g[e]
          OBVIOUS
        <4>1. h[e] \in Nat /\ h[d] \in Nat
          OBVIOUS
        <4>2. h[e] < k
          BY <2>0, <2>3, <4>1
        <4> QED
          BY <2>1, <2>2, <4>2
      <3>2. step[d][f] = step[d][g]
        BY <1>0, <2>2, <3>1
      <3> QED
        BY <2>2, <3>2
    <2>4. Is(g, k + 1)
      BY <2>3
    <2> HIDE DEF Is
    <2> QED
      BY <2>0, <2>2, <2>4
  <1>3. S = Nat
    <2>1. S \in SUBSET Nat
      OBVIOUS
    <2> HIDE DEF S
    <2> QED
      BY <1>1, <1>2, <2>1, SetInduction
  <1>4. N + 1 \in S
    <2>1. N + 1 \in Nat
      OBVIOUS
    <2> HIDE DEF S
    <2> QED
      BY <1>3, <2>1
  <1>5. PICK f \in [D -> V] : Is(f, N + 1)
    BY <1>4
  <1>6. \A d \in D : f[d] = step[d][f]
    <2> SUFFICES ASSUME NEW d \in D PROVE f[d] = step[d][f]
      OBVIOUS
    <2>1. h[d] < N + 1
      OBVIOUS
    <2> QED
      BY <1>5, <2>1
  <1> QED
    BY <1>6

-----------------------------------------------------------------------------
(* Heights.  There are finitely many contents, and each is lower in its    *)
(* tree than its parent.                                                   *)

IsHeight(h, N) ==
    /\ N \in Nat /\ h \in [Node -> 0 .. N]
    /\ \A n \in Node : \A c \in Members(kids[n]) : h[c] < h[n]

\* The lists are lists of contents.
LEMMA KidsAre ==
    ASSUME FInv, NEW n \in Node
    PROVE  /\ nodes \subseteq Node
           /\ kids[n] \in Seq(nodes) /\ DOMAIN kids[n] = 1 .. Len(kids[n]) /\ Len(kids[n]) \in Nat
           /\ \A i \in DOMAIN kids[n] : /\ i \in Nat /\ kids[n][i] \in Members(kids[n])
                                        /\ kids[n][i] \in nodes /\ kids[n][i] \in Node
           /\ \A c \in Members(kids[n]) : c \in nodes /\ c \in Node /\ n \in nodes
           /\ \A i, j \in DOMAIN kids[n] : kids[n][i] = kids[n][j] => i = j
  <1>1. nodes \subseteq Node /\ kids[n] \in Seq(nodes) /\ IsInjective(kids[n])
    BY DEF FInv, ForestOf, Listed, Once
  <1>2. n \notin nodes => Members(kids[n]) = {}
    BY DEF FInv, ForestOf, Listed, Members
  <1>3. /\ DOMAIN kids[n] = 1 .. Len(kids[n]) /\ Len(kids[n]) \in Nat
        /\ Members(kids[n]) \subseteq nodes /\ \A i \in DOMAIN kids[n] : kids[n][i] \in Members(kids[n])
    BY <1>1, InList
  <1>4. \A i \in DOMAIN kids[n] : i \in Nat /\ kids[n][i] \in nodes
    BY <1>3
  <1>5. \A i, j \in DOMAIN kids[n] : kids[n][i] = kids[n][j] => i = j
    BY <1>1 DEF IsInjective
  <1> QED
    BY <1>1, <1>2, <1>3, <1>4, <1>5

LEMMA HeightExists ==
    ASSUME FInv, IsFiniteSet(Node)
    PROVE  \E h, N : IsHeight(h, N)
  <1> DEFINE B(n) == IF n \in nodes THEN Tree(n) ELSE {}
             N == Cardinality(Node)
             h == [n \in Node |-> Cardinality(B(n))]
  <1>0. nodes \subseteq Node
    BY DEF FInv, ForestOf, Listed
  <1>1. N \in Nat
    BY FS_CardinalityType
  <1>2. \A n \in Node : B(n) \subseteq Node
    BY <1>0, TreeIsLeast
  <1>3. ASSUME NEW n \in Node PROVE IsFiniteSet(B(n)) /\ Cardinality(B(n)) \in 0 .. N
    <2>1. IsFiniteSet(B(n)) /\ Cardinality(B(n)) <= N
      BY <1>2, FS_Subset
    <2>2. Cardinality(B(n)) \in Nat
      BY <2>1, FS_CardinalityType
    <2> QED
      BY <1>1, <2>1, <2>2
  <1>4. ASSUME NEW n \in Node, NEW c \in Members(kids[n])
        PROVE  Cardinality(B(c)) < Cardinality(B(n))
    <2>1. n \in nodes /\ c \in nodes /\ c \in Node
      BY KidsAre
    <2>2. n \in Tree(n) /\ n \notin Tree(c) /\ Closed(Tree(n), kids)
      BY <2>1, TreeIsLeast, NotBelowChild
    <2>3. c \in Tree(n) /\ Tree(n) \in SUBSET nodes
      BY <2>1, <2>2, TreeIsLeast DEF Closed
    <2>4. Tree(c) \subseteq Tree(n)
      BY <2>1, <2>2, <2>3, TreeIsLeast
    <2>5. B(c) \subseteq B(n) /\ B(c) # B(n)
      BY <2>1, <2>2, <2>4
    <2> HIDE DEF B
    <2>6. Cardinality(B(c)) <= Cardinality(B(n)) /\ Cardinality(B(c)) # Cardinality(B(n))
      BY <1>3, <2>5, FS_Subset
    <2>7. Cardinality(B(c)) \in Nat /\ Cardinality(B(n)) \in Nat
      BY <1>3, <2>1
    <2> QED
      BY <2>6, <2>7
  <1>5. h \in [Node -> 0 .. N] /\ \A n \in Node : h[n] = Cardinality(B(n))
    BY <1>3
  <1> HIDE DEF h, N, B
  <1>6. \A n \in Node : \A c \in Members(kids[n]) : h[c] < h[n]
    BY <1>4, <1>5, KidsAre
  <1> QED
    BY <1>1, <1>5, <1>6 DEF IsHeight

\* What holds of a content when it holds of its children holds of all.
LEMMA DownInduction ==
    ASSUME FInv, NEW h, NEW N, IsHeight(h, N), NEW S,
           \A n \in Node : Members(kids[n]) \subseteq S => n \in S
    PROVE  \A n \in Node : n \in S
  <1>0. /\ h \in [Node -> 0 .. N] /\ N \in Nat
        /\ \A n \in Node : \A c \in Members(kids[n]) : c \in Node /\ h[c] < h[n]
    BY KidsAre DEF IsHeight
  <1> DEFINE T == {k \in Nat : \A n \in Node : h[n] < k => n \in S}
  <1>1. 0 \in T
    BY <1>0
  <1>2. ASSUME NEW k \in T PROVE k + 1 \in T
    <2>1. k \in Nat /\ \A n \in Node : h[n] < k => n \in S
      OBVIOUS
    <2>2. ASSUME NEW n \in Node, h[n] < k + 1 PROVE n \in S
      <3>1. ASSUME NEW c \in Members(kids[n]) PROVE c \in S
        <4>1. h[c] < h[n] /\ h[c] \in Nat /\ h[n] \in Nat /\ c \in Node
          BY <1>0
        <4>2. h[c] < k
          BY <2>1, <2>2, <4>1
        <4> QED
          BY <2>1, <4>1, <4>2
      <3> QED
        BY <3>1
    <2> QED
      BY <2>1, <2>2
  <1>3. T = Nat
    <2>1. T \in SUBSET Nat
      OBVIOUS
    <2> HIDE DEF T
    <2> QED
      BY <1>1, <1>2, <2>1, SetInduction
  <1> SUFFICES ASSUME NEW n \in Node PROVE n \in S
    OBVIOUS
  <1>4. N + 1 \in Nat /\ h[n] < N + 1
    BY <1>0
  <1>5. N + 1 \in T
    <2> HIDE DEF T
    <2> QED
      BY <1>3, <1>4
  <1> QED
    BY <1>4, <1>5

\* The value of step[m] depends only on those of the children of m.
Local(step, V) ==
    /\ step \in [Node -> [[Node -> V] -> V]]
    /\ \A m \in Node : \A f, g \in [Node -> V] :
          (\A c \in Members(kids[m]) : f[c] = g[c]) => step[m][f] = step[m][g]

\* Then a function with these values is defined.
LEMMA TreeRecursion ==
    ASSUME FInv, NEW h, NEW N, IsHeight(h, N), NEW V, V # {}, NEW step, Local(step, V)
    PROVE  \E f \in [Node -> V] : f = [m \in Node |-> step[m][f]]
  <1>0. /\ h \in [Node -> 0 .. N] /\ N \in Nat
        /\ \A n \in Node : \A c \in Members(kids[n]) : c \in Node /\ h[c] < h[n]
    BY KidsAre DEF IsHeight
  <1>1. Descends(step, Node, V, h)
    <2>1. ASSUME NEW m \in Node, NEW f \in [Node -> V], NEW g \in [Node -> V],
                 \A e \in Node : h[e] < h[m] => f[e] = g[e]
          PROVE  step[m][f] = step[m][g]
      <3>1. \A c \in Members(kids[m]) : f[c] = g[c]
        BY <1>0, <2>1
      <3> QED
        BY <3>1 DEF Local
    <2>2. step \in [Node -> [[Node -> V] -> V]]
      BY DEF Local
    <2> QED
      BY <2>1, <2>2 DEF Descends
  <1>2. Bounded(h, Node)
    <2>1. h \in [Node -> Nat] /\ \A n \in Node : h[n] <= N
      BY <1>0
    <2> QED
      BY <1>0, <2>1 DEF Bounded
  <1> QED
    BY <1>1, <1>2, RecursionIsDefined

-----------------------------------------------------------------------------
(* Trees.                                                                  *)

\* The parent of a content is the one that lists it.
LEMMA ParentIs ==
    ASSUME FInv, NEW p \in Node, NEW c \in Members(kids[p])
    PROVE  Parent(c) = p /\ ParentsOf(c) = {p}
  <1>1. p \in nodes /\ c \in nodes
    BY KidsAre
  <1>2. \A q \in nodes : c \in Members(kids[q]) => q = p
    BY <1>1 DEF FInv, ForestOf, OneParent, Listed
  <1>3. ParentsOf(c) = {p}
    BY <1>1, <1>2 DEF ParentsOf
  <1> QED
    BY <1>3 DEF Parent

LEMMA ParentType ==
    ASSUME FInv, NEW c
    PROVE  /\ Parent(c) # Null => Parent(c) \in nodes /\ c \in Members(kids[Parent(c)])
           /\ Parent(c) = Null <=> ParentsOf(c) = {}
  <1>1. nodes \subseteq Node /\ Null \notin Node
    BY KindsAssumption DEF FInv, ForestOf, Listed
  <1>2. CASE ParentsOf(c) = {}
    BY <1>2 DEF Parent
  <1>3. CASE ParentsOf(c) # {}
    <2>1. Parent(c) \in ParentsOf(c)
      BY <1>3 DEF Parent
    <2> QED
      BY <1>1, <1>3, <2>1 DEF ParentsOf
  <1> QED
    BY <1>2, <1>3

\* A tree is its root and the trees of the children.
LEMMA TreeIs ==
    ASSUME FInv, NEW n \in nodes
    PROVE  /\ Tree(n) = {n} \cup UNION {Tree(c) : c \in Members(kids[n])}
           /\ \A c \in Members(kids[n]) : n \notin Tree(c)
  <1>0. n \in Node
    BY DEF FInv, ForestOf, Listed
  <1> DEFINE X == {n} \cup UNION {Tree(c) : c \in Members(kids[n])}
  <1>1. \A c \in Members(kids[n]) : c \in nodes /\ c \in Tree(c) /\ Tree(c) \subseteq nodes
                                    /\ Closed(Tree(c), kids) /\ n \notin Tree(c)
    BY <1>0, KidsAre, TreeIsLeast, NotBelowChild
  <1>2. X \in SUBSET nodes /\ n \in X
    BY <1>1
  <1>3. Closed(X, kids)
    <2> SUFFICES ASSUME NEW m \in X, NEW k \in Members(kids[m]) PROVE k \in X
      BY DEF Closed
    <2>1. CASE m = n
      BY <1>1, <2>1
    <2>2. CASE m # n
      <3>1. PICK c \in Members(kids[n]) : m \in Tree(c)
        BY <2>2
      <3>2. k \in Tree(c)
        BY <1>1, <3>1 DEF Closed
      <3> QED
        BY <3>2
    <2> QED
      BY <2>1, <2>2
  <1>4. Tree(n) \subseteq X
    BY <1>2, <1>3, TreeIsLeast
  <1>5. \A c \in Members(kids[n]) : Tree(c) \subseteq Tree(n)
    <2>1. Tree(n) \in SUBSET nodes /\ Closed(Tree(n), kids) /\ Members(kids[n]) \subseteq Tree(n)
      BY TreeIsLeast DEF Closed
    <2> QED
      BY <1>1, <2>1, TreeIsLeast
  <1> QED
    BY <1>1, <1>4, <1>5, TreeIsLeast

\* The trees of two children have no content in common.
LEMMA SiblingsApart ==
    ASSUME FInv, NEW n \in nodes, NEW c \in Members(kids[n]), NEW d \in Members(kids[n]), c # d
    PROVE  Tree(c) \cap Tree(d) = {}
  <1>0. n \in Node /\ c \in nodes /\ d \in nodes
    BY KidsAre DEF FInv, ForestOf, Listed
  <1>1. ASSUME NEW m \in nodes, NEW e \in Members(kids[n]), NEW k \in Tree(e) \ {e},
               k \in Members(kids[m])
        PROVE  m \in Tree(e)
    <2>0. e \in nodes /\ m \in Node
      BY <1>0, KidsAre DEF FInv, ForestOf, Listed
    <2>1. PICK p \in Tree(e) : k \in Members(kids[p])
      BY <2>0, BelowHasParent
    <2>2. p \in Node
      BY <2>0, TreeIsLeast, KidsAre
    <2>3. p = m
      BY <1>1, <2>0, <2>1, <2>2, ParentIs
    <2> QED
      BY <2>1, <2>3
  <1> DEFINE Y == Tree(c) \ Tree(d)
  <1>2. c \notin Tree(d) /\ d \notin Tree(c)
    <2>1. n \notin Tree(c) /\ n \notin Tree(d)
      BY TreeIs
    <2> QED
      BY <1>1, <2>1
  <1>3. Closed(Y, kids)
    <2> SUFFICES ASSUME NEW m \in Y, NEW k \in Members(kids[m]) PROVE k \in Y
      BY DEF Closed
    <2>1. m \in nodes /\ k \in Tree(c)
      BY <1>0, TreeIsLeast DEF Closed
    <2>2. k # d
      BY <1>2, <2>1
    <2>3. k \notin Tree(d)
      BY <1>1, <2>1, <2>2
    <2> QED
      BY <2>1, <2>3
  <1>4. Y \in SUBSET nodes /\ c \in Y
    BY <1>0, <1>2, TreeIsLeast
  <1> HIDE DEF Y
  <1>5. Tree(c) \subseteq Y
    BY <1>0, <1>3, <1>4, TreeIsLeast
  <1> QED
    BY <1>5 DEF Y

\* What a walk that leaves out multiparts comes to.
LEMMA ReachedIs ==
    ASSUME FInv, NEW n \in nodes, NEW skipped
    PROVE  Reached(n, skipped) =
              {n} \cup {m \in UNION {Reached(c, skipped) : c \in Members(kids[n])} :
                           IsMultipart(n) /\ kind[n].sub \notin skipped}
  <1> DEFINE Open(p) == IsMultipart(p) /\ kind[p].sub \notin skipped
             R(x) == {m \in Tree(x) : \A p \in Tree(x) \ {m} : m \in Tree(p) => Open(p)}
  <1>0. /\ n \in Node /\ n \in Tree(n) /\ Tree(n) \subseteq nodes
        /\ \A c \in Members(kids[n]) : c \in nodes
    BY TreeIsLeast, KidsAre DEF FInv, ForestOf, Listed
  <1>1. /\ Tree(n) = {n} \cup UNION {Tree(c) : c \in Members(kids[n])}
        /\ \A c \in Members(kids[n]) : n \notin Tree(c)
    BY TreeIs
  <1>2. \A x : Reached(x, skipped) = R(x)
    BY DEF Reached
  <1>3. ASSUME NEW c \in Members(kids[n]), NEW m \in Tree(c), NEW p \in Tree(n) \ {m}, m \in Tree(p)
        PROVE  p = n \/ p \in Tree(c)
    <2> SUFFICES ASSUME p # n PROVE p \in Tree(c)
      OBVIOUS
    <2>1. PICK d \in Members(kids[n]) : p \in Tree(d)
      BY <1>1
    <2>2. d \in nodes /\ Tree(d) \in SUBSET nodes /\ Closed(Tree(d), kids) /\ p \in nodes
      BY <1>0, <2>1, TreeIsLeast
    <2>3. Tree(p) \subseteq Tree(d)
      BY <2>1, <2>2, TreeIsLeast
    <2>4. d = c
      BY <1>3, <2>3, SiblingsApart
    <2> QED
      BY <2>1, <2>4
  <1>4. n \in R(n)
    <2>1. \A p \in Tree(n) \ {n} : n \notin Tree(p)
      <3> SUFFICES ASSUME NEW p \in Tree(n) \ {n} PROVE n \notin Tree(p)
        OBVIOUS
      <3>1. PICK d \in Members(kids[n]) : p \in Tree(d)
        BY <1>1
      <3>2. d \in nodes /\ Tree(d) \in SUBSET nodes /\ Closed(Tree(d), kids) /\ p \in nodes
        BY <1>0, <3>1, TreeIsLeast
      <3>3. Tree(p) \subseteq Tree(d)
        BY <3>1, <3>2, TreeIsLeast
      <3> QED
        BY <1>1, <3>3
    <2> QED
      BY <1>0, <2>1
  <1>5. ASSUME NEW c \in Members(kids[n]), NEW m \in Tree(c)
        PROVE  m \in R(n) <=> m \in R(c) /\ Open(n)
    <2>1. m \in Tree(n) /\ n \in Tree(n) \ {m} /\ m \in Tree(n) /\ Tree(c) \subseteq Tree(n)
      BY <1>0, <1>1
    <2> HIDE DEF Open
    <2>2. ASSUME m \in R(n) PROVE m \in R(c) /\ Open(n)
      BY <2>1, <2>2
    <2>3. ASSUME m \in R(c), Open(n) PROVE m \in R(n)
      <3>1. \A p \in Tree(n) \ {m} : m \in Tree(p) => p = n \/ p \in Tree(c)
        BY <1>3
      <3> QED
        BY <2>1, <2>3, <3>1
    <2> QED
      BY <2>2, <2>3
  <1> HIDE DEF Open
  <1>6. R(n) = {n} \cup {m \in UNION {R(c) : c \in Members(kids[n])} : Open(n)}
    <2>1. \A m \in R(n) : m = n \/ \E c \in Members(kids[n]) : m \in Tree(c)
      BY <1>1
    <2>2. \A x : R(x) \subseteq Tree(x)
      OBVIOUS
    <2> HIDE DEF R
    <2> QED
      BY <1>4, <1>5, <2>1, <2>2
  <1> HIDE DEF R
  <1>7. {Reached(c, skipped) : c \in Members(kids[n])} = {R(c) : c \in Members(kids[n])}
    BY <1>2
  <1> QED
    BY <1>2, <1>6, <1>7 DEF Open

-----------------------------------------------------------------------------
(* The queries.                                                            *)

LEMMA TextIs ==
    ASSUME FInv, NEW h, NEW N, IsHeight(h, N), NEW n \in Node
    PROVE  /\ IsText(n) => TextContent(n) = n
           /\ ~IsText(n) =>
                 \/ /\ TextContent(n) = Null
                    /\ \A i \in DOMAIN kids[n] : TextContent(kids[n][i]) = Null
                 \/ \E i \in DOMAIN kids[n] :
                       /\ TextContent(kids[n][i]) # Null
                       /\ TextContent(n) = TextContent(kids[n][i])
                       /\ \A j \in DOMAIN kids[n] : j < i => TextContent(kids[n][j]) = Null
  <1> DEFINE V == Node \cup {Null}
             found(f, m) == {i \in DOMAIN kids[m] : f[kids[m][i]] # Null}
             value(f, m) == IF IsText(m) THEN m
                            ELSE IF found(f, m) = {} THEN Null
                            ELSE f[kids[m][Min(found(f, m))]]
             step == [m \in Node |-> [f \in [Node -> V] |-> value(f, m)]]
  <1>1. ASSUME NEW m \in Node, NEW f
        PROVE  /\ f \in [Node -> V] => value(f, m) \in V
               /\ found(f, m) # {} => /\ Min(found(f, m)) \in DOMAIN kids[m]
                                      /\ f[kids[m][Min(found(f, m))]] # Null
                                      /\ \A i \in DOMAIN kids[m] : i < Min(found(f, m)) => f[kids[m][i]] = Null
    <2>1. DOMAIN kids[m] \subseteq Nat /\ \A i \in DOMAIN kids[m] : kids[m][i] \in Node
      BY KidsAre
    <2> DEFINE T == found(f, m)
    <2>2. T \in SUBSET Nat /\ \A i : i \in T <=> i \in DOMAIN kids[m] /\ f[kids[m][i]] # Null
      BY <2>1
    <2>3. value(f, m) = IF IsText(m) THEN m ELSE IF T = {} THEN Null ELSE f[kids[m][Min(T)]]
      OBVIOUS
    <2> HIDE DEF T, value, found
    <2>4. T # {} => Min(T) \in T /\ \A i \in T : Min(T) <= i
      BY <2>2, MinIs
    <2>5. T # {} => /\ Min(T) \in DOMAIN kids[m] /\ f[kids[m][Min(T)]] # Null
                    /\ \A i \in DOMAIN kids[m] : i < Min(T) => f[kids[m][i]] = Null
      <3> SUFFICES ASSUME T # {}
                   PROVE  /\ Min(T) \in DOMAIN kids[m] /\ f[kids[m][Min(T)]] # Null
                          /\ \A i \in DOMAIN kids[m] : i < Min(T) => f[kids[m][i]] = Null
        OBVIOUS
      <3>1. Min(T) \in T /\ Min(T) \in Nat
        BY <2>2, <2>4
      <3>2. ASSUME NEW i \in DOMAIN kids[m], i < Min(T) PROVE f[kids[m][i]] = Null
        <4>1. i \in Nat /\ ~(Min(T) <= i)
          BY <2>1, <3>1, <3>2
        <4> QED
          BY <2>2, <2>4, <4>1
      <3> QED
        BY <2>2, <3>1, <3>2
    <2>6. f \in [Node -> V] => value(f, m) \in V
      BY <2>1, <2>3, <2>5
    <2> QED
      BY <2>5, <2>6 DEF T
  <1>2. ASSUME NEW m \in Node, NEW f \in [Node -> V], NEW g \in [Node -> V],
               \A c \in Members(kids[m]) : f[c] = g[c]
        PROVE  value(f, m) = value(g, m)
    <2>1. \A i \in DOMAIN kids[m] : f[kids[m][i]] = g[kids[m][i]]
      BY <1>2, KidsAre
    <2>2. found(f, m) = found(g, m)
      BY <2>1
    <2> HIDE DEF found, value
    <2>3. found(f, m) # {} => Min(found(f, m)) \in DOMAIN kids[m]
      BY <1>1
    <2> QED
      BY <2>1, <2>2, <2>3 DEF value
  <1> HIDE DEF value
  <1>3. /\ step \in [Node -> [[Node -> V] -> V]]
        /\ \A m \in Node : \A f \in [Node -> V] : step[m][f] = value(f, m)
    BY <1>1
  <1> HIDE DEF step
  <1>4. V # {}
    OBVIOUS
  <1> HIDE DEF V
  <1>5. Local(step, V)
    <2>1. ASSUME NEW m \in Node, NEW f \in [Node -> V], NEW g \in [Node -> V],
                 \A c \in Members(kids[m]) : f[c] = g[c]
          PROVE  step[m][f] = step[m][g]
      <3>1. value(f, m) = value(g, m)
        BY <1>2, <2>1
      <3> HIDE DEF value
      <3> QED
        BY <1>3, <3>1
    <2> QED
      BY <1>3, <2>1 DEF Local
  <1>6. \E f \in [Node -> V] : f = [m \in Node |-> step[m][f]]
    <2>1. \A s : Local(s, V) => \E f \in [Node -> V] : f = [m \in Node |-> s[m][f]]
      BY <1>4, TreeRecursion
    <2> QED
      BY <1>5, <2>1
  <1> DEFINE Is(f) == f = [m \in Node |-> value(f, m)]
             text == CHOOSE f : Is(f)
  <1>7. \E f \in [Node -> V] : Is(f)
    BY <1>3, <1>6
  <1>8. Is(text)
    <2> HIDE DEF Is
    <2> QED
      BY <1>7
  <1>9. \A m : TextContent(m) = text[m]
    BY DEF TextContent, value
  <1> HIDE DEF text
  <1>10. \A m \in Node : text[m] = value(text, m)
    BY <1>8
  <1>11. CASE IsText(n)
    BY <1>9, <1>10, <1>11 DEF value
  <1>12. CASE ~IsText(n)
    <2>1. CASE found(text, n) = {}
      <3>1. text[n] = Null
        BY <1>10, <1>12, <2>1 DEF value
      <3>2. \A i \in DOMAIN kids[n] : text[kids[n][i]] = Null
        BY <2>1
      <3> QED
        BY <1>9, <1>12, <3>1, <3>2
    <2>2. CASE found(text, n) # {}
      <3> DEFINE i == Min(found(text, n))
      <3>1. text[n] = text[kids[n][i]]
        BY <1>10, <1>12, <2>2 DEF value
      <3>2. /\ i \in DOMAIN kids[n] /\ text[kids[n][i]] # Null
            /\ \A j \in DOMAIN kids[n] : j < i => text[kids[n][j]] = Null
        BY <1>1, <2>2
      <3> HIDE DEF i
      <3> QED
        BY <1>9, <1>12, <3>1, <3>2
    <2> QED
      BY <2>1, <2>2
  <1> QED
    BY <1>11, <1>12

-----------------------------------------------------------------------------
(* Lists of lists.                                                         *)

\* FlattenSeq() appends one list after the other.
LEMMA FlatIs ==
    ASSUME NEW S, NEW s \in Seq(Seq(S))
    PROVE  \E F \in [0 .. Len(s) -> Seq(S)] :
              /\ F[0] = <<>> /\ F[Len(s)] = FlattenSeq(s)
              /\ \A k \in 1 .. Len(s) : F[k] = F[k - 1] \o s[k]
  <1> DEFINE L == Len(s)
             D == 1 .. L
             V == Seq(S)
             h == [k \in D |-> k]
             step == [k \in D |-> [f \in [D -> V] |-> IF k = 1 THEN s[k] ELSE f[k - 1] \o s[k]]]
             Is(f) == f = [k \in D |-> IF k = 1 THEN s[k] ELSE f[k - 1] \o s[k]]
             flatten == CHOOSE f : Is(f)
  <1>1. /\ L \in Nat /\ DOMAIN s = D /\ \A k \in D : s[k] \in V /\ k \in Nat /\ 1 <= k /\ k <= L
        /\ \A k \in D : k # 1 => k - 1 \in D
    OBVIOUS
  <1>2. <<>> \in V /\ \A t, u \in V : t \o u \in V
    OBVIOUS
  <1>3. h \in [D -> Nat] /\ \A k \in D : h[k] = k
    BY <1>1
  <1>4. /\ step \in [D -> [[D -> V] -> V]]
        /\ \A k \in D : \A f \in [D -> V] : step[k][f] = IF k = 1 THEN s[k] ELSE f[k - 1] \o s[k]
    <2> HIDE DEF D, V
    <2>1. \A k \in D : \A f \in [D -> V] : (IF k = 1 THEN s[k] ELSE f[k - 1] \o s[k]) \in V
      BY <1>1, <1>2
    <2> QED
      BY <2>1
  <1> HIDE DEF step, h, V
  <1>5. Descends(step, D, V, h)
    <2>1. ASSUME NEW k \in D, NEW f \in [D -> V], NEW g \in [D -> V],
                 \A e \in D : h[e] < h[k] => f[e] = g[e]
          PROVE  step[k][f] = step[k][g]
      <3> DEFINE e == k - 1
      <3>0. k # 1 => e \in D /\ e < k
        BY <1>1
      <3>1. k # 1 => e \in D /\ h[e] < h[k]
        <4> HIDE DEF e, D
        <4> QED
          BY <1>3, <3>0
      <3>2. /\ step[k][f] = IF k = 1 THEN s[k] ELSE f[e] \o s[k]
            /\ step[k][g] = IF k = 1 THEN s[k] ELSE g[e] \o s[k]
        BY <1>4
      <3> HIDE DEF e, D
      <3>3. k # 1 => f[e] = g[e]
        BY <2>1, <3>1
      <3> QED
        BY <3>2, <3>3
    <2> HIDE DEF D
    <2> QED
      BY <1>4, <2>1 DEF Descends
  <1>6. \E f \in [D -> V] : f = [k \in D |-> step[k][f]]
    <2>1. V # {} /\ L \in Nat /\ \A k \in D : h[k] <= L
      BY <1>1, <1>2, <1>3
    <2>2. Bounded(h, D)
      <3> HIDE DEF D, L
      <3> QED
        BY <1>3, <2>1 DEF Bounded
    <2> HIDE DEF D, L
    <2> QED
      <3>1. V # {}
        BY <2>1
      <3>2. \A e : Descends(e, D, V, h) => \E f \in [D -> V] : f = [k \in D |-> e[k][f]]
        BY <2>2, <3>1, RecursionIsDefined
      <3> QED
        BY <1>5, <3>2
  <1>7. \E f \in [D -> V] : Is(f)
    <2>1. PICK f \in [D -> V] : f = [k \in D |-> step[k][f]]
      BY <1>6
    <2>2. \A k \in D : step[k][f] = IF k = 1 THEN s[k] ELSE f[k - 1] \o s[k]
      BY <1>4
    <2> HIDE DEF D
    <2>3. Is(f)
      BY <2>1, <2>2
    <2> QED
      BY <2>3
  <1>8. Is(flatten)
    <2> HIDE DEF Is
    <2> QED
      BY <1>7
  <1>9. FlattenSeq(s) = IF Len(s) = 0 THEN s ELSE flatten[Len(s)]
    BY DEF FlattenSeq
  <1> HIDE DEF flatten
  <1>10. \A k \in D : flatten[k] = IF k = 1 THEN s[k] ELSE flatten[k - 1] \o s[k]
    BY <1>8
  <1> HIDE DEF Is
  <1> DEFINE F == [k \in 0 .. L |-> IF k = 0 THEN <<>> ELSE flatten[k]]
  <1>11. F[0] = <<>> /\ \A k \in D : F[k] = flatten[k]
    BY <1>1
  <1>12. \A k \in D : F[k] = F[k - 1] \o s[k]
    <2> SUFFICES ASSUME NEW k \in D PROVE F[k] = F[k - 1] \o s[k]
      OBVIOUS
    <2>1. CASE k = 1
      <3>1. F[k] = s[k] /\ F[k - 1] = <<>> /\ s[k] \in Seq(S)
        BY <1>10, <1>11, <2>1
      <3> HIDE DEF F
      <3> QED
        BY <3>1
    <2>2. CASE k # 1
      <3>1. k - 1 \in D
        BY <1>1, <2>2
      <3> HIDE DEF F, D
      <3> QED
        BY <1>10, <1>11, <2>2, <3>1
    <2> QED
      BY <2>1, <2>2
  <1>13. F[L] = FlattenSeq(s)
    <2>1. CASE L = 0
      <3>1. s = <<>>
        BY <2>1
      <3> QED
        BY <1>9, <1>11, <2>1, <3>1
    <2>2. CASE L # 0
      <3>1. L \in D
        BY <1>1, <2>2
      <3> QED
        BY <1>9, <1>11, <2>2, <3>1
    <2> QED
      BY <2>1, <2>2
  <1>14. \A k \in 0 .. L : F[k] \in V
    <2> DEFINE T == {k \in Nat : k \in 0 .. L => F[k] \in V}
    <2>1. 0 \in T
      BY <1>2, <1>11
    <2>2. ASSUME NEW k \in T PROVE k + 1 \in T
      <3>0. k \in Nat /\ (k \in 0 .. L => F[k] \in V)
        OBVIOUS
      <3> SUFFICES ASSUME k + 1 \in 0 .. L PROVE F[k + 1] \in V
        BY <3>0
      <3>1. k \in 0 .. L /\ k + 1 \in D /\ (k + 1) - 1 = k
        BY <1>1, <3>0
      <3>2. F[k + 1] = F[k] \o s[k + 1]
        BY <1>12, <3>1
      <3>3. s[k + 1] \in V /\ F[k] \in V
        BY <1>1, <3>0, <3>1
      <3> HIDE DEF F, T
      <3> QED
        BY <1>2, <3>2, <3>3
    <2>3. T \in SUBSET Nat
      OBVIOUS
    <2> HIDE DEF T
    <2>4. T = Nat
      BY <2>1, <2>2, <2>3, SetInduction
    <2>5. \A k \in 0 .. L : k \in T
      BY <1>1, <2>4
    <2> HIDE DEF F
    <2> QED
      BY <2>5 DEF T
  <1>15. F \in [0 .. L -> V]
    BY <1>14
  <1> HIDE DEF F
  <1> QED
    BY <1>11, <1>12, <1>13, <1>15 DEF V

\* The members of a list that another is appended to.
LEMMA Appended ==
    ASSUME NEW S, NEW s \in Seq(S), NEW t \in Seq(S)
    PROVE  /\ Members(s \o t) = Members(s) \cup Members(t)
           /\ IsInjective(s) /\ IsInjective(t) /\ Members(s) \cap Members(t) = {} => IsInjective(s \o t)
  <1> DEFINE u == s \o t
  <1>1. /\ Len(s) \in Nat /\ Len(t) \in Nat
        /\ DOMAIN s = 1 .. Len(s) /\ DOMAIN t = 1 .. Len(t) /\ DOMAIN u = 1 .. Len(s) + Len(t)
        /\ \A i \in DOMAIN u : u[i] = IF i <= Len(s) THEN s[i] ELSE t[i - Len(s)]
    OBVIOUS
  <1> HIDE DEF u
  <1>2. /\ \A i \in DOMAIN s : i \in DOMAIN u /\ u[i] = s[i]
        /\ \A i \in DOMAIN t : i + Len(s) \in DOMAIN u /\ u[i + Len(s)] = t[i]
    <2>1. \A i \in DOMAIN s : i \in DOMAIN u /\ i <= Len(s)
      BY <1>1
    <2>2. \A i \in DOMAIN t : i + Len(s) \in DOMAIN u /\ ~(i + Len(s) <= Len(s)) /\ (i + Len(s)) - Len(s) = i
      BY <1>1
    <2> QED
      BY <1>1, <2>1, <2>2
  <1>3. \A i \in DOMAIN u : \/ i <= Len(s) /\ i \in DOMAIN s /\ u[i] = s[i]
                            \/ ~(i <= Len(s)) /\ i - Len(s) \in DOMAIN t /\ u[i] = t[i - Len(s)]
    <2>1. \A i \in DOMAIN u : IF i <= Len(s) THEN i \in DOMAIN s ELSE i - Len(s) \in DOMAIN t
      BY <1>1
    <2> QED
      BY <1>1, <2>1
  <1>4. Members(u) = Members(s) \cup Members(t)
    <2>1. ASSUME NEW c \in Members(u) PROVE c \in Members(s) \cup Members(t)
      BY <1>3, <2>1 DEF Members
    <2>2. ASSUME NEW c \in Members(s) \cup Members(t) PROVE c \in Members(u)
      BY <1>2, <2>2 DEF Members
    <2> QED
      BY <2>1, <2>2
  <1>5. ASSUME IsInjective(s), IsInjective(t), Members(s) \cap Members(t) = {}
        PROVE  IsInjective(u)
    <2> SUFFICES ASSUME NEW i \in DOMAIN u, NEW j \in DOMAIN u, u[i] = u[j] PROVE i = j
      BY DEF IsInjective
    <2>0. /\ \A c \in DOMAIN s : \A d \in DOMAIN t : s[c] # t[d]
          /\ \A c, d \in DOMAIN s : s[c] = s[d] => c = d
          /\ \A c, d \in DOMAIN t : t[c] = t[d] => c = d
      BY <1>5 DEF Members, IsInjective
    <2>1. CASE i <= Len(s)
      BY <1>3, <2>0, <2>1
    <2>2. CASE ~(i <= Len(s))
      <3>1. i - Len(s) \in DOMAIN t /\ u[i] = t[i - Len(s)] /\ ~(j <= Len(s)) /\ j - Len(s) \in DOMAIN t
            /\ u[j] = t[j - Len(s)]
        BY <1>3, <2>0, <2>2
      <3>2. i - Len(s) = j - Len(s)
        BY <2>0, <3>1
      <3>3. i \in Nat /\ j \in Nat
        BY <1>1
      <3> QED
        BY <1>1, <3>2, <3>3
    <2> QED
      BY <2>1, <2>2
  <1> QED
    BY <1>4, <1>5 DEF u

\* What has been appended up to each of the lists.
Apart(s) ==
    /\ \A i \in DOMAIN s : IsInjective(s[i])
    /\ \A i, j \in DOMAIN s : i # j => Members(s[i]) \cap Members(s[j]) = {}

Appends(F, s) ==
    /\ F[0] = <<>> /\ F[Len(s)] = FlattenSeq(s)
    /\ \A k \in 1 .. Len(s) : F[k] = F[k - 1] \o s[k]

LEMMA FlatPrefixes ==
    ASSUME NEW S, NEW s \in Seq(Seq(S))
    PROVE  \E F \in [0 .. Len(s) -> Seq(S)] :
              /\ Appends(F, s)
              /\ \A k \in 0 .. Len(s) : /\ Members(F[k]) = UNION {Members(s[i]) : i \in 1 .. k}
                                        /\ Apart(s) => IsInjective(F[k])
  <1> DEFINE L == Len(s)
             U(k) == UNION {Members(s[i]) : i \in 1 .. k}
  <1>1. PICK F \in [0 .. L -> Seq(S)] : /\ F[0] = <<>> /\ F[L] = FlattenSeq(s)
                                        /\ \A k \in 1 .. L : F[k] = F[k - 1] \o s[k]
    BY FlatIs
  <1>2. L \in Nat /\ DOMAIN s = 1 .. L /\ \A k \in DOMAIN s : s[k] \in Seq(S)
    OBVIOUS
  <1> DEFINE P(k) == Members(F[k]) = U(k) /\ (Apart(s) => IsInjective(F[k]))
             T == {k \in Nat : k \in 0 .. L => P(k)}
  <1>3. 0 \in T
    <2>1. Members(<<>>) = {} /\ IsInjective(<<>>)
      BY DEF Members, IsInjective
    <2>2. U(0) = {}
      OBVIOUS
    <2> QED
      BY <1>1, <2>1, <2>2
  <1>4. ASSUME NEW k \in T PROVE k + 1 \in T
    <2>0. k \in Nat /\ (k \in 0 .. L => P(k))
      OBVIOUS
    <2> SUFFICES ASSUME k + 1 \in 0 .. L PROVE P(k + 1)
      BY <2>0
    <2>1. k \in 0 .. L /\ k + 1 \in 1 .. L /\ k + 1 \in DOMAIN s /\ (k + 1) - 1 = k
      <3>1. k \in Nat /\ L \in Nat /\ k + 1 \in 0 .. L /\ DOMAIN s = 1 .. L
        BY <1>2, <2>0
      <3> HIDE DEF T, L
      <3> QED
        BY <3>1
    <2>2. F[k + 1] = F[k] \o s[k + 1] /\ F[k] \in Seq(S) /\ s[k + 1] \in Seq(S)
      BY <1>1, <1>2, <2>1
    <2>3. U(k + 1) = U(k) \cup Members(s[k + 1])
      <3>1. 1 .. k + 1 = (1 .. k) \cup {k + 1}
        BY <2>0
      <3> QED
        BY <3>1
    <2>4. Apart(s) => U(k) \cap Members(s[k + 1]) = {}
      <3>1. \A i \in 1 .. k : i \in DOMAIN s /\ i # k + 1
        BY <1>2, <2>1
      <3> QED
        BY <2>1, <3>1 DEF Apart
    <2>5. P(k)
      BY <2>0, <2>1
    <2>6. Apart(s) => IsInjective(s[k + 1])
      BY <2>1 DEF Apart
    <2> HIDE DEF U, T
    <2>7. /\ Members(F[k + 1]) = Members(F[k]) \cup Members(s[k + 1])
          /\ IsInjective(F[k]) /\ IsInjective(s[k + 1]) /\ Members(F[k]) \cap Members(s[k + 1]) = {}
             => IsInjective(F[k + 1])
      BY <2>2, Appended
    <2> QED
      BY <2>3, <2>4, <2>5, <2>6, <2>7
  <1>5. ASSUME NEW k \in 0 .. L PROVE P(k)
    <2>1. T \in SUBSET Nat
      OBVIOUS
    <2> HIDE DEF T, P
    <2>2. T = Nat
      BY <1>3, <1>4, <2>1, SetInduction
    <2>3. k \in T
      BY <1>2, <2>2
    <2> QED
      BY <2>3 DEF T
  <1>6. Appends(F, s)
    BY <1>1 DEF Appends
  <1> QED
    BY <1>5, <1>6

LEMMA FlatMembers ==
    ASSUME NEW S, NEW s \in Seq(Seq(S))
    PROVE  /\ FlattenSeq(s) \in Seq(S)
           /\ Members(FlattenSeq(s)) = UNION {Members(s[i]) : i \in DOMAIN s}
           /\ Apart(s) => IsInjective(FlattenSeq(s))
  <1> DEFINE L == Len(s)
  <1>1. PICK F \in [0 .. L -> Seq(S)] :
              /\ Appends(F, s)
              /\ \A k \in 0 .. L : /\ Members(F[k]) = UNION {Members(s[i]) : i \in 1 .. k}
                                   /\ Apart(s) => IsInjective(F[k])
    BY FlatPrefixes
  <1>2. L \in 0 .. L /\ DOMAIN s = 1 .. L
    OBVIOUS
  <1>3. F[L] = FlattenSeq(s)
    BY <1>1 DEF Appends
  <1> HIDE DEF L
  <1> QED
    BY <1>1, <1>2, <1>3

-----------------------------------------------------------------------------
\* hasAttachment() looks into every multipart but multipart/related.
LEMMA HasAttachmentIs ==
    ASSUME FInv, NEW h, NEW N, IsHeight(h, N), NEW n \in Node
    PROVE  HasAttachment(n) <=>
              \/ IsAttachment(n)
              \/ /\ IsMultipart(n) /\ ~IsSubtype(n, "related")
                 /\ \E c \in Members(kids[n]) : HasAttachment(c)
  <1> DEFINE V == BOOLEAN
             value(f, m) == \/ IsAttachment(m)
                            \/ /\ IsMultipart(m) /\ ~IsSubtype(m, "related")
                               /\ \E c \in Members(kids[m]) : f[c]
             step == [m \in Node |-> [f \in [Node -> V] |-> value(f, m)]]
  <1>1. \A m, f : value(f, m) \in V
    BY DEF IsAttachment
  <1>2. ASSUME NEW m \in Node, NEW f, NEW g, \A c \in Members(kids[m]) : f[c] = g[c]
        PROVE  value(f, m) = value(g, m)
    <2>1. (\E c \in Members(kids[m]) : f[c]) <=> (\E c \in Members(kids[m]) : g[c])
      BY <1>2, Zenon
    <2> QED
      BY <2>1, Zenon
  <1> HIDE DEF value
  <1>3. /\ step \in [Node -> [[Node -> V] -> V]]
        /\ \A m \in Node : \A f \in [Node -> V] : step[m][f] = value(f, m)
    BY <1>1
  <1> HIDE DEF step
  <1>4. V # {}
    OBVIOUS
  <1> HIDE DEF V
  <1>5. Local(step, V)
    <2>1. ASSUME NEW m \in Node, NEW f \in [Node -> V], NEW g \in [Node -> V],
                 \A c \in Members(kids[m]) : f[c] = g[c]
          PROVE  step[m][f] = step[m][g]
      <3>1. value(f, m) = value(g, m)
        BY <1>2, <2>1
      <3> QED
        BY <1>3, <3>1
    <2> QED
      BY <1>3, <2>1 DEF Local
  <1>6. \E f \in [Node -> V] : f = [m \in Node |-> step[m][f]]
    <2>1. \A s : Local(s, V) => \E f \in [Node -> V] : f = [m \in Node |-> s[m][f]]
      BY <1>4, TreeRecursion
    <2> QED
      BY <1>5, <2>1
  <1> DEFINE Is(f) == f = [m \in Node |-> value(f, m)]
             has == CHOOSE f : Is(f)
  <1>7. \E f \in [Node -> V] : Is(f)
    BY <1>3, <1>6
  <1>8. Is(has)
    <2> HIDE DEF Is
    <2> QED
      BY <1>7
  <1>9. \A m : HasAttachment(m) = has[m]
    BY DEF HasAttachment, value
  <1> HIDE DEF has
  <1>10. has[n] = value(has, n)
    BY <1>8
  <1> HIDE DEF Is
  <1>11. \A m : HasAttachment(m) <=> has[m]
    BY <1>9, Zenon
  <1>12. has[n] <=> value(has, n)
    BY <1>10, Zenon
  <1> QED
    BY <1>11, <1>12, Zenon DEF value

\* hasInvitation() looks into every multipart.
LEMMA HasInvitationIs ==
    ASSUME FInv, NEW h, NEW N, IsHeight(h, N), NEW n \in Node
    PROVE  HasInvitation(n) <=>
              \/ IsInvitation(n)
              \/ IsMultipart(n) /\ \E c \in Members(kids[n]) : HasInvitation(c)
  <1> DEFINE V == BOOLEAN
             value(f, m) == \/ IsInvitation(m)
                            \/ (IsMultipart(m) /\ \E c \in Members(kids[m]) : f[c])
             step == [m \in Node |-> [f \in [Node -> V] |-> value(f, m)]]
  <1>1. \A m, f : value(f, m) \in V
    BY DEF IsInvitation
  <1>2. ASSUME NEW m \in Node, NEW f, NEW g, \A c \in Members(kids[m]) : f[c] = g[c]
        PROVE  value(f, m) = value(g, m)
    <2>1. (\E c \in Members(kids[m]) : f[c]) <=> (\E c \in Members(kids[m]) : g[c])
      BY <1>2, Zenon
    <2> QED
      BY <2>1, Zenon
  <1> HIDE DEF value
  <1>3. /\ step \in [Node -> [[Node -> V] -> V]]
        /\ \A m \in Node : \A f \in [Node -> V] : step[m][f] = value(f, m)
    BY <1>1
  <1> HIDE DEF step
  <1>4. V # {}
    OBVIOUS
  <1> HIDE DEF V
  <1>5. Local(step, V)
    <2>1. ASSUME NEW m \in Node, NEW f \in [Node -> V], NEW g \in [Node -> V],
                 \A c \in Members(kids[m]) : f[c] = g[c]
          PROVE  step[m][f] = step[m][g]
      <3>1. value(f, m) = value(g, m)
        BY <1>2, <2>1
      <3> QED
        BY <1>3, <3>1
    <2> QED
      BY <1>3, <2>1 DEF Local
  <1>6. \E f \in [Node -> V] : f = [m \in Node |-> step[m][f]]
    <2>1. \A s : Local(s, V) => \E f \in [Node -> V] : f = [m \in Node |-> s[m][f]]
      BY <1>4, TreeRecursion
    <2> QED
      BY <1>5, <2>1
  <1> DEFINE Is(f) == f = [m \in Node |-> value(f, m)]
             has == CHOOSE f : Is(f)
  <1>7. \E f \in [Node -> V] : Is(f)
    BY <1>3, <1>6
  <1>8. Is(has)
    <2> HIDE DEF Is
    <2> QED
      BY <1>7
  <1>9. \A m : HasInvitation(m) = has[m]
    BY DEF HasInvitation, value
  <1> HIDE DEF has
  <1>10. has[n] = value(has, n)
    BY <1>8
  <1> HIDE DEF Is
  <1>11. \A m : HasInvitation(m) <=> has[m]
    BY <1>9, Zenon
  <1>12. has[n] <=> value(has, n)
    BY <1>10, Zenon
  <1> QED
    BY <1>11, <1>12, Zenon DEF value

\* attachments() appends the lists of the parts; that of an attachment is the
\* attachment itself.
LEMMA AttachmentsIs ==
    ASSUME FInv, NEW h, NEW N, IsHeight(h, N), NEW n \in Node
    PROVE  LET pieces == [i \in DOMAIN kids[n] |->
                             IF IsAttachment(kids[n][i]) THEN <<kids[n][i]>>
                             ELSE Attachments(kids[n][i])]
           IN  /\ Attachments(n) \in Seq(Node)
               /\ pieces \in Seq(Seq(Node)) /\ DOMAIN pieces = DOMAIN kids[n]
               /\ Attachments(n) = IF IsMultipart(n) /\ ~IsSubtype(n, "related")
                                   THEN FlattenSeq(pieces) ELSE <<>>
  <1> DEFINE V == Seq(Node)
             pieces(f, m) == [i \in DOMAIN kids[m] |->
                                 IF IsAttachment(kids[m][i]) THEN <<kids[m][i]>>
                                 ELSE f[kids[m][i]]]
             value(f, m) == IF IsMultipart(m) /\ ~IsSubtype(m, "related")
                            THEN FlattenSeq(pieces(f, m)) ELSE <<>>
             step == [m \in Node |-> [f \in [Node -> V] |-> value(f, m)]]
  <1>1. ASSUME NEW m \in Node, NEW f, \A c \in Members(kids[m]) : f[c] \in V
        PROVE  pieces(f, m) \in Seq(V) /\ DOMAIN pieces(f, m) = DOMAIN kids[m] /\ value(f, m) \in V
    <2>1. /\ Len(kids[m]) \in Nat /\ DOMAIN kids[m] = 1 .. Len(kids[m])
          /\ \A i \in DOMAIN kids[m] : kids[m][i] \in Node /\ kids[m][i] \in Members(kids[m])
      BY KidsAre
    <2>2. \A c \in Node : <<c>> \in V
      OBVIOUS
    <2>3. <<>> \in V
      OBVIOUS
    <2> HIDE DEF V
    <2>4. \A i \in DOMAIN kids[m] : (IF IsAttachment(kids[m][i]) THEN <<kids[m][i]>> ELSE f[kids[m][i]]) \in V
      BY <1>1, <2>1, <2>2
    <2>5. pieces(f, m) \in Seq(V) /\ DOMAIN pieces(f, m) = DOMAIN kids[m]
      BY <2>1, <2>4
    <2> HIDE DEF pieces
    <2>6. FlattenSeq(pieces(f, m)) \in V
      BY <2>5, FlatMembers DEF V
    <2> QED
      BY <2>3, <2>5, <2>6
  <1>2. ASSUME NEW m \in Node, NEW f, NEW g, \A c \in Members(kids[m]) : f[c] = g[c]
        PROVE  value(f, m) = value(g, m)
    <2>1. \A i \in DOMAIN kids[m] : f[kids[m][i]] = g[kids[m][i]]
      BY <1>2, KidsAre
    <2>2. pieces(f, m) = pieces(g, m)
      BY <2>1
    <2> HIDE DEF pieces
    <2> QED
      BY <2>2
  <1> HIDE DEF value
  <1>3. /\ step \in [Node -> [[Node -> V] -> V]]
        /\ \A m \in Node : \A f \in [Node -> V] : step[m][f] = value(f, m)
    <2> HIDE DEF V
    <2>1. ASSUME NEW m \in Node, NEW f \in [Node -> V] PROVE value(f, m) \in V
      <3>1. \A c \in Members(kids[m]) : f[c] \in V
        BY KidsAre
      <3> QED
        BY <1>1, <3>1
    <2> QED
      BY <2>1
  <1> HIDE DEF step
  <1>4. V # {}
    <2>1. <<>> \in V
      OBVIOUS
    <2> QED
      BY <2>1
  <1> HIDE DEF V
  <1>5. Local(step, V)
    <2>1. ASSUME NEW m \in Node, NEW f \in [Node -> V], NEW g \in [Node -> V],
                 \A c \in Members(kids[m]) : f[c] = g[c]
          PROVE  step[m][f] = step[m][g]
      <3>1. value(f, m) = value(g, m)
        BY <1>2, <2>1
      <3> QED
        BY <1>3, <3>1
    <2> QED
      BY <1>3, <2>1 DEF Local
  <1>6. \E f \in [Node -> V] : f = [m \in Node |-> step[m][f]]
    <2>1. \A s : Local(s, V) => \E f \in [Node -> V] : f = [m \in Node |-> s[m][f]]
      BY <1>4, TreeRecursion
    <2> QED
      BY <1>5, <2>1
  <1> DEFINE Is(f) == f = [m \in Node |-> value(f, m)]
             all == CHOOSE f : Is(f)
  <1>7. \E f \in [Node -> V] : Is(f)
    BY <1>3, <1>6
  <1>8. Is(all)
    <2> HIDE DEF Is
    <2> QED
      BY <1>7
  <1>9. \A m : Attachments(m) = all[m]
    BY DEF Attachments, value
  <1> HIDE DEF all
  <1>10. \A m \in Node : all[m] = value(all, m)
    BY <1>8
  <1> HIDE DEF Is
  <1>11. \A m \in Node : all[m] \in V
    <2> DEFINE S == {m \in Node : all[m] \in V}
    <2>1. ASSUME NEW m \in Node, Members(kids[m]) \subseteq S PROVE m \in S
      <3>1. \A c \in Members(kids[m]) : all[c] \in V
        BY <2>1
      <3>2. value(all, m) \in V
        BY <1>1, <3>1
      <3> QED
        BY <1>10, <3>2
    <2> HIDE DEF S
    <2>2. \A m \in Node : m \in S
      BY <2>1, DownInduction
    <2> QED
      BY <2>2 DEF S
  <1>12. \A c \in Members(kids[n]) : all[c] \in V
    BY <1>11, KidsAre
  <1>13. pieces(all, n) \in Seq(V) /\ DOMAIN pieces(all, n) = DOMAIN kids[n]
    BY <1>1, <1>12
  <1>14. pieces(all, n) = [i \in DOMAIN kids[n] |->
                             IF IsAttachment(kids[n][i]) THEN <<kids[n][i]>>
                             ELSE Attachments(kids[n][i])]
    BY <1>9
  <1>15. all[n] = IF IsMultipart(n) /\ ~IsSubtype(n, "related")
                  THEN FlattenSeq(pieces(all, n)) ELSE <<>>
    BY <1>10 DEF value
  <1> HIDE DEF pieces
  <1> QED
    BY <1>9, <1>11, <1>13, <1>14, <1>15 DEF V

\* mainBodyPart() follows the first parts, and chooses by the type in a
\* multipart/alternative.
LEMMA MainBodyIs ==
    ASSUME FInv, NEW h, NEW N, IsHeight(h, N), NEW type, NEW n \in Node
    PROVE  LET b == MainBodyPart(n, type)
           IN  b = Null \/
               /\ ~IsMultipart(n) => b = n /\ (type = AnyType \/ IsMimeType(n, type[1], type[2]))
               /\ IsMultipart(n) => /\ kids[n] # <<>>
                                    /\ ~IsSubtype(n, "alternative") => b = MainBodyPart(kids[n][1], type)
                                    /\ IsSubtype(n, "alternative") =>
                                          /\ b \in Members(kids[n])
                                          /\ type = AnyType \/ IsMimeType(b, type[1], type[2])
  <1> DEFINE V == Node \cup {Null}
             ofType(m) == {i \in DOMAIN kids[m] : IsMimeType(kids[m][i], type[1], type[2])}
             value(f, m) ==
                IF ~IsMultipart(m)
                THEN IF type = AnyType \/ IsMimeType(m, type[1], type[2]) THEN m ELSE Null
                ELSE IF kids[m] = <<>> THEN Null
                ELSE IF ~IsSubtype(m, "alternative") THEN f[kids[m][1]]
                ELSE IF type = AnyType THEN kids[m][1]
                ELSE IF ofType(m) = {} THEN Null
                ELSE kids[m][Min(ofType(m))]
             step == [m \in Node |-> [f \in [Node -> V] |-> value(f, m)]]
  <1>1. ASSUME NEW m \in Node
        PROVE  /\ kids[m] # <<>> => kids[m][1] \in Members(kids[m]) /\ kids[m][1] \in Node
               /\ ofType(m) # {} => /\ kids[m][Min(ofType(m))] \in Members(kids[m])
                                    /\ kids[m][Min(ofType(m))] \in Node
                                    /\ IsMimeType(kids[m][Min(ofType(m))], type[1], type[2])
    <2>1. /\ DOMAIN kids[m] = 1 .. Len(kids[m]) /\ Len(kids[m]) \in Nat /\ kids[m] \in Seq(nodes)
          /\ \A i \in DOMAIN kids[m] : i \in Nat /\ kids[m][i] \in Members(kids[m]) /\ kids[m][i] \in Node
      BY KidsAre
    <2>2. kids[m] # <<>> => 1 \in DOMAIN kids[m]
      BY <2>1
    <2> DEFINE T == ofType(m)
    <2>3. T \in SUBSET Nat /\ \A i \in T : i \in DOMAIN kids[m] /\ IsMimeType(kids[m][i], type[1], type[2])
      BY <2>1
    <2> HIDE DEF T
    <2>4. T # {} => Min(T) \in T
      BY <2>3, MinIs
    <2>5. T # {} => /\ kids[m][Min(T)] \in Members(kids[m]) /\ kids[m][Min(T)] \in Node
                    /\ IsMimeType(kids[m][Min(T)], type[1], type[2])
      BY <2>1, <2>3, <2>4
    <2> QED
      BY <2>1, <2>2, <2>5 DEF T
  <1> HIDE DEF ofType
  <1>2. ASSUME NEW m \in Node, NEW f \in [Node -> V] PROVE value(f, m) \in V
    BY <1>1
  <1>3. ASSUME NEW m \in Node, NEW f, NEW g, \A c \in Members(kids[m]) : f[c] = g[c]
        PROVE  value(f, m) = value(g, m)
    <2>1. kids[m] # <<>> => f[kids[m][1]] = g[kids[m][1]]
      BY <1>1, <1>3
    <2> QED
      BY <2>1
  <1> HIDE DEF value
  <1>4. /\ step \in [Node -> [[Node -> V] -> V]]
        /\ \A m \in Node : \A f \in [Node -> V] : step[m][f] = value(f, m)
    BY <1>2
  <1> HIDE DEF step
  <1>5. V # {}
    OBVIOUS
  <1> HIDE DEF V
  <1>6. Local(step, V)
    <2>1. ASSUME NEW m \in Node, NEW f \in [Node -> V], NEW g \in [Node -> V],
                 \A c \in Members(kids[m]) : f[c] = g[c]
          PROVE  step[m][f] = step[m][g]
      <3>1. value(f, m) = value(g, m)
        BY <1>3, <2>1
      <3> QED
        BY <1>4, <3>1
    <2> QED
      BY <1>4, <2>1 DEF Local
  <1>7. \E f \in [Node -> V] : f = [m \in Node |-> step[m][f]]
    <2>1. \A s : Local(s, V) => \E f \in [Node -> V] : f = [m \in Node |-> s[m][f]]
      BY <1>5, TreeRecursion
    <2> QED
      BY <1>6, <2>1
  <1> DEFINE Is(f) == f = [m \in Node |-> value(f, m)]
             part == CHOOSE f : Is(f)
  <1>8. \E f \in [Node -> V] : Is(f)
    BY <1>4, <1>7
  <1>9. Is(part)
    <2> HIDE DEF Is
    <2> QED
      BY <1>8
  <1>10. \A m : MainBodyPart(m, type) = part[m]
    BY DEF MainBodyPart, value, ofType
  <1> HIDE DEF part
  <1>11. part[n] = value(part, n)
    BY <1>9
  <1> HIDE DEF Is
  <1>12. ASSUME part[n] # Null
         PROVE  /\ ~IsMultipart(n) => part[n] = n /\ (type = AnyType \/ IsMimeType(n, type[1], type[2]))
                /\ IsMultipart(n) => /\ kids[n] # <<>>
                                     /\ ~IsSubtype(n, "alternative") => part[n] = part[kids[n][1]]
                                     /\ IsSubtype(n, "alternative") =>
                                           /\ part[n] \in Members(kids[n])
                                           /\ type = AnyType \/ IsMimeType(part[n], type[1], type[2])
    BY <1>1, <1>11, <1>12 DEF value
  <1> QED
    BY <1>10, <1>12

-----------------------------------------------------------------------------
(* What the queries find.                                                  *)

\* The text is in the tree.
LEMMA TextInTree ==
    ASSUME FInv, NEW h, NEW N, IsHeight(h, N), NEW n \in nodes, TextContent(n) # Null
    PROVE  TextContent(n) \in Tree(n) /\ IsText(TextContent(n))
  <1> DEFINE S == {m \in Node : m \in nodes /\ TextContent(m) # Null =>
                                   TextContent(m) \in Tree(m) /\ IsText(TextContent(m))}
  <1>1. ASSUME NEW m \in Node, Members(kids[m]) \subseteq S PROVE m \in S
    <2> SUFFICES ASSUME m \in nodes, TextContent(m) # Null
                 PROVE  TextContent(m) \in Tree(m) /\ IsText(TextContent(m))
      OBVIOUS
    <2>1. CASE IsText(m)
      BY <2>1, TextIs, TreeIsLeast
    <2>2. CASE ~IsText(m)
      <3>1. PICK i \in DOMAIN kids[m] : /\ TextContent(kids[m][i]) # Null
                                        /\ TextContent(m) = TextContent(kids[m][i])
        BY <2>2, TextIs
      <3> DEFINE c == kids[m][i]
      <3>2. c \in Members(kids[m]) /\ c \in nodes
        BY KidsAre
      <3> HIDE DEF c
      <3>3. TextContent(c) \in Tree(c) /\ IsText(TextContent(c))
        BY <1>1, <3>1, <3>2 DEF c
      <3>4. Tree(c) \subseteq Tree(m)
        BY <3>2, TreeIs
      <3> QED
        BY <3>1, <3>3, <3>4 DEF c
    <2> QED
      BY <2>1, <2>2
  <1>2. n \in Node
    BY DEF FInv, ForestOf, Listed
  <1> HIDE DEF S
  <1>3. n \in S
    BY <1>1, <1>2, DownInduction
  <1> QED
    BY <1>3 DEF S

\* The members of the list of attachments.
LEMMA AttachmentsAre ==
    ASSUME FInv, NEW h, NEW N, IsHeight(h, N), NEW n \in nodes
    PROVE  /\ Members(Attachments(n)) = {m \in Reached(n, {"related"}) \ {n} : IsAttachment(m)}
           /\ IsInjective(Attachments(n))
  <1> DEFINE R(m) == Reached(m, {"related"})
             A(m) == {k \in R(m) \ {m} : IsAttachment(k)}
             S == {m \in Node : m \in nodes =>
                      Members(Attachments(m)) = A(m) /\ IsInjective(Attachments(m))}
  <1>1. ASSUME NEW m \in Node, Members(kids[m]) \subseteq S PROVE m \in S
    <2> SUFFICES ASSUME m \in nodes
                 PROVE  Members(Attachments(m)) = A(m) /\ IsInjective(Attachments(m))
      OBVIOUS
    <2> DEFINE Open == IsMultipart(m) /\ ~IsSubtype(m, "related")
               pieces == [i \in DOMAIN kids[m] |->
                             IF IsAttachment(kids[m][i]) THEN <<kids[m][i]>>
                             ELSE Attachments(kids[m][i])]
               B(c) == IF IsAttachment(c) THEN {c} ELSE A(c)
    <2>1. /\ pieces \in Seq(Seq(Node)) /\ DOMAIN pieces = DOMAIN kids[m]
          /\ Attachments(m) = IF Open THEN FlattenSeq(pieces) ELSE <<>>
      BY AttachmentsIs
    <2>2. \A i \in DOMAIN kids[m] : /\ kids[m][i] \in Members(kids[m]) /\ kids[m][i] \in nodes
                                    /\ \A j \in DOMAIN kids[m] : kids[m][i] = kids[m][j] => i = j
      BY KidsAre
    <2>3. \A c \in Members(kids[m]) : c \in nodes /\ c \in Tree(c) /\ m \notin Tree(c)
      BY KidsAre, TreeIs, TreeIsLeast
    <2>4. /\ R(m) = {m} \cup {k \in UNION {R(c) : c \in Members(kids[m])} : Open}
          /\ \A c \in Members(kids[m]) : R(c) \subseteq Tree(c) /\ c \in R(c)
      <3>1. \A p \in nodes : p \in R(p) /\ R(p) \subseteq Tree(p)
        <4>1. \A p \in nodes : p \in R(p)
          BY ReachedIs
        <4>2. \A p : R(p) \subseteq Tree(p)
          BY DEF Reached
        <4> QED
          BY <4>1, <4>2
      <3>2. kind[m].sub \notin {"related"} <=> ~IsSubtype(m, "related")
        BY DEF IsSubtype
      <3>3. R(m) = {m} \cup {k \in UNION {R(c) : c \in Members(kids[m])} :
                               IsMultipart(m) /\ kind[m].sub \notin {"related"}}
        BY ReachedIs
      <3> HIDE DEF R
      <3> QED
        BY <2>3, <3>1, <3>2, <3>3
    <2>5. \A c \in Members(kids[m]) : IsAttachment(c) => R(c) = {c}
      <3> SUFFICES ASSUME NEW c \in Members(kids[m]), IsAttachment(c) PROVE R(c) = {c}
        OBVIOUS
      <3>1. ~IsMultipart(c)
        BY DEF IsAttachment
      <3> QED
        BY <2>3, <3>1, ReachedIs
    <2>6. A(m) = IF Open THEN UNION {B(c) : c \in Members(kids[m])} ELSE {}
      <3>1. \A c \in Members(kids[m]) : B(c) = {k \in R(c) : IsAttachment(k)}
        <4> HIDE DEF R
        <4> QED
          BY <2>4, <2>5
      <3>2. \A c \in Members(kids[m]) : m \notin R(c)
        BY <2>3, <2>4
      <3> HIDE DEF R, B, Open
      <3> QED
        BY <2>4, <3>1, <3>2
    <2>7. \A i \in DOMAIN pieces : Members(pieces[i]) = B(kids[m][i]) /\ IsInjective(pieces[i])
      <3> SUFFICES ASSUME NEW i \in DOMAIN kids[m]
                   PROVE  Members(pieces[i]) = B(kids[m][i]) /\ IsInjective(pieces[i])
        BY <2>1
      <3>1. CASE IsAttachment(kids[m][i])
        <4>1. pieces[i] = <<kids[m][i]>> /\ B(kids[m][i]) = {kids[m][i]}
          BY <3>1
        <4>2. \A c : Members(<<c>>) = {c} /\ IsInjective(<<c>>)
          BY DEF Members, IsInjective
        <4> HIDE DEF pieces, B
        <4> QED
          BY <4>1, <4>2
      <3>2. CASE ~IsAttachment(kids[m][i])
        <4>1. pieces[i] = Attachments(kids[m][i]) /\ B(kids[m][i]) = A(kids[m][i])
          BY <3>2
        <4> HIDE DEF A
        <4>2. Members(Attachments(kids[m][i])) = A(kids[m][i]) /\ IsInjective(Attachments(kids[m][i]))
          BY <1>1, <2>2
        <4> HIDE DEF pieces, B
        <4> QED
          BY <4>1, <4>2
      <3> QED
        BY <3>1, <3>2
    <2>8. \A i, j \in DOMAIN pieces : i # j => Members(pieces[i]) \cap Members(pieces[j]) = {}
      <3> SUFFICES ASSUME NEW i \in DOMAIN kids[m], NEW j \in DOMAIN kids[m], i # j
                   PROVE  B(kids[m][i]) \cap B(kids[m][j]) = {}
        <4> HIDE DEF pieces, B
        <4> QED
          BY <2>1, <2>7
      <3>1. Tree(kids[m][i]) \cap Tree(kids[m][j]) = {}
        BY <2>2, SiblingsApart
      <3>2. \A c \in Members(kids[m]) : B(c) \subseteq Tree(c)
        <4> HIDE DEF R
        <4> QED
          BY <2>3, <2>4
      <3> HIDE DEF B
      <3> QED
        BY <2>2, <3>1, <3>2
    <2> HIDE DEF pieces, B
    <2>9. /\ Members(FlattenSeq(pieces)) = UNION {Members(pieces[i]) : i \in DOMAIN pieces}
          /\ IsInjective(FlattenSeq(pieces))
      BY <2>1, <2>7, <2>8, FlatMembers DEF Apart
    <2>10. UNION {Members(pieces[i]) : i \in DOMAIN pieces} = UNION {B(c) : c \in Members(kids[m])}
      <3>1. \A c \in Members(kids[m]) : \E i \in DOMAIN kids[m] : kids[m][i] = c
        BY DEF Members
      <3> QED
        BY <2>1, <2>2, <2>7, <3>1
    <2>11. Members(<<>>) = {} /\ IsInjective(<<>>)
      BY DEF Members, IsInjective
    <2> HIDE DEF A, Open
    <2> QED
      BY <2>1, <2>6, <2>9, <2>10, <2>11
  <1>2. n \in Node
    BY DEF FInv, ForestOf, Listed
  <1> HIDE DEF S
  <1>3. n \in S
    BY <1>1, <1>2, DownInduction
  <1> QED
    BY <1>3 DEF S

\* hasAttachment() and hasInvitation() look everywhere the walk comes to.
LEMMA HasAttachmentFinds ==
    ASSUME FInv, NEW h, NEW N, IsHeight(h, N), NEW n \in nodes
    PROVE  HasAttachment(n) <=> \E m \in Reached(n, {"related"}) : IsAttachment(m)
  <1> DEFINE R(m) == Reached(m, {"related"})
             Right(m) == HasAttachment(m) <=> \E k \in R(m) : IsAttachment(k)
             S == {m \in Node : m \in nodes => Right(m)}
  <1>1. ASSUME NEW m \in Node, Members(kids[m]) \subseteq S PROVE m \in S
    <2> SUFFICES ASSUME m \in nodes PROVE Right(m)
      OBVIOUS
    <2> DEFINE Open == IsMultipart(m) /\ ~IsSubtype(m, "related")
    <2>1. HasAttachment(m) <=> IsAttachment(m) \/ (Open /\ \E c \in Members(kids[m]) : HasAttachment(c))
      BY HasAttachmentIs, Zenon
    <2>2. \A c \in Members(kids[m]) : c \in nodes
      BY KidsAre
    <2>3. R(m) = {m} \cup {k \in UNION {R(c) : c \in Members(kids[m])} : Open}
      BY ReachedIs DEF IsSubtype
    <2>4. \A c \in Members(kids[m]) : Right(c)
      <3> HIDE DEF Right
      <3> QED
        BY <1>1, <2>2
    <2> HIDE DEF R, Open
    <2>5. (\E k \in R(m) : IsAttachment(k)) <=>
             IsAttachment(m) \/ (Open /\ \E c \in Members(kids[m]) : \E k \in R(c) : IsAttachment(k))
      BY <2>3
    <2> QED
      BY <2>1, <2>4, <2>5, Zenon
  <1>2. n \in Node
    BY DEF FInv, ForestOf, Listed
  <1> HIDE DEF S
  <1>3. n \in S
    BY <1>1, <1>2, DownInduction
  <1> QED
    BY <1>3 DEF S

LEMMA HasInvitationFinds ==
    ASSUME FInv, NEW h, NEW N, IsHeight(h, N), NEW n \in nodes
    PROVE  HasInvitation(n) <=> \E m \in Reached(n, {}) : IsInvitation(m)
  <1> DEFINE R(m) == Reached(m, {})
             Right(m) == HasInvitation(m) <=> \E k \in R(m) : IsInvitation(k)
             S == {m \in Node : m \in nodes => Right(m)}
  <1>1. ASSUME NEW m \in Node, Members(kids[m]) \subseteq S PROVE m \in S
    <2> SUFFICES ASSUME m \in nodes PROVE Right(m)
      OBVIOUS
    <2>1. HasInvitation(m) <=>
             IsInvitation(m) \/ (IsMultipart(m) /\ \E c \in Members(kids[m]) : HasInvitation(c))
      BY HasInvitationIs, Zenon
    <2>2. \A c \in Members(kids[m]) : c \in nodes
      BY KidsAre
    <2>3. R(m) = {m} \cup {k \in UNION {R(c) : c \in Members(kids[m])} : IsMultipart(m)}
      BY ReachedIs
    <2>4. \A c \in Members(kids[m]) : Right(c)
      <3> HIDE DEF Right
      <3> QED
        BY <1>1, <2>2
    <2> HIDE DEF R
    <2>5. (\E k \in R(m) : IsInvitation(k)) <=>
             IsInvitation(m) \/ (IsMultipart(m) /\ \E c \in Members(kids[m]) : \E k \in R(c) : IsInvitation(k))
      BY <2>3
    <2> QED
      BY <2>1, <2>4, <2>5, Zenon
  <1>2. n \in Node
    BY DEF FInv, ForestOf, Listed
  <1> HIDE DEF S
  <1>3. n \in S
    BY <1>1, <1>2, DownInduction
  <1> QED
    BY <1>3 DEF S

\* From every content of a tree topLevel() leads to its root.
LEMMA TopOfTree ==
    ASSUME FInv, NEW h, NEW N, IsHeight(h, N), NEW n \in Roots, NEW m \in Tree(n)
    PROVE  TopLevel(m) = n
  <1>0. /\ h \in [Node -> 0 .. N] /\ N \in Nat /\ nodes \subseteq Node /\ Roots \subseteq nodes
        /\ \A k \in Node : Parent(k) # Null => Parent(k) \in Node /\ h[k] < h[Parent(k)]
    BY ParentType DEF IsHeight, FInv, ForestOf, Listed, Roots
  <1> DEFINE step == [k \in Node |-> [f \in [Node -> Node] |->
                        IF Parent(k) = Null THEN k ELSE f[Parent(k)]]]
             g == [k \in Node |-> N - h[k]]
  <1>1. step \in [Node -> [[Node -> Node] -> Node]]
    BY <1>0
  <1>2. \A k \in Node : \A f \in [Node -> Node] :
           step[k][f] = IF Parent(k) = Null THEN k ELSE f[Parent(k)]
    OBVIOUS
  <1> HIDE DEF step
  <1>3. g \in [Node -> Nat] /\ \A k \in Node : g[k] = N - h[k] /\ g[k] <= N
    <2>1. \A k \in Node : h[k] \in 0 .. N /\ N - h[k] \in Nat /\ N - h[k] <= N
      BY <1>0
    <2> QED
      BY <2>1
  <1> HIDE DEF g
  <1>4. \A k \in Node : Parent(k) # Null => Parent(k) \in Node /\ g[Parent(k)] < g[k]
    <2> SUFFICES ASSUME NEW k \in Node, Parent(k) # Null
                 PROVE  Parent(k) \in Node /\ g[Parent(k)] < g[k]
      OBVIOUS
    <2>1. Parent(k) \in Node /\ h[k] < h[Parent(k)]
      BY <1>0
    <2>2. h[k] \in 0 .. N /\ h[Parent(k)] \in 0 .. N
      BY <1>0, <2>1
    <2>3. N - h[Parent(k)] < N - h[k]
      BY <1>0, <2>1, <2>2
    <2> QED
      BY <1>3, <2>1, <2>3
  <1>5. Descends(step, Node, Node, g)
    <2> SUFFICES ASSUME NEW k \in Node, NEW e \in [Node -> Node], NEW f \in [Node -> Node],
                        \A p \in Node : g[p] < g[k] => e[p] = f[p]
                 PROVE  step[k][e] = step[k][f]
      BY <1>1 DEF Descends
    <2>1. Parent(k) # Null => e[Parent(k)] = f[Parent(k)]
      BY <1>4
    <2> QED
      BY <1>2, <2>1
  <1>6. \E f \in [Node -> Node] : f = [k \in Node |-> step[k][f]]
    <2> DEFINE V == Node
    <2>1. Bounded(g, Node)
      BY <1>0, <1>3 DEF Bounded
    <2>2. Descends(step, Node, V, g) /\ V # {}
      BY <1>0, <1>5
    <2> HIDE DEF V
    <2>3. \E f \in [Node -> V] : f = [k \in Node |-> step[k][f]]
      BY <2>1, <2>2, RecursionIsDefined
    <2> QED
      BY <2>3 DEF V
  <1> DEFINE Is(e) == e = [k \in Node |-> IF Parent(k) = Null THEN k ELSE e[Parent(k)]]
             up == CHOOSE e : Is(e)
  <1>7. \E f : Is(f)
    <2>1. PICK f \in [Node -> Node] : f = [k \in Node |-> step[k][f]]
      BY <1>6
    <2>2. Is(f)
      BY <1>2, <2>1
    <2> QED
      BY <2>2
  <1>8. Is(up)
    <2> HIDE DEF Is
    <2> QED
      BY <1>7
  <1>9. \A k : TopLevel(k) = up[k]
    BY DEF TopLevel
  <1> HIDE DEF up
  <1>10. \A k \in Node : up[k] = IF Parent(k) = Null THEN k ELSE up[Parent(k)]
    BY <1>8
  <1> HIDE DEF Is
  <1> DEFINE X == {k \in Tree(n) : up[k] = n}
  <1>11. n \in nodes /\ n \in Node /\ n \in X
    <2>1. n \in nodes /\ n \in Node /\ n \in Tree(n) /\ ParentsOf(n) = {}
      BY <1>0, TreeIsLeast DEF Roots
    <2>2. Parent(n) = Null
      BY <2>1, ParentType
    <2> QED
      BY <1>10, <2>1, <2>2
  <1>12. Closed(X, kids)
    <2> SUFFICES ASSUME NEW p \in X, NEW c \in Members(kids[p]) PROVE c \in X
      BY DEF Closed
    <2>1. p \in Node /\ p \in Tree(n)
      BY <1>0, <1>11, TreeIsLeast
    <2>2. c \in Tree(n) /\ c \in Node /\ Parent(c) = p /\ Null \notin Node
      BY <1>11, <2>1, TreeIsLeast, KidsAre, ParentIs, KindsAssumption DEF Closed
    <2> QED
      BY <1>10, <2>1, <2>2
  <1>13. X \in SUBSET nodes
    BY <1>11, TreeIsLeast
  <1> HIDE DEF X
  <1>14. Tree(n) \subseteq X
    BY <1>11, <1>12, <1>13, TreeIsLeast
  <1> QED
    BY <1>9, <1>14 DEF X

\* The main body part of a type is a content of that type, not inside an
\* encapsulated message.
LEMMA MainBodyFinds ==
    ASSUME FInv, NEW h, NEW N, IsHeight(h, N), NEW n \in nodes, NEW type, MainBodyPart(n, type) # Null
    PROVE  LET b == MainBodyPart(n, type)
           IN  b \in Reached(n, {}) /\ (type = AnyType \/ IsMimeType(b, type[1], type[2]))
  <1> DEFINE Right(m) == LET b == MainBodyPart(m, type)
                         IN  b \in Reached(m, {}) /\ (type = AnyType \/ IsMimeType(b, type[1], type[2]))
             S == {m \in Node : m \in nodes /\ MainBodyPart(m, type) # Null => Right(m)}
  <1>1. ASSUME NEW m \in Node, Members(kids[m]) \subseteq S PROVE m \in S
    <2> SUFFICES ASSUME m \in nodes, MainBodyPart(m, type) # Null PROVE Right(m)
      OBVIOUS
    <2> DEFINE b == MainBodyPart(m, type)
    <2>1. /\ ~IsMultipart(m) => b = m /\ (type = AnyType \/ IsMimeType(m, type[1], type[2]))
          /\ IsMultipart(m) => /\ kids[m] # <<>>
                               /\ ~IsSubtype(m, "alternative") => b = MainBodyPart(kids[m][1], type)
                               /\ IsSubtype(m, "alternative") =>
                                     /\ b \in Members(kids[m])
                                     /\ type = AnyType \/ IsMimeType(b, type[1], type[2])
      BY MainBodyIs
    <2>2. Reached(m, {}) = {m} \cup {k \in UNION {Reached(c, {}) : c \in Members(kids[m])} : IsMultipart(m)}
      BY ReachedIs
    <2>3. \A c \in Members(kids[m]) : c \in nodes /\ c \in Reached(c, {})
      <3>1. \A c \in Members(kids[m]) : c \in nodes
        BY KidsAre
      <3> QED
        BY <3>1, ReachedIs
    <2> HIDE DEF b
    <2>4. CASE ~IsMultipart(m)
      BY <2>1, <2>2, <2>4 DEF b
    <2>5. CASE IsMultipart(m) /\ IsSubtype(m, "alternative")
      BY <2>1, <2>2, <2>3, <2>5 DEF b
    <2>6. CASE IsMultipart(m) /\ ~IsSubtype(m, "alternative")
      <3> DEFINE c == kids[m][1]
      <3>1. c \in Members(kids[m])
        <4>1. 1 \in DOMAIN kids[m]
          <5>1. kids[m] # <<>> /\ kids[m] \in Seq(nodes)
            BY <2>1, <2>6, KidsAre
          <5> QED
            BY <5>1
        <4> QED
          BY <4>1, KidsAre
      <3>2. b = MainBodyPart(c, type)
        BY <2>1, <2>6
      <3> HIDE DEF c
      <3>3. Right(c)
        <4> HIDE DEF Right
        <4> QED
          BY <1>1, <2>3, <3>1, <3>2 DEF b
      <3>4. b \in Reached(m, {}) /\ (type = AnyType \/ IsMimeType(b, type[1], type[2]))
        BY <2>2, <2>6, <3>1, <3>2, <3>3
      <3> QED
        BY <3>4 DEF b
    <2> QED
      BY <2>4, <2>5, <2>6
  <1>2. n \in Node
    BY DEF FInv, ForestOf, Listed
  <1> HIDE DEF S
  <1>3. n \in S
    BY <1>1, <1>2, DownInduction
  <1> QED
    BY <1>3 DEF S

\* A list of different contents is as long as there are contents in it.
LEMMA CountList ==
    ASSUME NEW S, NEW s \in Seq(S), IsInjective(s)
    PROVE  Len(s) = Cardinality(Members(s))
  <1> DEFINE I == 1 .. Len(s)
             T == Members(s)
  <1>1. Len(s) \in Nat /\ DOMAIN s = I /\ s = [i \in I |-> s[i]]
    OBVIOUS
  <1>2. \A i \in I : s[i] \in T
    BY <1>1 DEF Members
  <1>3. \A c \in T : \E i \in I : s[i] = c
    BY <1>1 DEF Members
  <1>4. \A i, j \in I : s[i] = s[j] => i = j
    BY <1>1 DEF IsInjective
  <1>5. IsFiniteSet(I) /\ Cardinality(I) = Len(s)
    <2>1. /\ 1 \in Int /\ Len(s) \in Int
          /\ (IF 1 > Len(s) THEN 0 ELSE Len(s) - 1 + 1) = Len(s)
      BY <1>1
    <2> QED
      BY <2>1, FS_Interval
  <1> HIDE DEF I, T
  <1>6. s \in [I -> T]
    BY <1>1, <1>2
  <1>7. s \in Bijection(I, T)
    BY <1>3, <1>4, <1>6 DEF Bijection, Injection, Surjection, IsInjective
  <1>8. Cardinality(T) = Cardinality(I)
    BY <1>5, <1>7, FS_Bijection DEF ExistsBijection
  <1> QED
    BY <1>5, <1>8 DEF T

-----------------------------------------------------------------------------
(* What must hold.                                                         *)

LEMMA AttachmentsDoAgree ==
    ASSUME FInv, IsFiniteSet(Node)
    PROVE  AttachmentsAgree
  <1>0. PICK h, N : IsHeight(h, N)
    BY HeightExists
  <1> SUFFICES ASSUME NEW n \in nodes
               PROVE  LET list == Attachments(n)
                          all  == {m \in Reached(n, {"related"}) \ {n} : IsAttachment(m)}
                      IN  /\ Members(list) \subseteq all /\ Len(list) = Cardinality(Members(list))
                          /\ \A m \in all \ Members(list) :
                                \E p \in Tree(n) \ {m} : IsSubtype(p, "alternative") /\ m \in Tree(p)
                          /\ HasAttachment(n) <=> list # <<>> \/ IsAttachment(n)
                          /\ n \in Roots => TextContent(n) \notin Members(list)
    BY DEF AttachmentsAgree
  <1> DEFINE list == Attachments(n)
             R == Reached(n, {"related"})
             all == {m \in R \ {n} : IsAttachment(m)}
  <1>1. n \in Node /\ list \in Seq(Node) /\ Members(list) = all /\ IsInjective(list)
    <2>1. n \in Node
      BY DEF FInv, ForestOf, Listed
    <2> QED
      BY <1>0, <2>1, AttachmentsAre, AttachmentsIs
  <1>2. R \subseteq Tree(n) /\ n \in R
    <2>1. n \in R
      BY ReachedIs
    <2>2. R \subseteq Tree(n)
      BY DEF Reached
    <2> QED
      BY <2>1, <2>2
  <1>3. HasAttachment(n) <=> \E m \in R : IsAttachment(m)
    BY <1>0, HasAttachmentFinds, Zenon
  <1>4. Len(list) = Cardinality(Members(list))
    BY <1>1, CountList
  <1>5. list # <<>> <=> all # {}
    <2> HIDE DEF list, all
    <2>1. DOMAIN list = {} <=> list = <<>>
      BY <1>1
    <2>2. DOMAIN list = {} <=> Members(list) = {}
      BY DEF Members
    <2> QED
      BY <1>1, <2>1, <2>2
  <1>6. (\E m \in R : IsAttachment(m)) <=> all # {} \/ IsAttachment(n)
    <2> HIDE DEF R
    <2> QED
      BY <1>2
  <1>7. ASSUME n \in Roots, TextContent(n) \in all PROVE FALSE
    <2> DEFINE t == TextContent(n)
    <2>1. t \in Tree(n) \ {n} /\ IsAttachment(t)
      BY <1>2, <1>7
    <2>2. Null \notin Node /\ t # Null
      BY <2>1, TreeIsLeast, KindsAssumption DEF FInv, ForestOf, Listed
    <2>3. IsText(t) /\ TopLevel(t) = n
      BY <1>0, <1>7, <2>1, <2>2, TextInTree, TopOfTree
    <2>4. PICK p \in Tree(n) : t \in Members(kids[p])
      BY <2>1, BelowHasParent
    <2>5. Parent(t) # Null
      <3>1. p \in Node
        BY <2>4, TreeIsLeast DEF FInv, ForestOf, Listed
      <3> QED
        BY <2>2, <2>4, <3>1, ParentIs
    <2>6. IsMimeType(t, "message", "rfc822") \/ t # TextContent(TopLevel(t))
      BY <2>1, <2>5 DEF IsAttachment
    <2> QED
      BY <2>3, <2>6 DEF IsText, IsMimeType
  <1> HIDE DEF list, all, R
  <1>8. HasAttachment(n) <=> list # <<>> \/ IsAttachment(n)
    BY <1>3, <1>5, <1>6, Zenon
  <1> QED
    BY <1>1, <1>4, <1>7, <1>8 DEF list, all, R

\* Where mainBodyPart() finds a text, it is that of textContent() or in the
\* same multipart/alternative.
LEMMA TextsAgree ==
    ASSUME FInv, NEW h, NEW N, IsHeight(h, N), NEW n \in nodes, NEW type,
           MainBodyPart(n, type) # Null, IsText(MainBodyPart(n, type))
    PROVE  LET b == MainBodyPart(n, type)
           IN  \/ b = TextContent(n)
               \/ IsSubtype(Parent(b), "alternative") /\ TextContent(n) \in Tree(Parent(b))
  <1> DEFINE b(m) == MainBodyPart(m, type)
             Right(m) == \/ b(m) = TextContent(m)
                         \/ IsSubtype(Parent(b(m)), "alternative") /\ TextContent(m) \in Tree(Parent(b(m)))
             S == {m \in Node : m \in nodes /\ b(m) # Null /\ IsText(b(m)) => Right(m)}
  <1>0. Null \notin Node /\ nodes \subseteq Node
    BY KindsAssumption DEF FInv, ForestOf, Listed
  <1>1. ASSUME NEW m \in Node, Members(kids[m]) \subseteq S PROVE m \in S
    <2> SUFFICES ASSUME m \in nodes, b(m) # Null, IsText(b(m)) PROVE Right(m)
      OBVIOUS
    <2>1. /\ ~IsMultipart(m) => b(m) = m
          /\ IsMultipart(m) => /\ kids[m] # <<>>
                               /\ ~IsSubtype(m, "alternative") => b(m) = b(kids[m][1])
                               /\ IsSubtype(m, "alternative") => b(m) \in Members(kids[m])
      BY MainBodyIs
    <2> HIDE DEF b
    <2>2. CASE ~IsMultipart(m)
      BY <2>1, <2>2, TextIs
    <2>3. IsMultipart(m) => ~IsText(m)
      BY DEF IsMultipart, IsText
    <2>4. /\ DOMAIN kids[m] = 1 .. Len(kids[m]) /\ kids[m] \in Seq(nodes)
          /\ \A i \in DOMAIN kids[m] : i \in Nat /\ kids[m][i] \in Members(kids[m]) /\ kids[m][i] \in nodes
      BY KidsAre
    <2>5. CASE IsMultipart(m) /\ ~IsSubtype(m, "alternative")
      <3> DEFINE c == kids[m][1]
      <3>1. 1 \in DOMAIN kids[m] /\ \A i \in DOMAIN kids[m] : i # 1 => 1 < i
        BY <2>1, <2>4, <2>5
      <3>2. b(m) = b(c)
        BY <2>1, <2>5
      <3>3. c \in Members(kids[m]) /\ c \in nodes
        BY <2>4, <3>1
      <3> HIDE DEF c
      <3>4. Right(c)
        <4> HIDE DEF Right
        <4> QED
          BY <1>1, <3>2, <3>3
      <3>5. TextContent(c) # Null
        <4>1. CASE b(c) = TextContent(c)
          BY <3>2, <4>1
        <4>2. CASE b(c) # TextContent(c)
          <5> DEFINE p == Parent(b(c))
          <5>1. TextContent(c) \in Tree(p)
            BY <3>4, <4>2
          <5> HIDE DEF p
          <5>2. Tree(p) \subseteq nodes
            BY DEF Tree
          <5> QED
            BY <1>0, <5>1, <5>2
        <4> QED
          BY <4>1, <4>2
      <3>6. TextContent(m) = TextContent(c)
        <4>1. \/ \A i \in DOMAIN kids[m] : TextContent(kids[m][i]) = Null
              \/ \E i \in DOMAIN kids[m] :
                    /\ TextContent(m) = TextContent(kids[m][i])
                    /\ \A j \in DOMAIN kids[m] : j < i => TextContent(kids[m][j]) = Null
          BY <2>3, <2>5, TextIs
        <4> QED
          BY <3>1, <3>5, <4>1 DEF c
      <3> QED
        BY <3>2, <3>4, <3>6
    <2>6. CASE IsMultipart(m) /\ IsSubtype(m, "alternative")
      <3> DEFINE t == b(m)
      <3>1. t \in Members(kids[m]) /\ IsText(t)
        BY <2>1, <2>6
      <3> HIDE DEF t
      <3>2. Parent(t) = m /\ t \in Node
        BY <3>1, ParentIs, KidsAre
      <3>3. TextContent(t) = t
        BY <3>1, <3>2, TextIs
      <3>4. \E i \in DOMAIN kids[m] : TextContent(kids[m][i]) # Null
        <4>1. PICK i \in DOMAIN kids[m] : kids[m][i] = t
          BY <3>1 DEF Members
        <4> QED
          BY <1>0, <3>2, <3>3, <4>1
      <3>5. TextContent(m) # Null
        BY <2>3, <2>6, <3>4, TextIs
      <3>6. TextContent(m) \in Tree(m)
        BY <3>5, TextInTree
      <3> QED
        BY <2>6, <3>2, <3>6 DEF t
    <2> QED
      BY <2>2, <2>5, <2>6
  <1>2. n \in Node
    BY <1>0
  <1> HIDE DEF S
  <1>3. n \in S
    BY <1>1, <1>2, DownInduction
  <1> QED
    BY <1>3 DEF S

LEMMA BodyDoesAgree ==
    ASSUME FInv, IsFiniteSet(Node)
    PROVE  BodyAgrees
  <1>0. PICK h, N : IsHeight(h, N)
    BY HeightExists
  <1> SUFFICES ASSUME NEW m \in Roots \cup messages
               PROVE  LET own == Reached(m, {})
                          text == TextContent(m)
                          Own(types) == \E c \in own : \E type \in types : IsSubtype(c, type[2])
                      IN  /\ \A type \in {AnyType, <<"text", "plain">>, <<"text", "calendar">>} :
                                LET b == MainBodyPart(m, type)
                                IN  b # Null /\ IsText(b) =>
                                      \/ b = text
                                      \/ IsSubtype(Parent(b), "alternative") /\ text \in Tree(Parent(b))
                          /\ HasInvitation(m) <=> \E c \in own : IsInvitation(c)
                          /\ IsSigned(m) => Own(Signatures)
                          /\ IsEncrypted(m) => Own(Encryptions)
    BY DEF BodyAgrees
  <1>1. m \in nodes
    BY DEF FInv, ForestOf, Listed, Roots
  <1> DEFINE own == Reached(m, {})
             Own(types) == \E c \in own : \E type \in types : IsSubtype(c, type[2])
  <1>2. \A type : LET b == MainBodyPart(m, type)
                  IN  b # Null /\ IsText(b) =>
                        \/ b = TextContent(m)
                        \/ IsSubtype(Parent(b), "alternative") /\ TextContent(m) \in Tree(Parent(b))
    BY <1>0, <1>1, TextsAgree
  <1>3. HasInvitation(m) <=> \E c \in own : IsInvitation(c)
    BY <1>0, <1>1, HasInvitationFinds, Zenon
  <1>4. ASSUME NEW types, AnyType \notin types, IsOneOf(m, types) PROVE Own(types)
    <2>1. PICK type \in types : IsSubtype(m, type[2]) \/ MainBodyPart(m, type) # Null
      BY <1>4 DEF IsOneOf
    <2>2. CASE IsSubtype(m, type[2])
      <3>1. m \in own
        BY <1>1, ReachedIs
      <3> QED
        BY <2>2, <3>1
    <2>3. CASE MainBodyPart(m, type) # Null
      <3> DEFINE b == MainBodyPart(m, type)
      <3>1. b \in own /\ (type = AnyType \/ IsMimeType(b, type[1], type[2]))
        BY <1>0, <1>1, <2>3, MainBodyFinds
      <3>2. IsSubtype(b, type[2])
        BY <1>4, <3>1 DEF IsMimeType, IsSubtype
      <3> HIDE DEF b
      <3> QED
        BY <3>1, <3>2
    <2> QED
      BY <2>1, <2>2, <2>3
  <1>5. AnyType \notin Signatures /\ AnyType \notin Encryptions
    BY DEF AnyType, Signatures, Encryptions
  <1> HIDE DEF Own
  <1>6. (IsSigned(m) => Own(Signatures)) /\ (IsEncrypted(m) => Own(Encryptions))
    BY <1>4, <1>5 DEF IsSigned, IsEncrypted
  <1> QED
    BY <1>2, <1>3, <1>6 DEF Own

-----------------------------------------------------------------------------
(* The trees stay trees.                                                   *)

LEMMA TreeStep == Next => FNext
  BY DEF Next, FNext, Begin, AddPart, AddMessage, RemovePart

LEMMA TreesAlways == Spec => []FInv
  <1>1. Init => FInv
    BY FInitInv DEF Init
  <1>2. FInv /\ [Next]_vars => FInv'
    <2>1. [Next]_vars => [FNext]_forest
      BY TreeStep DEF vars
    <2> QED
      BY <2>1, FNextInv
  <1> QED
    BY <1>1, <1>2, PTL DEF Spec

\* Whatever trees are made of contents of whatever kinds: attachments() lists
\* what isAttachment() says, once each, only outside multipart/related and
\* encapsulated messages, and all of that outside multipart/alternative;
\* hasAttachment() says whether there is any, and the text of a message is not
\* among them.
THEOREM AttachmentsAlwaysAgree ==
    ASSUME IsFiniteSet(Node)
    PROVE  Spec => []AttachmentsAgree
  <1>1. FInv => AttachmentsAgree
    BY AttachmentsDoAgree
  <1> QED
    BY <1>1, TreesAlways, PTL

\* mainBodyPart() and textContent() agree, and a message is an invitation,
\* signed or encrypted by what is in it, not in a message it forwards.
THEOREM BodyAlwaysAgrees ==
    ASSUME IsFiniteSet(Node)
    PROVE  Spec => []BodyAgrees
  <1>1. FInv => BodyAgrees
    BY BodyDoesAgree
  <1> QED
    BY <1>1, TreesAlways, PTL

-----------------------------------------------------------------------------
(* Lists that an attachment is taken out of.                               *)

\* What is left of a list, by positions.
LEMMA WithoutIs ==
    ASSUME NEW S, NEW s \in Seq(S), NEW c
    PROVE  LET w == Without(s, c)
           IN  /\ c \notin Members(s) => w = s
               /\ c \in Members(s) =>
                     \E k \in 1 .. Len(s) :
                        /\ s[k] = c /\ w \in Seq(S) /\ Len(w) = Len(s) - 1
                        /\ \A i \in 1 .. Len(w) : w[i] = IF i < k THEN s[i] ELSE s[i + 1]
  <1>1. CASE c \notin Members(s)
    BY <1>1 DEF Without
  <1>2. CASE c \in Members(s)
    <2> DEFINE k == CHOOSE j \in DOMAIN s : s[j] = c
               w == Without(s, c)
    <2>1. k \in 1 .. Len(s) /\ s[k] = c /\ Len(s) \in Nat
      <3>1. \E j \in DOMAIN s : s[j] = c
        BY <1>2, InList
      <3> QED
        BY <3>1
    <2>2. w = [i \in 1 .. Len(s) - 1 |-> IF i < k THEN s[i] ELSE s[i + 1]]
      BY <1>2 DEF Without
    <2> HIDE DEF k
    <2>3. /\ w \in Seq(S) /\ Len(w) = Len(s) - 1
          /\ \A i \in 1 .. Len(w) : w[i] = IF i < k THEN s[i] ELSE s[i + 1]
      BY <2>1, <2>2
    <2> HIDE DEF w
    <2> QED
      BY <1>2, <2>1, <2>3 DEF w
  <1> QED
    BY <1>1, <1>2

LEMMA AppendedIs ==
    ASSUME NEW S, NEW s \in Seq(S), NEW t \in Seq(S)
    PROVE  /\ s \o t \in Seq(S) /\ Len(s \o t) = Len(s) + Len(t)
           /\ \A i \in 1 .. Len(s) + Len(t) : (s \o t)[i] = IF i <= Len(s) THEN s[i] ELSE t[i - Len(s)]
  OBVIOUS

LEMMA SameList ==
    ASSUME NEW S, NEW s \in Seq(S), NEW t \in Seq(S), Len(s) = Len(t),
           \A i \in 1 .. Len(s) : s[i] = t[i]
    PROVE  s = t
  OBVIOUS

\* Taken out of two lists, one appended to the other.
LEMMA WithoutAppended ==
    ASSUME NEW S, NEW s \in Seq(S), NEW t \in Seq(S), NEW c,
           IsInjective(s), IsInjective(t), Members(s) \cap Members(t) = {}
    PROVE  Without(s \o t, c) = Without(s, c) \o Without(t, c)
  <1> DEFINE u == s \o t
             w == Without(u, c)
  <1>1. u \in Seq(S) /\ IsInjective(u) /\ Members(u) = Members(s) \cup Members(t)
    BY Appended
  <1>2. /\ Len(s) \in Nat /\ Len(t) \in Nat /\ Len(u) = Len(s) + Len(t)
        /\ DOMAIN u = 1 .. Len(u)
        /\ \A i \in 1 .. Len(u) : u[i] = IF i <= Len(s) THEN s[i] ELSE t[i - Len(s)]
    OBVIOUS
  <1> HIDE DEF u
  <1>3. CASE c \notin Members(u)
    <2>1. w = u /\ Without(s, c) = s /\ Without(t, c) = t
      BY <1>1, <1>3, WithoutIs
    <2> QED
      BY <2>1 DEF u
  <1>4. CASE c \in Members(u)
    <2>1. PICK k \in 1 .. Len(u) : /\ u[k] = c /\ w \in Seq(S) /\ Len(w) = Len(u) - 1
                                   /\ \A i \in 1 .. Len(w) : w[i] = IF i < k THEN u[i] ELSE u[i + 1]
      BY <1>1, <1>4, WithoutIs
    <2>2. \A i \in 1 .. Len(u) : u[i] = c => i = k
      BY <1>1, <1>2, <2>1 DEF IsInjective
    <2> HIDE DEF w
    <2>3. CASE c \in Members(s)
      <3> DEFINE x == Without(s, c)
      <3>1. PICK j \in 1 .. Len(s) : /\ s[j] = c /\ x \in Seq(S) /\ Len(x) = Len(s) - 1
                                     /\ \A i \in 1 .. Len(x) : x[i] = IF i < j THEN s[i] ELSE s[i + 1]
        BY <2>3, WithoutIs
      <3>2. Without(t, c) = t
        BY <2>3, WithoutIs
      <3>3. j = k
        <4>1. j \in 1 .. Len(u) /\ u[j] = s[j]
          BY <1>2
        <4> QED
          BY <2>2, <3>1, <4>1
      <3> HIDE DEF x
      <3> DEFINE y == x \o t
      <3>4. y \in Seq(S) /\ Len(y) = Len(w)
            /\ \A i \in 1 .. Len(w) : y[i] = IF i <= Len(x) THEN x[i] ELSE t[i - Len(x)]
        <4>1. /\ y \in Seq(S) /\ Len(y) = Len(x) + Len(t)
              /\ \A i \in 1 .. Len(x) + Len(t) : y[i] = IF i <= Len(x) THEN x[i] ELSE t[i - Len(x)]
          BY <3>1, AppendedIs
        <4>2. Len(x) + Len(t) = Len(w)
          BY <1>2, <2>1, <3>1
        <4> HIDE DEF y
        <4> QED
          BY <4>1, <4>2
      <3> HIDE DEF y
      <3>5. ASSUME NEW i \in 1 .. Len(w) PROVE w[i] = y[i]
        <4>1. CASE i < k
          <5>1. i \in 1 .. Len(u) /\ i <= Len(s) /\ i <= Len(x) /\ i \in 1 .. Len(x)
            BY <1>2, <2>1, <3>1, <3>3, <4>1
          <5> QED
            BY <1>2, <2>1, <3>1, <3>3, <3>4, <4>1, <5>1
        <4>2. CASE ~(i < k) /\ i <= Len(x)
          <5>1. i + 1 \in 1 .. Len(u) /\ i + 1 <= Len(s) /\ i \in 1 .. Len(x)
            BY <1>2, <2>1, <3>1, <4>2
          <5> QED
            BY <1>2, <2>1, <3>1, <3>3, <3>4, <4>2, <5>1
        <4>3. CASE ~(i < k) /\ ~(i <= Len(x))
          <5>1. i + 1 \in 1 .. Len(u) /\ ~(i + 1 <= Len(s)) /\ (i + 1) - Len(s) = i - Len(x)
            BY <1>2, <2>1, <3>1, <4>3
          <5> QED
            BY <1>2, <2>1, <3>4, <4>3, <5>1
        <4> QED
          BY <4>1, <4>2, <4>3
      <3>6. w = y
        BY <2>1, <3>4, <3>5, SameList
      <3> QED
        BY <3>2, <3>6 DEF w, u, x, y
    <2>4. CASE c \in Members(t) /\ c \notin Members(s)
      <3> DEFINE x == Without(t, c)
      <3>1. PICK j \in 1 .. Len(t) : /\ t[j] = c /\ x \in Seq(S) /\ Len(x) = Len(t) - 1
                                     /\ \A i \in 1 .. Len(x) : x[i] = IF i < j THEN t[i] ELSE t[i + 1]
        BY <2>4, WithoutIs
      <3>2. Without(s, c) = s
        BY <2>4, WithoutIs
      <3>3. j + Len(s) = k
        <4>1. j + Len(s) \in 1 .. Len(u) /\ ~(j + Len(s) <= Len(s)) /\ (j + Len(s)) - Len(s) = j
          BY <1>2
        <4>2. u[j + Len(s)] = t[j]
          BY <1>2, <4>1
        <4> QED
          BY <2>2, <3>1, <4>1, <4>2
      <3> HIDE DEF x
      <3> DEFINE y == s \o x
      <3>4. y \in Seq(S) /\ Len(y) = Len(w)
            /\ \A i \in 1 .. Len(w) : y[i] = IF i <= Len(s) THEN s[i] ELSE x[i - Len(s)]
        <4>1. /\ y \in Seq(S) /\ Len(y) = Len(s) + Len(x)
              /\ \A i \in 1 .. Len(s) + Len(x) : y[i] = IF i <= Len(s) THEN s[i] ELSE x[i - Len(s)]
          BY <3>1, AppendedIs
        <4>2. Len(s) + Len(x) = Len(w)
          BY <1>2, <2>1, <3>1
        <4> HIDE DEF y
        <4> QED
          BY <4>1, <4>2
      <3> HIDE DEF y
      <3>5. ASSUME NEW i \in 1 .. Len(w) PROVE w[i] = y[i]
        <4>1. CASE i <= Len(s)
          <5>1. i \in 1 .. Len(u) /\ i < k
            BY <1>2, <2>1, <3>1, <3>3, <4>1
          <5> QED
            BY <1>2, <2>1, <3>4, <4>1, <5>1
        <4>2. CASE ~(i <= Len(s)) /\ i < k
          <5>1. i \in 1 .. Len(u) /\ i - Len(s) \in 1 .. Len(x) /\ i - Len(s) < j
            BY <1>2, <2>1, <3>1, <3>3, <4>2
          <5>2. w[i] = t[i - Len(s)]
            BY <1>2, <2>1, <4>2, <5>1
          <5>3. y[i] = t[i - Len(s)]
            BY <3>1, <3>4, <4>2, <5>1
          <5> QED
            BY <5>2, <5>3
        <4>3. CASE ~(i <= Len(s)) /\ ~(i < k)
          <5>1. /\ i + 1 \in 1 .. Len(u) /\ ~(i + 1 <= Len(s)) /\ (i + 1) - Len(s) = (i - Len(s)) + 1
                /\ i - Len(s) \in 1 .. Len(x) /\ ~(i - Len(s) < j)
            BY <1>2, <2>1, <3>1, <3>3, <4>3
          <5>2. w[i] = t[(i - Len(s)) + 1]
            BY <1>2, <2>1, <4>3, <5>1
          <5>3. y[i] = t[(i - Len(s)) + 1]
            BY <3>1, <3>4, <4>3, <5>1
          <5> QED
            BY <5>2, <5>3
        <4> QED
          BY <4>1, <4>2, <4>3
      <3>6. w = y
        BY <2>1, <3>4, <3>5, SameList
      <3> QED
        BY <3>2, <3>6 DEF w, u, x, y
    <2> QED
      BY <1>1, <1>4, <2>3, <2>4
  <1> QED
    BY <1>3, <1>4 DEF u

\* Taken out of the list of lists, where it is once at most.
LEMMA FlatWithout ==
    ASSUME NEW S, NEW p \in Seq(Seq(S)), NEW q \in Seq(Seq(S)), NEW c, Apart(p),
           Len(q) = Len(p), \A i \in 1 .. Len(p) : q[i] = Without(p[i], c)
    PROVE  FlattenSeq(q) = Without(FlattenSeq(p), c)
  <1> DEFINE L == Len(p)
  <1>1. PICK F \in [0 .. L -> Seq(S)] :
              /\ Appends(F, p)
              /\ \A k \in 0 .. L : /\ Members(F[k]) = UNION {Members(p[i]) : i \in 1 .. k}
                                   /\ Apart(p) => IsInjective(F[k])
    BY FlatPrefixes
  <1>2. PICK G \in [0 .. Len(q) -> Seq(S)] : Appends(G, q)
    <2>1. \E G \in [0 .. Len(q) -> Seq(S)] :
              /\ Appends(G, q)
              /\ \A k \in 0 .. Len(q) : /\ Members(G[k]) = UNION {Members(q[i]) : i \in 1 .. k}
                                        /\ Apart(q) => IsInjective(G[k])
      BY FlatPrefixes
    <2> QED
      BY <2>1
  <1>3. /\ L \in Nat /\ DOMAIN p = 1 .. L /\ Len(q) = L
        /\ \A k \in 1 .. L : p[k] \in Seq(S) /\ q[k] = Without(p[k], c)
    OBVIOUS
  <1> HIDE DEF L
  <1>4. /\ F[0] = <<>> /\ G[0] = <<>> /\ F[L] = FlattenSeq(p) /\ G[L] = FlattenSeq(q)
        /\ \A k \in 1 .. L : F[k] = F[k - 1] \o p[k] /\ G[k] = G[k - 1] \o q[k]
    BY <1>1, <1>2, <1>3 DEF Appends, L
  <1> DEFINE T == {k \in Nat : k \in 0 .. L => G[k] = Without(F[k], c)}
  <1>5. 0 \in T
    <2>1. Without(<<>>, c) = <<>>
      BY DEF Without, Members
    <2> QED
      BY <1>4, <2>1
  <1>6. ASSUME NEW k \in T PROVE k + 1 \in T
    <2>0. k \in Nat /\ (k \in 0 .. L => G[k] = Without(F[k], c))
      OBVIOUS
    <2> SUFFICES ASSUME k + 1 \in 0 .. L PROVE G[k + 1] = Without(F[k + 1], c)
      BY <2>0
    <2> DEFINE n == k + 1
    <2>1. k \in 0 .. L /\ n \in 1 .. L /\ n - 1 = k
      <3>1. k \in Nat /\ L \in Nat /\ k + 1 \in 0 .. L
        BY <1>3, <2>0
      <3> HIDE DEF T
      <3> QED
        BY <3>1
    <2>2. \A i \in 1 .. k : i \in 1 .. L /\ i # n
      BY <1>3, <2>1
    <2> HIDE DEF n, T
    <2>3. F[n] = F[k] \o p[n] /\ G[n] = G[k] \o q[n] /\ F[k] \in Seq(S) /\ p[n] \in Seq(S)
      BY <1>1, <1>3, <1>4, <2>1
    <2>4. IsInjective(F[k]) /\ IsInjective(p[n])
      BY <1>1, <1>3, <2>1 DEF Apart
    <2>5. Members(F[k]) \cap Members(p[n]) = {}
      <3>1. \A i \in 1 .. k : Members(p[i]) \cap Members(p[n]) = {}
        <4>1. \A i, j \in DOMAIN p : i # j => Members(p[i]) \cap Members(p[j]) = {}
          BY DEF Apart
        <4>2. n \in DOMAIN p /\ \A i \in 1 .. k : i \in DOMAIN p /\ i # n
          BY <1>3, <2>1, <2>2
        <4> QED
          BY <4>1, <4>2
      <3>2. Members(F[k]) = UNION {Members(p[i]) : i \in 1 .. k}
        BY <1>1, <2>1
      <3> QED
        BY <3>1, <3>2
    <2>6. Without(F[n], c) = Without(F[k], c) \o Without(p[n], c)
      BY <2>3, <2>4, <2>5, WithoutAppended, SMTT(30)
    <2>7. q[n] = Without(p[n], c) /\ G[k] = Without(F[k], c)
      BY <1>3, <2>0, <2>1
    <2> QED
      BY <2>3, <2>6, <2>7 DEF n
  <1>7. T = Nat
    <2>1. T \in SUBSET Nat
      OBVIOUS
    <2> HIDE DEF T
    <2> QED
      BY <1>5, <1>6, <2>1, SetInduction
  <1>8. L \in T /\ L \in 0 .. L
    <2> HIDE DEF T
    <2> QED
      BY <1>3, <1>7
  <1> QED
    BY <1>4, <1>8

\* An empty list among the lists makes no difference.
LEMMA FlatDrop ==
    ASSUME NEW S, NEW q \in Seq(Seq(S)), NEW d \in Seq(Seq(S)), NEW j \in 1 .. Len(q), q[j] = <<>>,
           Len(d) = Len(q) - 1, \A i \in 1 .. Len(d) : d[i] = IF i < j THEN q[i] ELSE q[i + 1]
    PROVE  FlattenSeq(d) = FlattenSeq(q)
  <1> DEFINE L == Len(d)
  <1>1. PICK F \in [0 .. Len(d) -> Seq(S)] : Appends(F, d)
    <2>1. \E F \in [0 .. Len(d) -> Seq(S)] :
              /\ Appends(F, d)
              /\ \A k \in 0 .. Len(d) : /\ Members(F[k]) = UNION {Members(d[i]) : i \in 1 .. k}
                                        /\ Apart(d) => IsInjective(F[k])
      BY FlatPrefixes
    <2> QED
      BY <2>1
  <1>2. PICK G \in [0 .. Len(q) -> Seq(S)] : Appends(G, q)
    <2>1. \E G \in [0 .. Len(q) -> Seq(S)] :
              /\ Appends(G, q)
              /\ \A k \in 0 .. Len(q) : /\ Members(G[k]) = UNION {Members(q[i]) : i \in 1 .. k}
                                        /\ Apart(q) => IsInjective(G[k])
      BY FlatPrefixes
    <2> QED
      BY <2>1
  <1>3. L \in Nat /\ Len(q) \in Nat /\ Len(q) = L + 1 /\ j \in Nat /\ 1 <= j /\ j <= L + 1
        /\ \A i \in 1 .. L : d[i] = IF i < j THEN q[i] ELSE q[i + 1]
    BY SMTT(30)
  <1> HIDE DEF L
  <1>4. /\ F[0] = <<>> /\ G[0] = <<>> /\ F[L] = FlattenSeq(d) /\ G[L + 1] = FlattenSeq(q)
        /\ \A k \in 1 .. L : F[k] = F[k - 1] \o d[k]
        /\ \A k \in 1 .. L + 1 : G[k] = G[k - 1] \o q[k]
        /\ \A k \in 0 .. L + 1 : G[k] \in Seq(S)
    BY <1>1, <1>2, <1>3 DEF Appends, L
  <1>5. G[j] = G[j - 1]
    <2>1. j \in 1 .. L + 1 /\ j - 1 \in 0 .. L + 1
      BY <1>3
    <2>2. G[j] = G[j - 1] \o <<>> /\ G[j - 1] \in Seq(S)
      BY <1>4, <2>1
    <2> QED
      BY <2>2
  <1> DEFINE T == {k \in Nat : k \in 0 .. L => F[k] = IF k < j THEN G[k] ELSE G[k + 1]}
  <1>6. 0 \in T
    BY <1>3, <1>4
  <1>7. ASSUME NEW k \in T PROVE k + 1 \in T
    <2>0. k \in Nat /\ (k \in 0 .. L => F[k] = IF k < j THEN G[k] ELSE G[k + 1])
      OBVIOUS
    <2> DEFINE n == k + 1
    <2> SUFFICES ASSUME n \in 0 .. L PROVE F[n] = IF n < j THEN G[n] ELSE G[n + 1]
      BY <2>0
    <2>1. k \in 0 .. L /\ n \in 1 .. L /\ n \in 1 .. L + 1 /\ n + 1 \in 1 .. L + 1 /\ n - 1 = k /\ (n + 1) - 1 = n
      <3>1. k \in Nat /\ L \in Nat /\ k + 1 \in 0 .. L
        BY <1>3, <2>0
      <3> HIDE DEF T
      <3> QED
        BY <3>1
    <2> HIDE DEF T
    <2>2. F[n] = F[k] \o d[n] /\ G[n] = G[k] \o q[n] /\ G[n + 1] = G[n] \o q[n + 1]
      BY <1>4, <2>1
    <2>3. CASE n < j
      <3>1. k < j
        BY <1>3, <2>0, <2>3
      <3> HIDE DEF n
      <3>2. F[k] = G[k] /\ d[n] = q[n]
        BY <1>3, <2>0, <2>1, <2>3, <3>1
      <3> QED
        BY <2>2, <2>3, <3>2
    <2>4. CASE n = j
      <3>1. k < j /\ k = j - 1 /\ ~(n < j)
        BY <1>3, <2>0, <2>4
      <3> HIDE DEF n
      <3>2. F[k] = G[k] /\ d[n] = q[n + 1] /\ G[n] = G[k]
        BY <1>3, <1>5, <2>0, <2>1, <2>4, <3>1
      <3> QED
        BY <2>2, <3>1, <3>2
    <2>5. CASE j < n
      <3>1. ~(k < j) /\ ~(n < j)
        BY <1>3, <2>0, <2>5
      <3>2. F[k] = G[n]
        BY <2>0, <2>1, <3>1
      <3> HIDE DEF n
      <3>3. d[n] = q[n + 1]
        BY <1>3, <2>1, <3>1
      <3> QED
        BY <2>2, <3>1, <3>2, <3>3
    <2>6. n < j \/ n = j \/ j < n
      BY <1>3, <2>0
    <2> QED
      BY <2>3, <2>4, <2>5, <2>6
  <1>8. T = Nat
    <2>1. T \in SUBSET Nat
      OBVIOUS
    <2> HIDE DEF T
    <2> QED
      BY <1>6, <1>7, <2>1, SetInduction
  <1>9. L \in T /\ L \in 0 .. L
    <2> HIDE DEF T
    <2> QED
      BY <1>3, <1>8
  <1>10. F[L] = IF L < j THEN G[L] ELSE G[L + 1]
    BY <1>9
  <1>11. L < j => j - 1 = L /\ j = L + 1
    BY <1>3
  <1> HIDE DEF T
  <1> QED
    BY <1>4, <1>5, <1>10, <1>11

-----------------------------------------------------------------------------
(* What is said above, of the state before a step and of the state after   *)
(* it.                                                                     *)

Texts == [n \in Node |-> TextContent(n)]
Lists == [n \in Node |-> Attachments(n)]
Attached == {n \in Node : IsAttachment(n)}

TextRule(n) ==
    /\ IsText(n) => Texts[n] = n
    /\ ~IsText(n) =>
          \/ Texts[n] = Null /\ \A i \in DOMAIN kids[n] : Texts[kids[n][i]] = Null
          \/ \E i \in DOMAIN kids[n] :
                /\ Texts[kids[n][i]] # Null /\ Texts[n] = Texts[kids[n][i]]
                /\ \A j \in DOMAIN kids[n] : j < i => Texts[kids[n][j]] = Null

Pieces(n) == [i \in DOMAIN kids[n] |->
                 IF kids[n][i] \in Attached THEN <<kids[n][i]>> ELSE Lists[kids[n][i]]]

ListRule(n) ==
    /\ Pieces(n) \in Seq(Seq(Node)) /\ DOMAIN Pieces(n) = DOMAIN kids[n]
    /\ Lists[n] = IF IsMultipart(n) /\ ~IsSubtype(n, "related")
                  THEN FlattenSeq(Pieces(n)) ELSE <<>>

Rules ==
    /\ \A n \in Node : TextRule(n)
    /\ \A n \in Node : ListRule(n)
    /\ \A n \in Roots : \A m \in Tree(n) : TopLevel(m) = n
    /\ \A p \in Node : \A c \in Members(kids[p]) : Parent(c) = p
    /\ \A c \in Node : Parent(c) = Null <=> ParentsOf(c) = {}
    /\ \A n \in nodes : n \in Tree(n) /\ Closed(Tree(n), kids)

LEMMA RulesHold == FInv /\ IsFiniteSet(Node) => Rules
  <1> SUFFICES ASSUME FInv, IsFiniteSet(Node) PROVE Rules
    OBVIOUS
  <1>0. PICK h, N : IsHeight(h, N)
    BY HeightExists
  <1>1. ASSUME NEW n \in Node PROVE TextRule(n)
    <2>1. \A k \in Node : Texts[k] = TextContent(k)
      BY DEF Texts
    <2>2. \A i \in DOMAIN kids[n] : kids[n][i] \in Node
      BY KidsAre
    <2>3. /\ IsText(n) => TextContent(n) = n
          /\ ~IsText(n) =>
                \/ /\ TextContent(n) = Null
                   /\ \A i \in DOMAIN kids[n] : TextContent(kids[n][i]) = Null
                \/ \E i \in DOMAIN kids[n] :
                      /\ TextContent(kids[n][i]) # Null
                      /\ TextContent(n) = TextContent(kids[n][i])
                      /\ \A j \in DOMAIN kids[n] : j < i => TextContent(kids[n][j]) = Null
      BY <1>0, TextIs
    <2> QED
      BY <2>1, <2>2, <2>3 DEF TextRule
  <1>2. ASSUME NEW n \in Node PROVE ListRule(n)
    <2> DEFINE p == [i \in DOMAIN kids[n] |->
                        IF IsAttachment(kids[n][i]) THEN <<kids[n][i]>> ELSE Attachments(kids[n][i])]
    <2>1. /\ p \in Seq(Seq(Node)) /\ DOMAIN p = DOMAIN kids[n]
          /\ Attachments(n) = IF IsMultipart(n) /\ ~IsSubtype(n, "related")
                              THEN FlattenSeq(p) ELSE <<>>
      BY <1>0, AttachmentsIs
    <2>2. \A i \in DOMAIN kids[n] : kids[n][i] \in Node
      BY KidsAre
    <2>3. \A k \in Node : Lists[k] = Attachments(k) /\ (k \in Attached <=> IsAttachment(k))
      BY DEF Lists, Attached
    <2>4. p = Pieces(n)
      BY <2>2, <2>3 DEF Pieces
    <2> HIDE DEF p
    <2> QED
      BY <2>1, <2>3, <2>4 DEF ListRule
  <1>3. \A n \in Roots : \A m \in Tree(n) : TopLevel(m) = n
    BY <1>0, TopOfTree
  <1>4. \A p \in Node : \A c \in Members(kids[p]) : Parent(c) = p
    BY ParentIs
  <1>5. \A c \in Node : Parent(c) = Null <=> ParentsOf(c) = {}
    BY ParentType
  <1>6. \A n \in nodes : n \in Tree(n) /\ Closed(Tree(n), kids)
    BY TreeIsLeast
  <1> QED
    BY <1>1, <1>2, <1>3, <1>4, <1>5, <1>6 DEF Rules

LEMMA RulesHoldAfter == FInv' /\ IsFiniteSet(Node) => Rules'
  <1>1. (FInv /\ IsFiniteSet(Node) => Rules)'
    BY RulesHold, PTL
  <1> QED
    BY <1>1

-----------------------------------------------------------------------------
(* A part is removed.                                                      *)

\* What is not in its tree stays as it is.
LEMMA Removed ==
    ASSUME FInv, NEW c \in nodes, RemovePart(c)
    PROVE  /\ \A n \in nodes \ Tree(c) : /\ n \in nodes' /\ kind'[n] = kind[n]
                                         /\ kids'[n] = Without(kids[n], c)
           /\ \A n \in Node : Members(kids'[n]) \subseteq Members(kids[n])
  <1>0. nodes \subseteq Node /\ Tree(c) \subseteq nodes
    BY TreeIsLeast DEF FInv, ForestOf, Listed
  <1>1. /\ \A n \in Node : Pruned(c)[n] = Without(kids[n], c)
        /\ \A n \in Node : Members(Pruned(c)[n]) \subseteq Members(kids[n])
    BY PrunedShrinks DEF Pruned
  <1>2. \A n \in Node : n \in nodes' => kind'[n] = kind[n]
    BY DEF RemovePart, KeepKinds
  <1>3. CASE TakeOut(c)
    <2>1. nodes' = nodes /\ kids' = Pruned(c)
      BY <1>3 DEF TakeOut
    <2> QED
      BY <1>0, <1>1, <1>2, <2>1
  <1>4. CASE Delete(c)
    <2>1. \A n \in nodes \ Tree(c) : n \in nodes'
      BY <1>4 DEF Delete, Discard
    <2>2. \A n \in Node : kids'[n] = IF n \in nodes' THEN Pruned(c)[n] ELSE <<>>
      BY <1>4 DEF Delete
    <2>3. Members(<<>>) = {}
      BY DEF Members
    <2>4. \A n \in nodes \ Tree(c) : kids'[n] = Without(kids[n], c)
      BY <1>0, <1>1, <2>1, <2>2
    <2>5. \A n \in Node : Members(kids'[n]) \subseteq Members(kids[n])
      BY <1>1, <2>2, <2>3
    <2> QED
      BY <1>0, <1>2, <2>1, <2>4, <2>5
  <1> QED
    BY <1>3, <1>4 DEF RemovePart

\* Every content is in the tree of a root.
LEMMA HasRoot ==
    ASSUME FInv, IsFiniteSet(Node), NEW c \in nodes
    PROVE  \E r \in Roots : c \in Tree(r)
  <1>0. PICK h, N : IsHeight(h, N)
    BY HeightExists
  <1>1. /\ N \in Nat /\ h \in [Node -> 0 .. N] /\ nodes \subseteq Node
        /\ \A n \in Node : \A k \in Members(kids[n]) : h[k] < h[n]
    BY <1>0 DEF IsHeight, FInv, ForestOf, Listed
  <1> DEFINE A == {a \in nodes : c \in Tree(a)}
             T == {N - h[a] : a \in A}
  <1>2. c \in A
    BY TreeIsLeast
  <1>3. \A a \in nodes : h[a] \in Nat /\ N - h[a] \in Nat
    BY <1>1
  <1>4. T \in SUBSET Nat /\ T # {}
    BY <1>2, <1>3
  <1> HIDE DEF T
  <1>5. PICK x \in T : \A y \in T : x <= y
    BY <1>4, LeastNat
  <1>6. PICK a \in A : x = N - h[a]
    BY <1>5 DEF T
  <1>7. \A b \in A : ~(h[a] < h[b])
    <2> SUFFICES ASSUME NEW b \in A PROVE ~(h[a] < h[b])
      OBVIOUS
    <2>1. N - h[a] <= N - h[b]
      BY <1>5, <1>6 DEF T
    <2> HIDE DEF A
    <2>2. h[a] \in Nat /\ h[b] \in Nat
      BY <1>3 DEF A
    <2> QED
      BY <1>1, <2>1, <2>2
  <1>8. ParentsOf(a) = {}
    <2> SUFFICES ASSUME NEW p \in nodes, a \in Members(kids[p]) PROVE FALSE
      BY DEF ParentsOf
    <2>1. Tree(a) \subseteq Tree(p)
      BY TreeIs
    <2>2. p \in A /\ h[a] < h[p]
      BY <1>1, <2>1
    <2> QED
      BY <1>7, <2>2
  <1> QED
    BY <1>8 DEF Roots

\* Its root stays one, with what is not in the tree of the part.
LEMMA Outside ==
    ASSUME FInv, FInv', IsFiniteSet(Node), NEW c \in nodes, RemovePart(c),
           NEW r \in Roots, c \in Tree(r), r # c
    PROVE  /\ r \in Tree(r) \ Tree(c)
           /\ \A m \in Tree(r) \ Tree(c) :
                 /\ m \in nodes /\ m \in Node /\ TopLevel(m) = r /\ TopLevel(m)' = r
                 /\ Parent(m) = Null <=> Parent(m)' = Null
                 /\ \A k \in Members(kids[m]) : k = c \/ k \in Tree(r) \ Tree(c)
  <1>0. /\ nodes \subseteq Node /\ nodes' \subseteq Node /\ Null \notin Node
        /\ r \in nodes /\ ParentsOf(r) = {} /\ Rules /\ Rules'
    BY KindsAssumption, RulesHold, RulesHoldAfter DEF FInv, ForestOf, Listed, Roots
  <1>1. /\ \A n \in nodes \ Tree(c) : n \in nodes' /\ kids'[n] = Without(kids[n], c)
        /\ \A n \in Node : Members(kids'[n]) \subseteq Members(kids[n])
    BY Removed
  <1>2. \A n \in nodes \ Tree(c) : Members(kids'[n]) = Members(kids[n]) \ {c}
    BY <1>0, <1>1, PrunedShrinks DEF Pruned
  <1>3. r \in Tree(r) \ Tree(c)
    <2>1. r \in Tree(r)
      BY <1>0, TreeIsLeast
    <2>2. ASSUME r \in Tree(c) PROVE FALSE
      <3>1. PICK p \in Tree(c) : r \in Members(kids[p])
        BY <2>2, BelowHasParent
      <3>2. p \in nodes
        BY <3>1, TreeIsLeast
      <3> QED
        BY <1>0, <3>1, <3>2 DEF ParentsOf
    <2> QED
      BY <2>1, <2>2
  <1>4. Tree(r) \subseteq nodes /\ Tree(c) \subseteq nodes /\ Closed(Tree(r), kids) /\ Closed(Tree(c), kids)
    BY <1>0, TreeIsLeast
  <1>5. r \in nodes' /\ r \in Roots'
    <2>1. r \in nodes'
      BY <1>0, <1>1, <1>3
    <2>2. ParentsOf(r)' = {}
      <3> SUFFICES ASSUME NEW p \in nodes', r \in Members(kids'[p]) PROVE FALSE
        BY DEF ParentsOf
      <3>1. p \in Node /\ r \in Members(kids[p])
        BY <1>0, <1>1
      <3>2. p \in nodes
        BY <3>1, KidsAre
      <3> QED
        BY <1>0, <3>1, <3>2 DEF ParentsOf
    <2> QED
      BY <2>1, <2>2 DEF Roots
  <1>6. Tree(r) \ Tree(c) \subseteq Tree(r)'
    <2> DEFINE X == (Tree(r)' \cap nodes) \cup Tree(c)
    <2>1. r \in Tree(r)' /\ Closed(Tree(r)', kids')
      BY <1>0, <1>5 DEF Rules, Closed
    <2>2. X \in SUBSET nodes /\ r \in X
      BY <1>0, <1>4, <2>1
    <2>3. Closed(X, kids)
      <3> SUFFICES ASSUME NEW m \in X, NEW k \in Members(kids[m]) PROVE k \in X
        BY DEF Closed
      <3>1. CASE m \in Tree(c)
        BY <1>4, <3>1 DEF Closed
      <3>2. CASE m \notin Tree(c) /\ k = c
        BY <3>2, TreeIsLeast
      <3>3. CASE m \notin Tree(c) /\ k # c
        <4>1. m \in nodes \ Tree(c) /\ m \in Tree(r)' /\ m \in Node
          BY <1>0, <3>3
        <4>2. k \in Members(kids'[m])
          BY <1>2, <3>3, <4>1
        <4>3. k \in nodes
          BY <4>1, KidsAre
        <4> QED
          BY <2>1, <4>1, <4>2, <4>3 DEF Closed
      <3> QED
        BY <3>1, <3>2, <3>3
    <2> HIDE DEF X
    <2>4. Tree(r) \subseteq X
      BY <1>0, <2>2, <2>3, TreeIsLeast
    <2> QED
      BY <2>4 DEF X
  <1>7. ASSUME NEW m \in Tree(r) \ Tree(c)
        PROVE  /\ m \in nodes /\ m \in Node /\ TopLevel(m) = r /\ TopLevel(m)' = r
               /\ Parent(m) = Null <=> Parent(m)' = Null
               /\ \A k \in Members(kids[m]) : k = c \/ k \in Tree(r) \ Tree(c)
    <2>1. m \in nodes /\ m \in Node
      BY <1>0, <1>4
    <2>2. TopLevel(m) = r
      BY <1>0 DEF Rules
    <2>3. TopLevel(m)' = r
      BY <1>0, <1>5, <1>6 DEF Rules
    <2>4. Parent(m) = Null <=> Parent(m)' = Null
      <3>1. CASE m = r
        <4>1. ParentsOf(r)' = {}
          BY <1>5 DEF Roots
        <4> QED
          BY <1>0, <2>1, <3>1, <4>1 DEF Rules
      <3>2. CASE m # r
        <4>1. PICK p \in Tree(r) : m \in Members(kids[p])
          BY <1>0, <3>2, BelowHasParent
        <4>2. p \notin Tree(c) /\ p \in nodes /\ p \in Node
          BY <1>0, <1>4, <4>1 DEF Closed
        <4>3. m # c
          BY TreeIsLeast
        <4>4. m \in Members(kids'[p])
          BY <1>2, <4>1, <4>2, <4>3
        <4>5. Parent(m) = p
          BY <1>0, <4>1, <4>2 DEF Rules
        <4>6. Parent(m)' = p
          BY <1>0, <4>2, <4>4 DEF Rules
        <4> QED
          BY <1>0, <4>2, <4>5, <4>6
      <3> QED
        BY <3>1, <3>2
    <2>5. ASSUME NEW k \in Members(kids[m]), k # c PROVE k \in Tree(r) \ Tree(c)
      <3>1. k \in Tree(r)
        BY <1>4 DEF Closed
      <3>2. ASSUME k \in Tree(c) PROVE FALSE
        <4>1. PICK p \in Tree(c) : k \in Members(kids[p])
          BY <2>5, <3>2, BelowHasParent
        <4>2. p \in Node
          BY <1>0, <1>4, <4>1
        <4>3. p = m
          BY <1>0, <2>1, <4>1, <4>2, ParentIs
        <4> QED
          BY <4>1, <4>3
      <3> QED
        BY <3>1, <3>2
    <2> QED
      BY <2>1, <2>2, <2>3, <2>4, <2>5
  <1> QED
    BY <1>3, <1>7

\* The order of a list that c is taken out of.
LEMMA OrderKept ==
    ASSUME NEW S, NEW s \in Seq(S), NEW c
    PROVE  LET w == Without(s, c)
           IN  /\ \A y \in DOMAIN w : \E j \in DOMAIN s : w[y] = s[j]
               /\ \A i \in DOMAIN s : s[i] # c =>
                     \E x \in DOMAIN w : /\ w[x] = s[i]
                                         /\ \A y \in DOMAIN w : y < x => \E j \in DOMAIN s : j < i /\ w[y] = s[j]
  <1> DEFINE w == Without(s, c)
  <1>0. DOMAIN s = 1 .. Len(s) /\ Len(s) \in Nat
    OBVIOUS
  <1>1. CASE c \notin Members(s)
    <2>1. w = s
      BY <1>1, WithoutIs
    <2> QED
      BY <2>1
  <1>2. CASE c \in Members(s)
    <2>1. PICK k \in 1 .. Len(s) : /\ s[k] = c /\ w \in Seq(S) /\ Len(w) = Len(s) - 1
                                   /\ \A i \in 1 .. Len(w) : w[i] = IF i < k THEN s[i] ELSE s[i + 1]
      BY <1>2, WithoutIs
    <2> HIDE DEF w
    <2>2. DOMAIN w = 1 .. Len(w)
      BY <2>1
    <2>3. \A y \in DOMAIN w : \E j \in DOMAIN s : w[y] = s[j] /\ (j = IF y < k THEN y ELSE y + 1)
      <3> SUFFICES ASSUME NEW y \in 1 .. Len(w)
                   PROVE  \E j \in DOMAIN s : w[y] = s[j] /\ (j = IF y < k THEN y ELSE y + 1)
        BY <2>2
      <3>1. y \in DOMAIN s /\ y + 1 \in DOMAIN s
        BY <1>0, <2>1
      <3> QED
        BY <2>1, <3>1
    <2>4. ASSUME NEW i \in DOMAIN s, s[i] # c
          PROVE  \E x \in DOMAIN w : /\ w[x] = s[i]
                                     /\ \A y \in DOMAIN w : y < x => \E j \in DOMAIN s : j < i /\ w[y] = s[j]
      <3> DEFINE x == IF i < k THEN i ELSE i - 1
      <3>1. i # k
        BY <2>1, <2>4
      <3>2. x \in 1 .. Len(w) /\ (IF x < k THEN x ELSE x + 1) = i
        BY <1>0, <2>1, <3>1
      <3>3. \A y \in 1 .. Len(w) : y < x => (IF y < k THEN y ELSE y + 1) < i
        BY <1>0, <2>1, <3>1
      <3> HIDE DEF x
      <3>4. w[x] = s[i]
        BY <2>1, <3>2
      <3> QED
        BY <2>2, <2>3, <3>2, <3>3, <3>4
    <2> QED
      BY <2>3, <2>4 DEF w
  <1> QED
    BY <1>1, <1>2

\* The text stays, unless it was in the tree of the part.
LEMMA TextStays ==
    ASSUME FInv, FInv', IsFiniteSet(Node), NEW c \in nodes, RemovePart(c),
           NEW r \in Roots, c \in Tree(r), r # c, NEW n \in Tree(r) \ Tree(c), TextContent(n) \notin Tree(c)
    PROVE  TextContent(n)' = TextContent(n)
  <1>0. PICK h, N : IsHeight(h, N)
    BY HeightExists
  <1>1. Rules /\ Rules' /\ Null \notin Tree(c) /\ c \in Node /\ nodes \subseteq Node
    BY RulesHold, RulesHoldAfter, TreeIsLeast, KindsAssumption DEF FInv, ForestOf, Listed
  <1> DEFINE O == Tree(r) \ Tree(c)
             Same(m) == TextContent(m)' = TextContent(m)
             S == {m \in Node : m \in O /\ TextContent(m) \notin Tree(c) => Same(m)}
  <1>2. \A m \in O : m \in nodes /\ m \in Node /\ \A k \in Members(kids[m]) : k = c \/ k \in O
    BY Outside
  <1> HIDE DEF O
  <1>3. \A m \in O : kids'[m] = Without(kids[m], c) /\ kind'[m] = kind[m]
    <2>1. \A m \in O : m \notin Tree(c)
      BY DEF O
    <2> QED
      BY <1>2, <2>1, Removed
  <1>4. ASSUME NEW m \in Node, Members(kids[m]) \subseteq S PROVE m \in S
    <2> SUFFICES ASSUME m \in O, TextContent(m) \notin Tree(c) PROVE Same(m)
      OBVIOUS
    <2> DEFINE s == kids[m]
               w == kids'[m]
               t == Texts
               u == Texts'
    <2>0. \A k \in Node : t[k] = TextContent(k) /\ u[k] = TextContent(k)'
      BY DEF Texts
    <2>1. IsText(m)' <=> IsText(m)
      BY <1>3 DEF IsText
    <2>2. TextRule(m) /\ TextRule(m)'
      BY <1>1 DEF Rules
    <2>3. CASE IsText(m)
      <3>1. t[m] = m /\ u[m] = m
        BY <2>1, <2>2, <2>3 DEF TextRule
      <3> QED
        BY <2>0, <3>1
    <2>4. CASE ~IsText(m)
      <3>1. /\ s \in Seq(nodes) /\ w = Without(s, c)
            /\ \A i \in DOMAIN s : s[i] \in Members(s) /\ i \in Nat
            /\ \A i \in DOMAIN s : s[i] = c \/ s[i] \in O
        <4>1. s \in Seq(nodes) /\ \A i \in DOMAIN s : s[i] \in Members(s) /\ i \in Nat
          BY KidsAre
        <4> QED
          BY <1>2, <1>3, <4>1
      <3>2. /\ \A y \in DOMAIN w : \E j \in DOMAIN s : w[y] = s[j]
            /\ \A i \in DOMAIN s : s[i] # c =>
                  \E x \in DOMAIN w : /\ w[x] = s[i]
                                      /\ \A y \in DOMAIN w : y < x => \E j \in DOMAIN s : j < i /\ w[y] = s[j]
        <4> HIDE DEF s, w
        <4> QED
          BY <3>1, OrderKept
      <3>3. \A i \in DOMAIN s : s[i] # c /\ t[s[i]] \notin Tree(c) => u[s[i]] = t[s[i]]
        <4> SUFFICES ASSUME NEW i \in DOMAIN s, s[i] # c, t[s[i]] \notin Tree(c)
                     PROVE  u[s[i]] = t[s[i]]
          OBVIOUS
        <4>0. s[i] \in Members(s) /\ s[i] \in O
          BY <3>1
        <4>1. PICK k : k = s[i] /\ k \in Node /\ k \in O /\ k \in S
          BY <1>2, <1>4, <4>0
        <4> HIDE DEF t, u, s
        <4>2. TextContent(k) \notin Tree(c)
          BY <2>0, <4>1
        <4>3. Same(k)
          BY <4>1, <4>2
        <4> QED
          BY <2>0, <4>1, <4>3
      <3>4. /\ \/ t[m] = Null /\ \A i \in DOMAIN s : t[s[i]] = Null
               \/ \E i \in DOMAIN s : /\ t[s[i]] # Null /\ t[m] = t[s[i]]
                                      /\ \A j \in DOMAIN s : j < i => t[s[j]] = Null
            /\ \/ u[m] = Null /\ \A i \in DOMAIN w : u[w[i]] = Null
               \/ \E i \in DOMAIN w : /\ u[w[i]] # Null /\ u[m] = u[w[i]]
                                      /\ \A j \in DOMAIN w : j < i => u[w[j]] = Null
        BY <2>1, <2>2, <2>4 DEF TextRule
      <3>5. c \notin Members(w) /\ DOMAIN w \subseteq Nat /\ \A y \in DOMAIN w : w[y] \in Members(w)
        <4>1. IsInjective(s)
          BY DEF FInv, ForestOf, Once
        <4> HIDE DEF s, w
        <4>2. w \in Seq(nodes) /\ Members(w) = Members(s) \ {c}
          BY <3>1, <4>1, WithoutOne
        <4>3. DOMAIN w = 1 .. Len(w) /\ \A y \in DOMAIN w : w[y] \in Members(w)
          BY <4>2, InList
        <4> QED
          BY <4>2, <4>3
      <3>6. t[c] # Null => t[c] \in Tree(c)
        BY <1>0, <1>1, <2>0, TextInTree
      <3> HIDE DEF s, w, t, u
      <3>7. ASSUME \A i \in DOMAIN s : t[s[i]] = Null PROVE u[m] = t[m]
        <4>1. t[m] = Null
          BY <3>4, <3>7
        <4>2. \A y \in DOMAIN w : u[w[y]] = Null
          <5> SUFFICES ASSUME NEW y \in DOMAIN w PROVE u[w[y]] = Null
            OBVIOUS
          <5>1. PICK j \in DOMAIN s : w[y] = s[j]
            BY <3>2
          <5>2. s[j] # c
            BY <3>5, <5>1
          <5>3. u[s[j]] = t[s[j]]
            BY <1>1, <3>3, <3>7, <5>2
          <5> QED
            BY <3>7, <5>1, <5>3
        <4>3. u[m] = Null
          BY <3>4, <4>2
        <4> QED
          BY <4>1, <4>3
      <3>8. ASSUME \E i \in DOMAIN s : /\ t[s[i]] # Null /\ t[m] = t[s[i]]
                                       /\ \A j \in DOMAIN s : j < i => t[s[j]] = Null
            PROVE  u[m] = t[m]
        <4>1. PICK i \in DOMAIN s : /\ t[s[i]] # Null /\ t[m] = t[s[i]]
                                    /\ \A j \in DOMAIN s : j < i => t[s[j]] = Null
          BY <3>8
        <4>2. s[i] # c /\ u[s[i]] = t[s[i]]
          <5>1. t[s[i]] \notin Tree(c)
            BY <2>0, <4>1
          <5> QED
            BY <3>3, <3>6, <4>1, <5>1
        <4>3. PICK x \in DOMAIN w : /\ w[x] = s[i]
                                    /\ \A y \in DOMAIN w : y < x => \E j \in DOMAIN s : j < i /\ w[y] = s[j]
          BY <3>2, <4>2
        <4>4. \A y \in DOMAIN w : y < x => u[w[y]] = Null
          <5> SUFFICES ASSUME NEW y \in DOMAIN w, y < x PROVE u[w[y]] = Null
            OBVIOUS
          <5>1. PICK j \in DOMAIN s : j < i /\ w[y] = s[j]
            BY <4>3
          <5>2. t[s[j]] = Null /\ s[j] # c
            BY <3>5, <4>1, <5>1
          <5>3. u[s[j]] = t[s[j]]
            BY <1>1, <3>3, <5>2
          <5> QED
            BY <5>1, <5>2, <5>3
        <4>5. u[w[x]] # Null
          BY <4>1, <4>2, <4>3
        <4>6. PICK y \in DOMAIN w : /\ u[w[y]] # Null /\ u[m] = u[w[y]]
                                    /\ \A j \in DOMAIN w : j < y => u[w[j]] = Null
          BY <3>4, <4>5
        <4>7. x \in Nat /\ y \in Nat /\ ~(y < x) /\ ~(x < y)
          BY <3>5, <4>4, <4>5, <4>6
        <4>8. x = y
          BY <4>7
        <4> QED
          BY <4>1, <4>2, <4>3, <4>6, <4>8
      <3>9. u[m] = t[m]
        BY <3>4, <3>7, <3>8
      <3> QED
        BY <2>0, <3>9
    <2> QED
      BY <2>3, <2>4
  <1>5. n \in O /\ n \in Node
    BY <1>2 DEF O
  <1> HIDE DEF S
  <1>6. n \in S
    BY <1>0, <1>4, <1>5, DownInduction
  <1> QED
    BY <1>5, <1>6 DEF S

\* The pieces that the list of attachments is made of are apart.
LEMMA PiecesApart ==
    ASSUME FInv, IsFiniteSet(Node), NEW n \in nodes
    PROVE  /\ Apart(Pieces(n)) /\ Pieces(n) \in Seq(Seq(Node)) /\ DOMAIN Pieces(n) = DOMAIN kids[n]
           /\ \A i \in DOMAIN kids[n] : Members(Pieces(n)[i]) \subseteq Tree(kids[n][i])
  <1>0. PICK h, N : IsHeight(h, N)
    BY HeightExists
  <1>1. n \in Node /\ nodes \subseteq Node
    BY DEF FInv, ForestOf, Listed
  <1>2. Pieces(n) \in Seq(Seq(Node)) /\ DOMAIN Pieces(n) = DOMAIN kids[n]
    BY <1>1, RulesHold DEF Rules, ListRule
  <1>3. \A i \in DOMAIN kids[n] :
           Pieces(n)[i] = IF IsAttachment(kids[n][i]) THEN <<kids[n][i]>> ELSE Attachments(kids[n][i])
    <2>1. \A i \in DOMAIN kids[n] : kids[n][i] \in Node
      BY <1>1, KidsAre
    <2> QED
      BY <2>1 DEF Pieces, Lists, Attached
  <1>4. \A i \in DOMAIN kids[n] : /\ kids[n][i] \in Members(kids[n]) /\ kids[n][i] \in nodes
                                  /\ \A j \in DOMAIN kids[n] : kids[n][i] = kids[n][j] => i = j
    BY <1>1, KidsAre
  <1>5. ASSUME NEW i \in DOMAIN kids[n]
        PROVE  Members(Pieces(n)[i]) \subseteq Tree(kids[n][i]) /\ IsInjective(Pieces(n)[i])
    <2> DEFINE c == kids[n][i]
    <2>1. c \in nodes /\ c \in Tree(c)
      BY <1>4, TreeIsLeast
    <2>2. Members(<<c>>) = {c} /\ IsInjective(<<c>>)
      BY DEF Members, IsInjective
    <2>3. Members(Attachments(c)) \subseteq Tree(c) /\ IsInjective(Attachments(c))
      <3> HIDE DEF c
      <3>1. Reached(c, {"related"}) \subseteq Tree(c)
        BY DEF Reached
      <3> QED
        BY <1>0, <2>1, <3>1, AttachmentsAre
    <2> QED
      BY <1>3, <2>1, <2>2, <2>3
  <1>6. ASSUME NEW i \in DOMAIN kids[n], NEW j \in DOMAIN kids[n], i # j
        PROVE  Members(Pieces(n)[i]) \cap Members(Pieces(n)[j]) = {}
    <2>1. Tree(kids[n][i]) \cap Tree(kids[n][j]) = {}
      BY <1>4, <1>6, SiblingsApart
    <2> QED
      BY <1>5, <2>1
  <1> QED
    BY <1>2, <1>5, <1>6 DEF Apart

\* The list of attachments loses this one and no other.
LEMMA ListStays ==
    ASSUME FInv, FInv', IsFiniteSet(Node), NEW c \in nodes, RemovePart(c),
           NEW r \in Roots, c \in Tree(r), r # c, TextContent(r) \notin Tree(c), IsAttachment(c),
           NEW n \in Tree(r) \ Tree(c)
    PROVE  Attachments(n)' = Without(Attachments(n), c)
  <1>0. PICK h, N : IsHeight(h, N)
    BY HeightExists
  <1>1. Rules /\ Rules' /\ Null \notin Tree(c) /\ c \in Node /\ c \in Tree(c) /\ nodes \subseteq Node
    BY RulesHold, RulesHoldAfter, TreeIsLeast, KindsAssumption DEF FInv, ForestOf, Listed
  <1> DEFINE O == Tree(r) \ Tree(c)
             Loses(m) == Attachments(m)' = Without(Attachments(m), c)
             S == {m \in Node : m \in O => Loses(m)}
  <1>2. /\ r \in O
        /\ \A m \in O : /\ m \in nodes /\ m \in Node /\ TopLevel(m) = r /\ TopLevel(m)' = r
                        /\ Parent(m) = Null <=> Parent(m)' = Null
                        /\ \A k \in Members(kids[m]) : k = c \/ k \in O
    BY Outside
  <1>3. TextContent(r)' = TextContent(r)
    BY <1>2, TextStays
  <1>4. \A m \in O : m \notin Tree(c) /\ m # c
    BY <1>1
  <1> HIDE DEF O
  <1>5. \A m \in O : kids'[m] = Without(kids[m], c) /\ kind'[m] = kind[m]
    BY <1>2, <1>4, Removed
  <1>6. ASSUME NEW m \in O
        PROVE  /\ IsAttachment(m)' <=> IsAttachment(m)
               /\ (IsMultipart(m) /\ ~IsSubtype(m, "related"))' <=> IsMultipart(m) /\ ~IsSubtype(m, "related")
    <2>1. kind'[m] = kind[m]
      BY <1>5
    <2>2. /\ IsMultipart(m)' <=> IsMultipart(m)
          /\ IsSubtype(m, "related")' <=> IsSubtype(m, "related")
          /\ IsMimeType(m, "message", "rfc822")' <=> IsMimeType(m, "message", "rfc822")
      BY <2>1 DEF IsMultipart, IsSubtype, IsMimeType
    <2>3. IsCryptoPart(m)' <=> IsCryptoPart(m)
      BY <2>1 DEF IsCryptoPart
    <2>4. LooksAttached(m)' <=> LooksAttached(m)
      BY <2>1 DEF LooksAttached
    <2>5. (m # TextContent(TopLevel(m)))' <=> m # TextContent(TopLevel(m))
      <3>1. TopLevel(m) = r /\ TopLevel(m)' = r
        BY <1>2
      <3>2. TextContent(TopLevel(m))' = TextContent(r)'
        BY <3>1
      <3> QED
        BY <1>3, <3>1, <3>2
    <2>6. (Parent(m) # Null)' <=> Parent(m) # Null
      BY <1>2
    <2>7. IsAttachment(m)' <=> IsAttachment(m)
      BY <2>2, <2>3, <2>4, <2>5, <2>6 DEF IsAttachment
    <2> QED
      BY <2>2, <2>7
  <1>7. ASSUME NEW m \in Node, Members(kids[m]) \subseteq S PROVE m \in S
    <2> SUFFICES ASSUME m \in O PROVE Loses(m)
      OBVIOUS
    <2> DEFINE s == kids[m]
               w == kids'[m]
               p == Pieces(m)
               d == Pieces(m)'
               q == [i \in DOMAIN p |-> Without(p[i], c)]
               Open == IsMultipart(m) /\ ~IsSubtype(m, "related")
    <2>1. ListRule(m) /\ ListRule(m)'
      BY <1>1 DEF Rules
    <2>2. /\ Attachments(m) = IF Open THEN FlattenSeq(p) ELSE <<>>
          /\ Attachments(m)' = IF Open THEN FlattenSeq(d) ELSE <<>>
          /\ d \in Seq(Seq(Node)) /\ DOMAIN d = DOMAIN w
      <3>1. Lists[m] = Attachments(m) /\ (Lists[m])' = Attachments(m)'
        BY DEF Lists
      <3> QED
        BY <1>6, <2>1, <3>1 DEF ListRule
    <2>3. CASE ~Open
      <3>1. Attachments(m) = <<>> /\ Attachments(m)' = <<>>
        BY <2>2, <2>3
      <3>2. Without(<<>>, c) = <<>>
        BY DEF Without, Members
      <3> QED
        BY <3>1, <3>2
    <2>4. CASE Open
      <3>1. m \in nodes /\ s \in Seq(nodes) /\ w = Without(s, c) /\ IsInjective(s)
        BY <1>2, <1>5, KidsAre DEF FInv, ForestOf, Once
      <3>2. /\ Apart(p) /\ p \in Seq(Seq(Node)) /\ DOMAIN p = DOMAIN s
            /\ \A i \in DOMAIN s : Members(p[i]) \subseteq Tree(s[i])
        BY <3>1, PiecesApart
      <3>3. \A i \in DOMAIN s : p[i] = IF s[i] \in Attached THEN <<s[i]>> ELSE Lists[s[i]]
        BY DEF Pieces
      <3>4. \A i \in DOMAIN w : d[i] = IF w[i] \in Attached' THEN <<w[i]>> ELSE Lists'[w[i]]
        BY DEF Pieces
      <3> HIDE DEF p, d, Open
      <3>5. /\ q \in Seq(Seq(Node)) /\ Len(q) = Len(p) /\ DOMAIN q = DOMAIN s
            /\ \A i \in DOMAIN s : q[i] = Without(p[i], c)
        <4>1. \A i \in DOMAIN p : p[i] \in Seq(Node) /\ IsInjective(p[i])
          BY <3>2 DEF Apart
        <4>2. \A i \in DOMAIN p : Without(p[i], c) \in Seq(Node)
          BY <4>1, WithoutOne
        <4>3. DOMAIN p = 1 .. Len(p) /\ Len(p) \in Nat
          BY <3>2
        <4>4. q \in Seq(Seq(Node)) /\ Len(q) = Len(p) /\ DOMAIN q = DOMAIN p
          BY <4>2, <4>3
        <4> QED
          BY <3>2, <4>4
      <3> HIDE DEF q
      <3>6. FlattenSeq(q) = Without(FlattenSeq(p), c)
        <4>1. \A i \in 1 .. Len(p) : q[i] = Without(p[i], c)
          BY <3>2, <3>5
        <4> QED
          BY <3>2, <3>5, <4>1, FlatWithout
      \* The piece of a child that is not c.
      <3>7. ASSUME NEW i \in DOMAIN s, s[i] # c, NEW y \in DOMAIN w, w[y] = s[i]
            PROVE  d[y] = q[i]
        <4>1. PICK k : k = s[i] /\ k \in Members(s) /\ k \in O /\ k \in S
          <5>1. s[i] \in Members(s)
            BY DEF Members
          <5> QED
            BY <1>2, <1>7, <3>7, <5>1
        <4>0. /\ k \in Node /\ (k \in Attached <=> IsAttachment(k)) /\ (k \in Attached' <=> IsAttachment(k))
              /\ Lists[k] = Attachments(k) /\ Lists'[k] = Attachments(k)'
          BY <1>2, <1>6, <4>1 DEF Attached, Lists
        <4>2. CASE IsAttachment(k)
          <5>1. d[y] = <<k>> /\ p[i] = <<k>>
            BY <3>3, <3>4, <3>7, <4>0, <4>1, <4>2
          <5>2. Members(<<k>>) = {k}
            BY DEF Members
          <5>3. Without(<<k>>, c) = <<k>>
            BY <3>7, <4>1, <5>2 DEF Without
          <5> QED
            BY <3>5, <5>1, <5>3
        <4>3. CASE ~IsAttachment(k)
          <5>1. d[y] = Attachments(k)' /\ p[i] = Attachments(k)
            BY <3>3, <3>4, <3>7, <4>0, <4>1, <4>3
          <5>2. Attachments(k)' = Without(Attachments(k), c)
            BY <4>1
          <5> QED
            BY <3>5, <5>1, <5>2
        <4> QED
          BY <4>2, <4>3
      <3> HIDE DEF s, w, S
      <3>8. DOMAIN s = 1 .. Len(s) /\ Len(s) \in Nat /\ Len(q) = Len(s)
        <4>1. DOMAIN s = 1 .. Len(s) /\ Len(s) \in Nat
          BY <3>1
        <4>2. DOMAIN q = 1 .. Len(q) /\ Len(q) \in Nat
          BY <3>5
        <4>3. 1 .. Len(q) = 1 .. Len(s)
          BY <3>5, <4>1, <4>2
        <4>4. ASSUME NEW a \in Nat, NEW b \in Nat, 1 .. a = 1 .. b PROVE a = b
          <5>1. (a # 0 => a \in 1 .. b) /\ (b # 0 => b \in 1 .. a)
            BY <4>4
          <5> QED
            BY <5>1
        <4> QED
          BY <4>1, <4>2, <4>3, <4>4
      <3>9. FlattenSeq(d) = FlattenSeq(q)
        <4>1. CASE c \notin Members(s)
          <5>1. w = s
            BY <3>1, <4>1, WithoutIs
          <5>2. \A i \in DOMAIN s : s[i] # c
            BY <4>1 DEF Members
          <5>3. \A i \in DOMAIN s : d[i] = q[i]
            BY <3>7, <5>1, <5>2
          <5>4. Len(d) = Len(q)
            BY <2>2, <3>5, <5>1
          <5>5. d = q
            BY <2>2, <3>5, <3>8, <5>3, <5>4, SameList
          <5> QED
            BY <5>5
        <4>2. CASE c \in Members(s)
          <5>1. PICK j \in 1 .. Len(s) : /\ s[j] = c /\ w \in Seq(nodes) /\ Len(w) = Len(s) - 1
                                         /\ \A i \in 1 .. Len(w) : w[i] = IF i < j THEN s[i] ELSE s[i + 1]
            BY <3>1, <4>2, WithoutIs
          <5>2. q[j] = <<>>
            <6>1. p[j] = <<c>>
              <7>1. c \in Attached
                BY <1>1 DEF Attached
              <7> QED
                BY <3>3, <3>8, <5>1, <7>1
            <6>2. Without(<<c>>, c) = <<>>
              <7>1. <<c>> \in Seq(Node) /\ Members(<<c>>) = {c}
                BY <1>1 DEF Members
              <7>2. PICK k \in 1 .. Len(<<c>>) : /\ Without(<<c>>, c) \in Seq(Node)
                                                 /\ Len(Without(<<c>>, c)) = Len(<<c>>) - 1
                BY <7>1, WithoutIs
              <7>3. Len(<<c>>) = 1
                OBVIOUS
              <7>4. Len(Without(<<c>>, c)) = 0
                BY <7>2, <7>3
              <7> QED
                BY <7>2, <7>4
            <6> QED
              BY <3>5, <3>8, <5>1, <6>1, <6>2
          <5>3. \A i \in DOMAIN s : s[i] = c => i = j
            BY <3>1, <3>8, <5>1 DEF IsInjective
          <5>4. Len(d) = Len(q) - 1 /\ Len(d) = Len(w) /\ DOMAIN w = 1 .. Len(d)
            <6>1. Len(d) = Len(w) /\ DOMAIN w = 1 .. Len(w)
              BY <2>2, <5>1
            <6> QED
              BY <3>8, <5>1, <6>1
          <5>5. ASSUME NEW i \in 1 .. Len(d) PROVE d[i] = IF i < j THEN q[i] ELSE q[i + 1]
            <6>1. CASE i < j
              <7>1. i \in DOMAIN s /\ i # j
                BY <3>8, <5>1, <5>4, <6>1
              <7>2. w[i] = s[i] /\ s[i] # c /\ i \in DOMAIN w
                BY <5>1, <5>3, <5>4, <6>1, <7>1
              <7> QED
                BY <3>7, <6>1, <7>1, <7>2
            <6>2. CASE ~(i < j)
              <7>1. i + 1 \in DOMAIN s /\ i + 1 # j
                BY <3>8, <5>1, <5>4, <6>2
              <7>2. w[i] = s[i + 1] /\ s[i + 1] # c /\ i \in DOMAIN w
                BY <5>1, <5>3, <5>4, <6>2, <7>1
              <7> QED
                BY <3>7, <6>2, <7>1, <7>2
            <6> QED
              BY <6>1, <6>2
          <5>6. j \in 1 .. Len(q)
            BY <3>8
          <5> QED
            BY <2>2, <3>5, <5>2, <5>4, <5>5, <5>6, FlatDrop
        <4> QED
          BY <4>1, <4>2
      <3> QED
        BY <2>2, <2>4, <3>6, <3>9
    <2> QED
      BY <2>3, <2>4
  <1>8. n \in O /\ n \in Node
    BY <1>2 DEF O
  <1> HIDE DEF S
  <1>9. n \in S
    BY <1>0, <1>7, <1>8, DownInduction
  <1> QED
    BY <1>8, <1>9 DEF S

LEMMA RemovalStays ==
    ASSUME FInv, FInv', IsFiniteSet(Node), NEW c \in Parts, RemovePart(c), NEW r, r = TopLevel(c),
           c \in Members(Attachments(r)), TextContent(r) \notin Tree(c)
    PROVE  Attachments(r)' = Without(Attachments(r), c) /\ TextContent(r)' = TextContent(r)
  <1>0. PICK h, N : IsHeight(h, N)
    BY HeightExists
  <1>1. PICK p \in nodes : c \in Members(kids[p])
    BY DEF Parts
  <1>2. c \in nodes /\ p \in Node
    BY <1>1, KidsAre DEF FInv, ForestOf, Listed
  <1>3. r \in Roots /\ c \in Tree(r)
    <2>1. PICK x \in Roots : c \in Tree(x)
      BY <1>2, HasRoot
    <2>2. TopLevel(c) = x
      BY <1>0, <2>1, TopOfTree
    <2> QED
      BY <2>1, <2>2
  <1>4. r # c
    BY <1>1, <1>3 DEF Roots, ParentsOf
  <1>5. r \in Tree(r) \ Tree(c)
    BY <1>2, <1>3, <1>4, Outside
  <1>6. IsAttachment(c)
    <2>1. r \in nodes
      BY <1>3 DEF Roots
    <2> QED
      BY <1>0, <2>1, AttachmentsAre
  <1> QED
    BY <1>2, <1>3, <1>4, <1>5, <1>6, TextStays, ListStays

\* To delete or take out one attachment changes no other, nor the text, unless
\* it was inside: in every state that can be reached.
THEOREM AttachmentsAlwaysStay ==
    ASSUME IsFiniteSet(Node)
    PROVE  Spec => AttachmentsStay
  <1> DEFINE Stay == \A c \in Parts \ Parts' : RemovePart(c) =>
                        \A r \in {TopLevel(c)} :
                            c \in Members(Attachments(r)) /\ TextContent(r) \notin Tree(c) =>
                                /\ Attachments(r)' = Without(Attachments(r), c)
                                /\ TextContent(r)' = TextContent(r)
  <1>1. FInv /\ FInv' => Stay
    BY RemovalStays
  <1>2. Spec => [][Stay]_vars
    <2> HIDE DEF Stay
    <2> QED
      BY <1>1, TreesAlways, PTL DEF Spec
  <1> QED
    BY <1>2 DEF AttachmentsStay
====
