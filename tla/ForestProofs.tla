----------------------------- MODULE ForestProofs -----------------------------
(***************************************************************************)
(* Proofs about Forest: whatever the operations of the tree are called on, *)
(* and in whatever order, the contents form ordered trees.                 *)
(*                                                                         *)
(* The argument is about a forest as a value: the contents N, their lists  *)
(* K and the messages M among them.  That no content is below itself is    *)
(* said with a set that separates a content from what is below it, for     *)
(* such sets are easy to follow from one forest to the next.               *)
(***************************************************************************)
EXTENDS Forest, SequenceTheorems, FiniteSetTheorems, TLAPS

\* X contains the sub-contents of what it contains.
Closed(X, K) == \A m \in X : Members(K[m]) \subseteq X

Listed(N, K, M) ==
    /\ N \subseteq Node /\ M \subseteq N
    /\ K \in [Node -> Seq(N)]
    /\ \A n \in Node \ N : K[n] = <<>>

Once(K) == \A n \in Node : IsInjective(K[n])

OneParent(K) ==
    \A p, q \in Node : Members(K[p]) \cap Members(K[q]) # {} => p = q

NoLoop(N, K) ==
    \A n \in N : \A c \in Members(K[n]) :
        \E X \in SUBSET N : c \in X /\ n \notin X /\ Closed(X, K)

OnlyChild(K, M) == \A n \in Node : Members(K[n]) \cap M # {} => Len(K[n]) = 1

\* The inductive invariant, of a forest as a value.
ForestOf(N, K, M) ==
    Listed(N, K, M) /\ Once(K) /\ OneParent(K) /\ NoLoop(N, K) /\ OnlyChild(K, M)

FInv == ForestOf(nodes, kids, messages)

-----------------------------------------------------------------------------
\* What it means to be in a list.
LEMMA InList ==
    ASSUME NEW S, NEW s \in Seq(S)
    PROVE  /\ Members(s) \subseteq S
           /\ \A i \in DOMAIN s : s[i] \in Members(s)
           /\ \A c \in Members(s) : \E i \in DOMAIN s : s[i] = c
           /\ DOMAIN s = 1 .. Len(s) /\ Len(s) \in Nat
  BY DEF Members

\* A list is a list of its members, and of every set with its members.
LEMMA ListOf ==
    ASSUME NEW S, NEW s \in Seq(S), NEW T, Members(s) \subseteq T
    PROVE  s \in Seq(T)
  <1>1. \A i \in 1 .. Len(s) : s[i] \in T
    BY InList
  <1>2. s = [i \in 1 .. Len(s) |-> s[i]] /\ Len(s) \in Nat
    OBVIOUS
  <1> QED
    BY <1>1, <1>2

\* A list of distinct contents, one of which is taken out.
LEMMA WithoutOne ==
    ASSUME NEW S, NEW s \in Seq(S), NEW c,
           IsInjective(s)
    PROVE  LET w == Without(s, c)
           IN  /\ w \in Seq(S) /\ Members(w) = Members(s) \ {c}
               /\ IsInjective(w)
               /\ Len(s) = 1 /\ Members(w) # {} => Len(w) = 1
  <1>1. CASE c \notin Members(s)
    BY <1>1 DEF Without
  <1>2. CASE c \in Members(s)
    <2> DEFINE k == CHOOSE j \in DOMAIN s : s[j] = c
               w == Without(s, c)
    <2>1. k \in 1 .. Len(s) /\ s[k] = c /\ Len(s) \in Nat
      <3>1. \E j \in DOMAIN s : s[j] = c
        BY <1>2, InList
      <3> QED
        BY <3>1
    <2>2. w = [i \in 1 .. Len(s) - 1 |-> IF i < k THEN s[i] ELSE s[i + 1]]
      BY <1>2 DEF Without
    <2> HIDE DEF k
    <2>3. /\ w \in Seq(S) /\ Len(w) = Len(s) - 1
          /\ \A i \in 1 .. Len(w) : w[i] = IF i < k THEN s[i] ELSE s[i + 1]
      BY <2>1, <2>2
    <2> HIDE DEF w
    <2>4. Members(w) = Members(s) \ {c}
      <3>1. ASSUME NEW i \in 1 .. Len(w) PROVE w[i] \in Members(s) /\ w[i] # c
        <4>1. PICK j \in 1 .. Len(s) : j # k /\ w[i] = s[j]
          <5>1. CASE i < k
            <6>1. i \in 1 .. Len(s) /\ i # k /\ w[i] = s[i]
              BY <5>1, <2>1, <2>3
            <6> QED
              BY <6>1
          <5>2. CASE ~(i < k)
            <6>1. i + 1 \in 1 .. Len(s) /\ i + 1 # k /\ w[i] = s[i + 1]
              BY <5>2, <2>1, <2>3
            <6> QED
              BY <6>1
          <5> QED
            BY <5>1, <5>2
        <4>2. s[j] # s[k] /\ s[j] \in Members(s)
          BY <4>1, <2>1, InList DEF IsInjective
        <4> QED
          BY <4>1, <4>2, <2>1
      <3>2. ASSUME NEW i \in 1 .. Len(s), s[i] # c PROVE s[i] \in Members(w)
        <4>1. CASE i < k
          <5>1. i \in 1 .. Len(w) /\ w[i] = s[i]
            BY <4>1, <2>1, <2>3
          <5> QED
            BY <5>1, <2>3, InList
        <4>2. CASE i > k
          <5>1. i - 1 \in 1 .. Len(w) /\ ~(i - 1 < k) /\ (i - 1) + 1 = i
            BY <4>2, <2>1, <2>3
          <5>2. w[i - 1] = s[i]
            BY <5>1, <2>3
          <5> QED
            BY <5>1, <5>2, <2>3, InList
        <4>3. i # k
          BY <3>2, <2>1
        <4>4. i < k \/ i > k
          BY <4>3, <2>1
        <4> QED
          BY <4>1, <4>2, <4>4
      <3>3. \A m : m \in Members(w) <=> \E i \in 1 .. Len(w) : w[i] = m
        BY <2>3, InList
      <3>4. \A m : m \in Members(s) <=> \E i \in 1 .. Len(s) : s[i] = m
        BY InList
      <3> QED
        BY <3>1, <3>2, <3>3, <3>4
    <2>5. IsInjective(w)
      <3> SUFFICES ASSUME NEW i \in 1 .. Len(w), NEW j \in 1 .. Len(w), w[i] = w[j]
                   PROVE  i = j
        <4>1. DOMAIN w = 1 .. Len(w)
          BY <2>3
        <4> QED
          BY <4>1, Zenon DEF IsInjective
      <3> DEFINE at(x) == IF x < k THEN x ELSE x + 1
      <3>1. at(i) \in DOMAIN s /\ at(j) \in DOMAIN s /\ s[at(i)] = s[at(j)]
        BY <2>1, <2>3
      <3>2. at(i) = at(j)
        <4> HIDE DEF at
        <4> QED
          BY <3>1 DEF IsInjective
      <3> QED
        BY <2>1, <2>3, <3>2
    <2>6. Len(s) = 1 => Members(w) = {}
      <3> SUFFICES ASSUME Len(s) = 1 PROVE Members(w) = {}
        OBVIOUS
      <3>1. DOMAIN w = {}
        BY <2>3
      <3> QED
        BY <3>1 DEF Members
    <2> QED
      BY <2>3, <2>4, <2>5, <2>6 DEF w
  <1> QED
    BY <1>1, <1>2

-----------------------------------------------------------------------------
\* The tree of n is the least set with n that is closed.
LEMMA TreeIsLeast ==
    ASSUME FInv, NEW n \in nodes
    PROVE  /\ n \in Tree(n) /\ Tree(n) \subseteq nodes /\ Closed(Tree(n), kids)
           /\ \A X \in SUBSET nodes : n \in X /\ Closed(X, kids) => Tree(n) \subseteq X
  <1>1. \A m \in nodes : Members(kids[m]) \subseteq nodes
    BY InList DEF FInv, ForestOf, Listed
  <1> QED
    BY <1>1 DEF Tree, Closed

\* What is below n has a parent there.
LEMMA BelowHasParent ==
    ASSUME FInv, NEW n \in nodes, NEW k \in Tree(n) \ {n}
    PROVE  \E p \in Tree(n) : k \in Members(kids[p])
  <1> SUFFICES ASSUME \A p \in Tree(n) : k \notin Members(kids[p]) PROVE FALSE
    OBVIOUS
  <1>1. Tree(n) \ {k} \in SUBSET nodes /\ n \in Tree(n) \ {k}
    BY TreeIsLeast
  <1>2. Closed(Tree(n) \ {k}, kids)
    BY TreeIsLeast DEF Closed
  <1> QED
    BY <1>1, <1>2, TreeIsLeast

\* No content is below its sub-contents.
LEMMA NotBelowChild ==
    ASSUME FInv, NEW n \in nodes, NEW c \in Members(kids[n])
    PROVE  c \in nodes /\ n \notin Tree(c)
  <1>1. c \in nodes
    BY InList DEF FInv, ForestOf, Listed
  <1>2. PICK X \in SUBSET nodes : c \in X /\ n \notin X /\ Closed(X, kids)
    BY DEF FInv, ForestOf, NoLoop
  <1> QED
    BY <1>1, <1>2, TreeIsLeast

-----------------------------------------------------------------------------
\* A forest some of whose contents are gone, and some of the list entries.
LEMMA Shrinks ==
    ASSUME NEW N, NEW K, NEW M, ForestOf(N, K, M),
           NEW N2, NEW L, NEW M2, Listed(N2, L, M2), Once(L),
           N2 \subseteq N, M2 \subseteq M,
           \A n \in Node : Members(L[n]) \subseteq Members(K[n]),
           \A n \in Node : Len(K[n]) = 1 /\ Members(L[n]) # {} => Len(L[n]) = 1
    PROVE  ForestOf(N2, L, M2)
  <1> USE DEF ForestOf
  <1>1. OneParent(L)
    BY DEF OneParent
  <1>2. NoLoop(N2, L)
    <2> SUFFICES ASSUME NEW n \in N2, NEW c \in Members(L[n])
                 PROVE  \E X \in SUBSET N2 : c \in X /\ n \notin X /\ Closed(X, L)
      BY DEF NoLoop
    <2>1. n \in N /\ n \in Node /\ c \in Members(K[n])
      BY DEF Listed
    <2>2. PICK X \in SUBSET N : c \in X /\ n \notin X /\ Closed(X, K)
      BY <2>1 DEF NoLoop
    <2>3. \A m \in N2 : m \in Node /\ Members(L[m]) \subseteq N2
      BY InList DEF Listed
    <2>4. c \in X \cap N2 /\ n \notin X \cap N2 /\ Closed(X \cap N2, L)
      BY <2>2, <2>3 DEF Closed
    <2> QED
      BY <2>4
  <1>3. OnlyChild(L, M2)
    BY DEF OnlyChild
  <1> QED
    BY <1>1, <1>2, <1>3

\* A forest in which p, that encapsulates no message, adopts the root c with
\* the contents T below it, of which p is none.
LEMMA Adopts ==
    ASSUME NEW N, NEW K, NEW M, ForestOf(N, K, M), NEW p \in N, NEW c \in N \ M,
           \A q \in Node : c \notin Members(K[q]),
           NEW T \in SUBSET N, c \in T, p \notin T, Closed(T, K),
           Members(K[p]) \cap M = {},
           NEW s \in Seq(N), Members(s) = Members(K[p]) \cup {c},
           IsInjective(s)
    PROVE  ForestOf(N, [K EXCEPT ![p] = s], M)
  <1> DEFINE L == [K EXCEPT ![p] = s]
  <1> USE DEF ForestOf
  <1>1. /\ K \in [Node -> Seq(N)] /\ p \in Node /\ N \subseteq Node
        /\ L[p] = s /\ \A n \in Node \ {p} : L[n] = K[n]
    BY DEF Listed
  <1>2. Listed(N, L, M)
    BY <1>1 DEF Listed
  <1> HIDE DEF L
  <1>3. Once(L)
    BY <1>1 DEF Once
  <1>4. OneParent(L)
    <2>1. /\ Members(L[p]) = Members(K[p]) \cup {c}
          /\ \A n \in Node \ {p} : Members(L[n]) = Members(K[n])
      BY <1>1
    <2>2. \A n, q \in Node : Members(K[n]) \cap Members(K[q]) # {} => n = q
      BY DEF OneParent
    <2>3. ASSUME NEW n \in Node, NEW q \in Node, NEW m \in Members(L[n]), m \in Members(L[q])
          PROVE  n = q
      BY <2>1, <2>2, <2>3
    <2> QED
      BY <2>3 DEF OneParent
  <1>5. NoLoop(N, L)
    <2> SUFFICES ASSUME NEW n \in N, NEW d \in Members(L[n])
                 PROVE  \E X \in SUBSET N : d \in X /\ n \notin X /\ Closed(X, L)
      BY DEF NoLoop
    <2>1. Closed(T, L)
      BY <1>1 DEF Closed
    <2>2. CASE d = c /\ n = p
      BY <2>1, <2>2
    <2>3. CASE d \in Members(K[n])
      <3>1. PICK X \in SUBSET N : d \in X /\ n \notin X /\ Closed(X, K)
        BY <2>3 DEF NoLoop
      <3>2. CASE p \notin X
        <4>1. Closed(X, L)
          BY <1>1, <3>1, <3>2 DEF Closed
        <4> QED
          BY <3>1, <4>1
      <3>3. CASE p \in X /\ n \notin T
        <4>1. Closed(X \cup T, L)
          BY <1>1, <2>1, <3>1 DEF Closed
        <4> QED
          BY <3>1, <3>3, <4>1
      <3>4. CASE n \in T
        <4>1. d \in T
          BY <2>3, <3>4 DEF Closed
        <4>2. p \notin X \cap T /\ Closed(X \cap T, K)
          BY <3>1 DEF Closed
        <4>3. Closed(X \cap T, L)
          BY <1>1, <4>2 DEF Closed
        <4> QED
          BY <3>1, <4>1, <4>3
      <3> QED
        BY <3>2, <3>3, <3>4
    <2> QED
      BY <1>1, <2>2, <2>3
  <1>6. OnlyChild(L, M)
    BY <1>1 DEF OnlyChild
  <1>7. ForestOf(N, L, M)
    BY <1>2, <1>3, <1>4, <1>5, <1>6
  <1> QED
    BY <1>7 DEF L

-----------------------------------------------------------------------------
\* All lists without c.
LEMMA PrunedShrinks ==
    ASSUME FInv, NEW c
    PROVE  /\ ForestOf(nodes, Pruned(c), messages)
           /\ \A n \in Node : Members(Pruned(c)[n]) = Members(kids[n]) \ {c}
           /\ Pruned(c) \in [Node -> Seq(nodes)]
  <1> DEFINE L == Pruned(c)
  <1>1. \A n \in Node : L[n] = Without(kids[n], c)
    BY DEF Pruned
  <1>2. /\ kids \in [Node -> Seq(nodes)] /\ nodes \subseteq Node
        /\ messages \subseteq nodes /\ \A n \in Node \ nodes : kids[n] = <<>>
    BY DEF FInv, ForestOf, Listed
  <1>3. \A n \in Node :
           /\ L[n] \in Seq(nodes) /\ Members(L[n]) = Members(kids[n]) \ {c}
           /\ IsInjective(L[n])
           /\ Len(kids[n]) = 1 /\ Members(L[n]) # {} => Len(L[n]) = 1
    BY <1>1, <1>2, WithoutOne DEF FInv, ForestOf, Once
  <1>4. \A n \in Node \ nodes : L[n] = <<>>
    BY <1>1, <1>2 DEF Without, Members
  <1>5. L \in [Node -> Seq(nodes)]
    BY <1>3 DEF Pruned
  <1> HIDE DEF L
  <1>6. Listed(nodes, L, messages) /\ Once(L)
    BY <1>2, <1>3, <1>4, <1>5 DEF Listed, Once
  <1>7. ForestOf(nodes, L, messages)
    BY <1>3, <1>6, Shrinks DEF FInv
  <1> QED
    BY <1>3, <1>5, <1>7 DEF L

LEMMA CreateKeeps == ASSUME FInv, NEW n \in Node, Create(n) PROVE FInv'
  <1>1. /\ n \in Node \ nodes /\ nodes' = nodes \cup {n}
        /\ kids' = kids /\ messages' = messages /\ ForestOf(nodes, kids, messages)
    BY DEF Create, FInv
  <1>2. Listed(nodes \cup {n}, kids, messages)
    <2>1. \A m \in Node : kids[m] \in Seq(nodes \cup {n})
      BY <1>1, ListOf, InList DEF ForestOf, Listed
    <2> QED
      BY <1>1, <2>1 DEF ForestOf, Listed
  <1>3. NoLoop(nodes \cup {n}, kids)
    <2>1. Members(kids[n]) = {}
      BY <1>1 DEF ForestOf, Listed, Members
    <2> QED
      BY <1>1, <2>1 DEF ForestOf, NoLoop
  <1> QED
    BY <1>1, <1>2, <1>3 DEF FInv, ForestOf

\* A list with one content more, at its end or its beginning.
LEMMA OneMore ==
    ASSUME NEW S, NEW s \in Seq(S), NEW c \in S, c \notin Members(s),
           IsInjective(s),
           NEW t, t \in {Append(s, c), <<c>> \o s}
    PROVE  /\ t \in Seq(S) /\ Members(t) = Members(s) \cup {c}
           /\ IsInjective(t)
  <1>1. \A i \in 1 .. Len(s) : s[i] # c
    BY InList
  <1>4. \A u \in Seq(S) : \A m : m \in Members(u) <=> \E i \in 1 .. Len(u) : u[i] = m
    BY InList
  <1>2. CASE t = Append(s, c)
    <2>1. /\ t \in Seq(S) /\ Len(t) = Len(s) + 1 /\ t[Len(s) + 1] = c
          /\ \A i \in 1 .. Len(s) : t[i] = s[i]
      BY <1>2, AppendProperties
    <2>2. \A i \in 1 .. Len(t) : i \in 1 .. Len(s) \/ i = Len(s) + 1
      BY <2>1
    <2>3. IsInjective(t)
      BY <1>1, <2>1, <2>2 DEF IsInjective
    <2>4. Members(t) = Members(s) \cup {c}
      BY <1>4, <2>1, <2>2
    <2> QED
      BY <2>1, <2>3, <2>4
  <1>3. CASE t = <<c>> \o s
    <2>1. /\ t \in Seq(S) /\ Len(t) = Len(s) + 1 /\ t[1] = c
          /\ \A i \in 2 .. Len(t) : t[i] = s[i - 1] /\ i - 1 \in 1 .. Len(s)
      BY <1>3
    <2>2. \A i \in 1 .. Len(s) : i + 1 \in 2 .. Len(t) /\ t[i + 1] = s[i]
      BY <2>1
    <2>3. ASSUME NEW i \in 1 .. Len(t), NEW j \in 1 .. Len(t), t[i] = t[j] PROVE i = j
      <3>0. \A k \in 2 .. Len(t) : t[k] # t[1]
        BY <1>1, <2>1
      <3>1. CASE i = 1 \/ j = 1
        BY <2>1, <2>3, <3>0, <3>1
      <3>2. CASE i \in 2 .. Len(t) /\ j \in 2 .. Len(t)
        <4>1. s[i - 1] = s[j - 1] /\ i - 1 \in DOMAIN s /\ j - 1 \in DOMAIN s
          BY <2>1, <2>3, <3>2
        <4>2. i - 1 = j - 1
          BY <4>1 DEF IsInjective
        <4> QED
          BY <4>2
      <3> QED
        BY <2>1, <3>1, <3>2
    <2>4. ASSUME NEW m PROVE m \in Members(t) <=> m \in Members(s) \cup {c}
      <3>1. ASSUME NEW i \in 1 .. Len(t) PROVE t[i] \in Members(s) \cup {c}
        <4>1. CASE i = 1
          BY <2>1, <4>1
        <4>2. CASE i \in 2 .. Len(t)
          <5>1. t[i] = s[i - 1] /\ i - 1 \in DOMAIN s
            BY <2>1, <4>2
          <5> QED
            BY <5>1, InList
        <4> QED
          BY <2>1, <4>1, <4>2
      <3>2. ASSUME NEW i \in 1 .. Len(s) PROVE s[i] \in Members(t)
        <4>1. i + 1 \in 1 .. Len(t) /\ t[i + 1] = s[i]
          BY <2>1, <2>2
        <4> QED
          BY <4>1, <2>1, InList
      <3>3. c \in Members(t)
        BY <2>1, InList
      <3>4. m \in Members(t) => \E i \in 1 .. Len(t) : t[i] = m
        <4>1. DOMAIN t = 1 .. Len(t)
          BY <2>1
        <4> QED
          BY <4>1, Zenon DEF Members, Range
      <3>5. m \in Members(s) => \E i \in 1 .. Len(s) : s[i] = m
        BY InList
      <3> QED
        BY <3>1, <3>2, <3>3, <3>4, <3>5
    <2> QED
      BY <2>1, <2>3, <2>4 DEF IsInjective
  <1> QED
    BY <1>2, <1>3

LEMMA GraftKeeps == ASSUME FInv, NEW p \in Node, NEW c \in Node, Graft(p, c) PROVE FInv'
  <1>1. /\ p \in nodes /\ c \in nodes \ messages /\ p \notin Tree(c)
        /\ Members(kids[p]) \cap messages = {} /\ c \in Roots
        /\ nodes' = nodes /\ messages' = messages
    BY DEF Graft, MayAdopt
  <1>2. PICK s \in {Append(kids[p], c), <<c>> \o kids[p]} : kids' = [kids EXCEPT ![p] = s]
    BY DEF Graft
  <1>3. \A q \in Node : c \notin Members(kids[q])
    BY <1>1 DEF Roots, ParentsOf, FInv, ForestOf, Listed, Members
  <1>4. kids[p] \in Seq(nodes) /\ IsInjective(kids[p])
    BY DEF FInv, ForestOf, Listed, Once
  <1>5. /\ s \in Seq(nodes) /\ Members(s) = Members(kids[p]) \cup {c}
        /\ IsInjective(s)
    <2> DEFINE k == kids[p]
    <2>1. k \in Seq(nodes) /\ c \in nodes /\ c \notin Members(k)
      BY <1>1, <1>3, <1>4
    <2>2. IsInjective(k)
      BY <1>4
    <2>3. s \in {Append(k, c), <<c>> \o k}
      OBVIOUS
    <2> HIDE DEF k
    <2>4. /\ s \in Seq(nodes) /\ Members(s) = Members(k) \cup {c}
          /\ IsInjective(s)
      BY <2>1, <2>2, <2>3, OneMore
    <2> QED
      BY <2>4 DEF k
  <1>6. ForestOf(nodes, [kids EXCEPT ![p] = s], messages)
    BY <1>1, <1>3, <1>5, TreeIsLeast, Adopts DEF FInv
  <1> QED
    BY <1>1, <1>2, <1>6 DEF FInv

LEMMA MoveKeeps == ASSUME FInv, NEW p \in Node, NEW c \in Node, Move(p, c) PROVE FInv'
  <1> DEFINE K == Pruned(c)
             s == Append(K[p], c)
  <1>1. /\ p \in nodes /\ c \in nodes \ messages /\ p \notin Tree(c)
        /\ Members(kids[p]) \cap messages = {}
        /\ nodes' = nodes /\ messages' = messages
        /\ kids' = [K EXCEPT ![p] = s]
    BY DEF Move, MayAdopt
  <1>2. /\ ForestOf(nodes, K, messages) /\ K \in [Node -> Seq(nodes)]
        /\ \A n \in Node : Members(K[n]) = Members(kids[n]) \ {c}
    BY PrunedShrinks
  <1> HIDE DEF K
  <1>3. \A q \in Node : c \notin Members(K[q])
    BY <1>2
  <1>4. K[p] \in Seq(nodes) /\ IsInjective(K[p])
    BY <1>2 DEF ForestOf, Once
  <1>5. /\ s \in Seq(nodes) /\ Members(s) = Members(K[p]) \cup {c}
        /\ IsInjective(s)
    <2> DEFINE k == K[p]
    <2>1. k \in Seq(nodes) /\ c \in nodes /\ c \notin Members(k)
      BY <1>1, <1>3, <1>4
    <2>2. IsInjective(k)
      BY <1>4
    <2>3. s \in {Append(k, c), <<c>> \o k}
      OBVIOUS
    <2> HIDE DEF k, s
    <2>4. /\ s \in Seq(nodes) /\ Members(s) = Members(k) \cup {c}
          /\ IsInjective(s)
      BY <2>1, <2>2, <2>3, OneMore
    <2> QED
      BY <2>4 DEF k
  <1> HIDE DEF s
  <1>6. c \in Tree(c) /\ Tree(c) \in SUBSET nodes /\ Closed(Tree(c), K)
    <2>1. c \in Tree(c) /\ Tree(c) \in SUBSET nodes /\ Closed(Tree(c), kids)
      BY <1>1, TreeIsLeast
    <2>2. nodes \subseteq Node
      BY DEF FInv, ForestOf, Listed
    <2> QED
      BY <1>2, <2>1, <2>2 DEF Closed
  <1>7. Members(K[p]) \cap messages = {}
    BY <1>1, <1>2
  <1>8. ForestOf(nodes, [K EXCEPT ![p] = s], messages)
    BY <1>1, <1>2, <1>3, <1>5, <1>6, <1>7, Adopts
  <1> QED
    BY <1>1, <1>8 DEF FInv

LEMMA TakeOutKeeps == ASSUME FInv, NEW c \in Node, TakeOut(c) PROVE FInv'
  BY PrunedShrinks DEF TakeOut, FInv

LEMMA EncloseKeeps == ASSUME FInv, NEW p \in Node, NEW m \in Node, Enclose(p, m) PROVE FInv'
  <1> DEFINE N == nodes \cup {m}
             L == [kids EXCEPT ![p] = <<m>>]
             M == messages \cup {m}
  <1>1. /\ p \in nodes /\ kids[p] = <<>> /\ m \in Node \ nodes /\ p # m
        /\ nodes' = N /\ kids' = L /\ messages' = M
    BY DEF Enclose
  <1>2. /\ kids \in [Node -> Seq(nodes)] /\ nodes \subseteq Node /\ messages \subseteq nodes
        /\ \A n \in Node \ nodes : kids[n] = <<>>
    BY DEF FInv, ForestOf, Listed
  <1>3. /\ L[p] = <<m>> /\ Members(L[p]) = {m} /\ L[p] \in Seq(N)
        /\ Len(L[p]) = 1 /\ IsInjective(L[p])
    <2>1. L[p] = <<m>>
      BY <1>1, <1>2
    <2> QED
      BY <2>1 DEF Members, IsInjective
  <1>4. \A n \in Node \ {p} : L[n] = kids[n]
    BY <1>1, <1>2
  <1>5. \A n \in Node : Members(kids[n]) \subseteq nodes /\ kids[n] \in Seq(N)
    BY <1>2, InList, ListOf
  <1>6. Members(kids[p]) = {} /\ Members(kids[m]) = {}
    BY <1>1, <1>2 DEF Members
  <1>7. L \in [Node -> Seq(N)]
    BY <1>1, <1>2, <1>3, <1>4, <1>5
  <1> HIDE DEF L
  <1>8. Listed(N, L, M)
    BY <1>1, <1>2, <1>4, <1>7 DEF Listed
  <1>9. Once(L)
    <2>1. \A n \in Node : IsInjective(kids[n])
      BY DEF FInv, ForestOf, Once
    <2>2. \A n \in Node : IsInjective(L[n])
      BY <1>3, <1>4, <2>1, Zenon
    <2> QED
      BY <2>2 DEF Once
  <1>10. OneParent(L)
    BY <1>1, <1>3, <1>4, <1>5 DEF FInv, ForestOf, OneParent
  <1>11. NoLoop(N, L)
    <2> SUFFICES ASSUME NEW n \in N, NEW c \in Members(L[n])
                 PROVE  \E X \in SUBSET N : c \in X /\ n \notin X /\ Closed(X, L)
      BY DEF NoLoop
    <2>1. Members(L[m]) = {} /\ Closed({m}, L)
      BY <1>1, <1>4, <1>6 DEF Closed
    <2>2. CASE n = p
      BY <1>1, <1>3, <2>1, <2>2
    <2>3. CASE n # p
      <3>1. n \in nodes /\ c \in Members(kids[n])
        BY <1>1, <1>2, <1>4, <2>1, <2>3
      <3>2. PICK X \in SUBSET nodes : c \in X /\ n \notin X /\ Closed(X, kids)
        BY <3>1 DEF FInv, ForestOf, NoLoop
      <3>3. n \notin X \cup {m}
        BY <1>1, <3>1, <3>2
      <3>4. Closed(X \cup {m}, L)
        BY <1>1, <1>2, <1>3, <1>4, <2>1, <3>2 DEF Closed
      <3> QED
        BY <3>2, <3>3, <3>4
    <2> QED
      BY <2>2, <2>3
  <1>12. OnlyChild(L, M)
    BY <1>1, <1>3, <1>4, <1>5 DEF FInv, ForestOf, OnlyChild
  <1>13. ForestOf(N, L, M)
    BY <1>8, <1>9, <1>10, <1>11, <1>12 DEF ForestOf
  <1> QED
    BY <1>1, <1>13 DEF FInv

\* What survives when the tree of n is deleted, or all below n, keeps what is
\* below it; only n itself may be gone.
LEMMA DiscardCloses ==
    ASSUME FInv, NEW n \in nodes, NEW S \in {Tree(n), Tree(n) \ {n}}, Discard(S)
    PROVE  /\ nodes' \subseteq nodes /\ messages' \subseteq messages \cap nodes'
           /\ nodes \ S \subseteq nodes'
           /\ \A m \in nodes' \ {n} : Members(kids[m]) \subseteq nodes' \cup {n}
  <1>1. PICK shared \in SUBSET (S \cap messages) :
           nodes' = (nodes \ S) \cup UNION {Tree(m) : m \in shared}
    BY DEF Discard
  <1>2. \A m \in shared : m \in nodes
    BY DEF FInv, ForestOf, Listed
  <1>3. nodes' \subseteq nodes
    BY <1>1, <1>2, TreeIsLeast
  <1>4. ASSUME NEW m \in nodes' \ {n}, NEW k \in Members(kids[m]), k # n
        PROVE  k \in nodes'
    <2>1. m \in nodes /\ k \in nodes
      BY <1>3, InList DEF FInv, ForestOf, Listed
    <2>2. CASE \E r \in shared : m \in Tree(r)
      <3>1. PICK r \in shared : m \in Tree(r)
        BY <2>2
      <3>2. k \in Tree(r)
        BY <1>2, <3>1, TreeIsLeast DEF Closed
      <3> QED
        BY <1>1, <3>2
    <2>3. CASE m \notin Tree(n)
      <3>1. k \notin Tree(n)
        <4> SUFFICES ASSUME k \in Tree(n) PROVE FALSE
          OBVIOUS
        <4>1. PICK p \in Tree(n) : k \in Members(kids[p])
          BY <1>4, BelowHasParent
        <4>2. p \in nodes /\ nodes \subseteq Node
          BY TreeIsLeast DEF FInv, ForestOf, Listed
        <4>3. p = m
          BY <1>4, <2>1, <4>1, <4>2 DEF FInv, ForestOf, OneParent
        <4> QED
          BY <2>3, <4>3
      <3> QED
        BY <1>1, <2>1, <3>1
    <2> QED
      BY <1>1, <1>4, <2>2, <2>3
  <1> QED
    BY <1>1, <1>3, <1>4 DEF Discard

LEMMA ClearKeeps == ASSUME FInv, NEW n \in Node, Clear(n) PROVE FInv'
  <1> DEFINE L == [m \in Node |-> IF m \in nodes' \ {n} THEN kids[m] ELSE <<>>]
  <1>1. n \in nodes /\ Discard(Tree(n) \ {n}) /\ kids' = L
    BY DEF Clear
  <1>2. /\ nodes' \subseteq nodes /\ messages' \subseteq messages \cap nodes'
        /\ n \in nodes'
        /\ \A m \in nodes' \ {n} : Members(kids[m]) \subseteq nodes' \cup {n}
    <2>1. Tree(n) \ {n} \in {Tree(n), Tree(n) \ {n}}
      OBVIOUS
    <2> QED
      BY <1>1, <2>1, DiscardCloses
  <1>3. kids \in [Node -> Seq(nodes)] /\ nodes \subseteq Node
    BY DEF FInv, ForestOf, Listed
  <1>4. ASSUME NEW m \in Node
        PROVE  /\ L[m] \in Seq(nodes') /\ IsInjective(L[m])
               /\ Members(L[m]) \subseteq Members(kids[m])
               /\ Len(kids[m]) = 1 /\ Members(L[m]) # {} => Len(L[m]) = 1
    <2>1. CASE m \in nodes' \ {n}
      <3>1. L[m] = kids[m] /\ kids[m] \in Seq(nodes) /\ Members(kids[m]) \subseteq nodes'
        BY <1>2, <1>3, <2>1
      <3> HIDE DEF L
      <3>2. kids[m] \in Seq(nodes')
        BY <3>1, ListOf
      <3> QED
        BY <3>1, <3>2 DEF FInv, ForestOf, Once
    <2>2. CASE m \notin nodes' \ {n}
      <3>1. L[m] = <<>>
        BY <2>2
      <3> HIDE DEF L
      <3> QED
        BY <3>1 DEF Members, IsInjective
    <2> QED
      BY <2>1, <2>2
  <1>5. Listed(nodes', L, messages')
    BY <1>2, <1>3, <1>4 DEF Listed
  <1> HIDE DEF L
  <1>6. ForestOf(nodes', L, messages')
    BY <1>2, <1>4, <1>5, Shrinks DEF FInv, Once
  <1> QED
    BY <1>1, <1>6 DEF FInv

LEMMA DeleteKeeps == ASSUME FInv, NEW n \in Node, Delete(n) PROVE FInv'
  <1> DEFINE K == Pruned(n)
             L == [m \in Node |-> IF m \in nodes' THEN K[m] ELSE <<>>]
  <1>1. n \in nodes /\ Discard(Tree(n)) /\ kids' = L /\ n \notin nodes'
    BY DEF Delete, Roots
  <1>2. /\ nodes' \subseteq nodes /\ messages' \subseteq messages \cap nodes'
        /\ \A m \in nodes' \ {n} : Members(kids[m]) \subseteq nodes' \cup {n}
    <2>1. Tree(n) \in {Tree(n), Tree(n) \ {n}}
      OBVIOUS
    <2> QED
      BY <1>1, <2>1, DiscardCloses
  <1>3. /\ ForestOf(nodes, K, messages) /\ K \in [Node -> Seq(nodes)] /\ nodes \subseteq Node
        /\ \A m \in Node : Members(K[m]) = Members(kids[m]) \ {n}
    BY PrunedShrinks DEF FInv, ForestOf, Listed
  <1> HIDE DEF K
  <1>4. ASSUME NEW m \in Node
        PROVE  /\ L[m] \in Seq(nodes') /\ IsInjective(L[m])
               /\ Members(L[m]) \subseteq Members(K[m])
               /\ Len(K[m]) = 1 /\ Members(L[m]) # {} => Len(L[m]) = 1
    <2>1. CASE m \in nodes'
      <3>1. L[m] = K[m] /\ K[m] \in Seq(nodes) /\ Members(K[m]) \subseteq nodes'
        BY <1>1, <1>2, <1>3, <2>1
      <3> HIDE DEF L
      <3>2. K[m] \in Seq(nodes')
        BY <3>1, ListOf
      <3> QED
        BY <1>3, <3>1, <3>2 DEF ForestOf, Once
    <2>2. CASE m \notin nodes'
      <3>1. L[m] = <<>>
        BY <2>2
      <3> HIDE DEF L
      <3> QED
        BY <3>1 DEF Members, IsInjective
    <2> QED
      BY <2>1, <2>2
  <1>5. Listed(nodes', L, messages')
    <2>1. L \in [Node -> Seq(nodes')] /\ \A m \in Node \ nodes' : L[m] = <<>>
      BY <1>4
    <2> QED
      BY <1>2, <1>3, <2>1 DEF Listed
  <1> HIDE DEF L
  <1>6. /\ Once(L) /\ messages' \subseteq messages /\ nodes' \subseteq nodes
        /\ ForestOf(nodes, K, messages)
    BY <1>2, <1>3, <1>4 DEF Once
  <1>7. \A m \in Node : Members(L[m]) \subseteq Members(K[m])
    BY <1>4
  <1>8. \A m \in Node : Len(K[m]) = 1 /\ Members(L[m]) # {} => Len(L[m]) = 1
    BY <1>4
  <1>9. ForestOf(nodes', L, messages')
    BY <1>5, <1>6, <1>7, <1>8, Shrinks
  <1> QED
    BY <1>1, <1>9 DEF FInv

LEMMA CopyKeeps == ASSUME FInv, NEW n \in Node, Copy(n) PROVE FInv'
  <1> DEFINE L == kids'
  <1>1. n \in nodes /\ messages' = messages
    BY DEF Copy
  <1>2. \E image \in SUBSET (Node \ nodes) :
           /\ nodes' = nodes \cup image
           /\ \E original \in [image -> Tree(n)] :
                 /\ \A m \in Tree(n) : \E copy \in image : original[copy] = m
                 /\ \A c, d \in image : original[c] = original[d] => c = d
                 /\ L \in [Node -> Seq(nodes')]
                 /\ \A m \in Node \ image : L[m] = kids[m]
                 /\ \A copy \in image :
                       /\ L[copy] \in Seq(image)
                       /\ Len(L[copy]) = Len(kids[original[copy]])
                       /\ \A i \in DOMAIN L[copy] :
                             original[L[copy][i]] = kids[original[copy]][i]
    BY DEF Copy
  <1> HIDE DEF L
  <1>3. PICK I \in SUBSET (Node \ nodes) :
           /\ nodes' = nodes \cup I
           /\ \E original \in [I -> Tree(n)] :
                 /\ \A m \in Tree(n) : \E copy \in I : original[copy] = m
                 /\ \A c, d \in I : original[c] = original[d] => c = d
                 /\ L \in [Node -> Seq(nodes')]
                 /\ \A m \in Node \ I : L[m] = kids[m]
                 /\ \A copy \in I :
                       /\ L[copy] \in Seq(I)
                       /\ Len(L[copy]) = Len(kids[original[copy]])
                       /\ \A i \in DOMAIN L[copy] :
                             original[L[copy][i]] = kids[original[copy]][i]
    BY <1>2
  <1>4. PICK o \in [I -> Tree(n)] :
           /\ \A c, d \in I : o[c] = o[d] => c = d
           /\ L \in [Node -> Seq(nodes')]
           /\ \A m \in Node \ I : L[m] = kids[m]
           /\ \A copy \in I :
                 /\ L[copy] \in Seq(I)
                 /\ Len(L[copy]) = Len(kids[o[copy]])
                 /\ \A i \in DOMAIN L[copy] : o[L[copy][i]] = kids[o[copy]][i]
    BY <1>3
  <1>5. /\ kids \in [Node -> Seq(nodes)] /\ nodes \subseteq Node /\ messages \subseteq nodes
        /\ \A m \in Node \ nodes : kids[m] = <<>>
        /\ \A m \in Node : Members(kids[m]) \subseteq nodes
    BY InList DEF FInv, ForestOf, Listed
  <1>6. \A c \in I : o[c] \in nodes /\ c \in Node /\ c \notin nodes
    BY <1>1, <1>5, TreeIsLeast
  <1>7. ASSUME NEW c \in I, NEW k \in Members(L[c])
        PROVE  k \in I /\ o[k] \in Members(kids[o[c]])
    <2>1. L[c] \in Seq(I) /\ kids[o[c]] \in Seq(nodes) /\ Len(L[c]) = Len(kids[o[c]])
      BY <1>4, <1>5, <1>6
    <2>2. PICK i \in DOMAIN L[c] : L[c][i] = k
      BY <2>1, InList
    <2>3. o[k] = kids[o[c]][i] /\ i \in DOMAIN kids[o[c]]
      BY <1>4, <2>1, <2>2
    <2> QED
      BY <2>1, <2>3, InList
  <1>8. \A m \in Node \ I : L[m] = kids[m] /\ Members(L[m]) \subseteq nodes
    BY <1>4, <1>5
  <1>9. Listed(nodes', L, messages)
    BY <1>3, <1>4, <1>5 DEF Listed
  <1>10. Once(L)
    <2>1. ASSUME NEW c \in I PROVE IsInjective(L[c])
      <3>1. /\ L[c] \in Seq(I) /\ kids[o[c]] \in Seq(nodes) /\ Len(L[c]) = Len(kids[o[c]])
            /\ DOMAIN L[c] = DOMAIN kids[o[c]]
        BY <1>4, <1>5, <1>6
      <3>2. \A i, j \in DOMAIN kids[o[c]] : kids[o[c]][i] = kids[o[c]][j] => i = j
        BY <1>5, <1>6 DEF FInv, ForestOf, Once, IsInjective
      <3> QED
        BY <1>4, <3>1, <3>2 DEF IsInjective
    <2> QED
      BY <1>8, <2>1 DEF FInv, ForestOf, Once
  <1>11. OneParent(L)
    <2> SUFFICES ASSUME NEW a \in Node, NEW b \in Node,
                        NEW k \in Members(L[a]), k \in Members(L[b])
                 PROVE  a = b
      BY DEF OneParent
    <2>1. CASE a \in I /\ b \in I
      <3>1. o[k] \in Members(kids[o[a]]) /\ o[k] \in Members(kids[o[b]])
        BY <1>7, <2>1
      <3>2. o[a] = o[b]
        BY <1>5, <1>6, <2>1, <3>1 DEF FInv, ForestOf, OneParent
      <3> QED
        BY <1>4, <2>1, <3>2
    <2>2. CASE a \notin I /\ b \notin I
      BY <1>8, <2>2 DEF FInv, ForestOf, OneParent
    <2>3. CASE (a \in I /\ b \notin I) \/ (a \notin I /\ b \in I)
      BY <1>6, <1>7, <1>8, <2>3
    <2> QED
      BY <2>1, <2>2, <2>3
  <1>12. NoLoop(nodes', L)
    <2> SUFFICES ASSUME NEW a \in nodes', NEW k \in Members(L[a])
                 PROVE  \E X \in SUBSET nodes' : k \in X /\ a \notin X /\ Closed(X, L)
      BY DEF NoLoop
    <2>1. CASE a \in I
      <3>1. k \in I /\ o[k] \in Members(kids[o[a]]) /\ o[a] \in nodes
        BY <1>6, <1>7, <2>1
      <3>2. PICK Y \in SUBSET nodes : o[k] \in Y /\ o[a] \notin Y /\ Closed(Y, kids)
        BY <3>1 DEF FInv, ForestOf, NoLoop
      <3> DEFINE X == {x \in I : o[x] \in Y}
      <3>3. k \in X /\ a \notin X /\ X \subseteq nodes'
        BY <1>3, <3>1, <3>2
      <3>4. Closed(X, L)
        BY <1>7, <3>2 DEF Closed
      <3> QED
        BY <3>3, <3>4
    <2>2. CASE a \notin I
      <3>1. a \in nodes /\ k \in Members(kids[a])
        BY <1>3, <1>5, <1>8, <2>2
      <3>2. PICK X \in SUBSET nodes : k \in X /\ a \notin X /\ Closed(X, kids)
        BY <3>1 DEF FInv, ForestOf, NoLoop
      <3>3. Closed(X, L) /\ X \subseteq nodes'
        BY <1>3, <1>5, <1>6, <1>8, <3>2 DEF Closed
      <3> QED
        BY <3>2, <3>3
    <2> QED
      BY <2>1, <2>2
  <1>13. OnlyChild(L, messages)
    <2>1. \A c \in I : Members(L[c]) \cap messages = {}
      BY <1>5, <1>6, <1>7
    <2> QED
      BY <1>8, <2>1 DEF FInv, ForestOf, OnlyChild
  <1>14. ForestOf(nodes', L, messages)
    BY <1>9, <1>10, <1>11, <1>12, <1>13 DEF ForestOf
  <1> QED
    BY <1>1, <1>14 DEF FInv, L

-----------------------------------------------------------------------------
\* The inductive invariant implies what the module Forest promises.
LEMMA FInvIsForest == FInv => IsForest
  <1> SUFFICES ASSUME FInv PROVE IsForest
    OBVIOUS
  <1>1. /\ nodes \subseteq Node /\ messages \subseteq nodes
        /\ kids \in [Node -> Seq(nodes)]
        /\ \A n \in Node \ nodes : kids[n] = <<>>
    BY DEF FInv, ForestOf, Listed
  <1>2. ASSUME NEW n \in nodes
        PROVE  /\ Cardinality(ParentsOf(n)) <= 1
               /\ \A i, j \in DOMAIN kids[n] : kids[n][i] = kids[n][j] => i = j
               /\ \A c \in Members(kids[n]) : n \notin Tree(c)
               /\ Members(kids[n]) \cap messages # {} => Len(kids[n]) = 1
    <2>1. Cardinality(ParentsOf(n)) <= 1
      <3>1. \A p, q \in ParentsOf(n) : p = q
        BY <1>1 DEF ParentsOf, FInv, ForestOf, OneParent
      <3>2. ParentsOf(n) = {} \/ \E p : ParentsOf(n) = {p}
        BY <3>1
      <3>3. CASE ParentsOf(n) = {}
        <4>1. Cardinality(ParentsOf(n)) = 0
          BY <3>3, FS_EmptySet
        <4> QED
          BY <4>1
      <3>4. CASE \E p : ParentsOf(n) = {p}
        <4>1. Cardinality(ParentsOf(n)) = 1
          BY <3>4, FS_Singleton
        <4> QED
          BY <4>1
      <3> QED
        BY <3>2, <3>3, <3>4
    <2>2. \A i, j \in DOMAIN kids[n] : kids[n][i] = kids[n][j] => i = j
      BY <1>1 DEF FInv, ForestOf, Once, IsInjective
    <2>3. \A c \in Members(kids[n]) : n \notin Tree(c)
      BY NotBelowChild
    <2>4. Members(kids[n]) \cap messages # {} => Len(kids[n]) = 1
      BY <1>1 DEF FInv, ForestOf, OnlyChild
    <2> QED
      BY <2>1, <2>2, <2>3, <2>4
  <1> QED
    BY <1>1, <1>2 DEF IsForest

LEMMA FInitInv == FInit => FInv
  <1> SUFFICES ASSUME FInit PROVE FInv
    OBVIOUS
  <1>1. nodes = {} /\ messages = {} /\ kids = [n \in Node |-> <<>>]
    BY DEF FInit
  <1>2. \A n \in Node : kids[n] = <<>> /\ kids[n] \in Seq(nodes)
    BY <1>1
  <1>3. \A n \in Node : Members(kids[n]) = {} /\ IsInjective(kids[n])
    BY <1>2 DEF Members, IsInjective
  <1> QED
    BY <1>1, <1>2, <1>3
    DEF FInv, ForestOf, Listed, Once, OneParent, NoLoop, OnlyChild

LEMMA FNextInv == FInv /\ [FNext]_forest => FInv'
  <1> SUFFICES ASSUME FInv, [FNext]_forest PROVE FInv'
    OBVIOUS
  <1>1. ASSUME NEW n \in Node, Create(n) \/ Clear(n) \/ Delete(n) \/ TakeOut(n) \/ Copy(n)
        PROVE  FInv'
    BY <1>1, CreateKeeps, ClearKeeps, DeleteKeeps, TakeOutKeeps, CopyKeeps
  <1>2. ASSUME NEW p \in Node, NEW c \in Node, Graft(p, c) \/ Move(p, c) \/ Enclose(p, c)
        PROVE  FInv'
    BY <1>2, GraftKeeps, MoveKeeps, EncloseKeeps
  <1>3. CASE UNCHANGED forest
    BY <1>3 DEF forest, FInv
  <1> QED
    BY <1>1, <1>2, <1>3 DEF FNext

\* Whatever is called, and in whatever order, the contents form ordered trees:
\* no content gets into two lists, twice into one, or below itself, and an
\* encapsulated message stays an only child (content.cpp 164-241, 480-524,
\* 743-759, 994-1006).
THEOREM TreesStayTrees == FSpec => []IsForest
  <1>1. FInit => FInv
    BY FInitInv
  <1>2. FInv /\ [FNext]_forest => FInv'
    BY FNextInv
  <1>3. FInv => IsForest
    BY FInvIsForest
  <1> QED
    BY <1>1, <1>2, <1>3, PTL DEF FSpec
=============================================================================
