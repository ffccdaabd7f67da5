-------------------------------- MODULE Forest --------------------------------
(***************************************************************************)
(* What the tree operations of KMime::Content promise (content.h): the     *)
(* contents form ordered trees.  Every operation works on whole subtrees:  *)
(* it grafts one, moves it, takes it out, copies it or deletes it, and     *)
(* touches nothing else.  ContentTree, which models the pointers, the      *)
(* owners and the recursive parse(), implements this module.               *)
(*                                                                         *)
(* An encapsulated message is the only child of its container, and somebody*)
(* may share it: then it outlives the container, with all that is below it.*)
(***************************************************************************)
EXTENDS Naturals, Sequences, FiniteSets

CONSTANT Node

VARIABLES
    nodes,    \* the contents there are
    kids,     \* kids[n]: the sub-contents of n, in order
    messages  \* those that are (or were) the encapsulated message of a content

forest == <<nodes, kids, messages>>

Members(s) == {s[i] : i \in DOMAIN s}

\* The contents that n is a child of.
ParentsOf(n) == {p \in nodes : n \in Members(kids[p])}

Roots == {n \in nodes : ParentsOf(n) = {}}

\* The tree of n: the least set with n that is closed under children.
Tree(n) ==
    LET closed == {X \in SUBSET nodes :
                      n \in X /\ \A m \in X : Members(kids[m]) \subseteq X}
    IN  {m \in nodes : \A X \in closed : m \in X}

\* The list s without c, which is in it once at most.
Without(s, c) ==
    IF c \notin Members(s) THEN s
    ELSE LET i == CHOOSE j \in DOMAIN s : s[j] = c
         IN  [j \in 1 .. Len(s) - 1 |-> IF j < i THEN s[j] ELSE s[j + 1]]

\* Mutant: a content stays in the list it is taken from.
Unpruned(c) == kids

\* Mutant: the parent of c loses its other sub-contents as well.
PrunedAll(c) == [n \in Node |-> IF c \in Members(kids[n]) THEN <<>> ELSE kids[n]]

\* All lists without c.
Pruned(c) == [n \in Node |-> Without(kids[n], c)]

-----------------------------------------------------------------------------
FInit ==
    /\ nodes = {} /\ messages = {}
    /\ kids = [n \in Node |-> <<>>]

\* A new content: make_unique<Content>(), or a part that parse() creates.
Create(n) ==
    /\ n \in Node \ nodes
    /\ nodes' = nodes \cup {n}
    /\ UNCHANGED <<kids, messages>>

\* The sub-contents of p, which encapsulates no message, can have c among them.
MayAdopt(p, c) ==
    /\ p \in nodes /\ c \in nodes \ messages
    /\ p \notin Tree(c) /\ Members(kids[p]) \cap messages = {}

\* appendContent(), prependContent(): a whole tree becomes the last or the
\* first sub-content of p.
Graft(p, c) ==
    /\ UNCHANGED <<nodes, messages>>
    /\ MayAdopt(p, c) /\ c \in Roots
    /\ kids' \in {[kids EXCEPT ![p] = Append(@, c)], [kids EXCEPT ![p] = <<c>> \o @]}

\* setParent(): a whole tree becomes the last one below p.
Move(p, c) ==
    /\ UNCHANGED <<nodes, messages>>
    /\ MayAdopt(p, c)
    /\ kids' = [Pruned(c) EXCEPT ![p] = Append(@, c)]

\* takeContent(), setParent(nullptr).
TakeOut(c) ==
    /\ UNCHANGED <<nodes, messages>>
    /\ c \in nodes \ messages
    /\ kids' = Pruned(c)

\* parse() of a message/rfc822 content.
Enclose(p, m) ==
    /\ p \in nodes /\ kids[p] = <<>> /\ m \in Node \ nodes
    /\ nodes' = nodes \cup {m}
    /\ kids' = [kids EXCEPT ![p] = <<m>>]
    /\ messages' = messages \cup {m}

\* The contents of S are deleted, except the trees of the messages among them
\* that somebody shares.
Discard(S) ==
    /\ nodes' \in {(nodes \ S) \cup UNION {Tree(m) : m \in shared} :
                      shared \in SUBSET (S \cap messages)}
    /\ messages' = messages \cap nodes'

\* clear(), and the first step of parse(): all sub-contents of n are deleted.
Clear(n) ==
    /\ n \in nodes
    /\ Discard(Tree(n) \ {n})
    /\ kids' = [m \in Node |-> IF m \in nodes' \ {n} THEN kids[m] ELSE <<>>]

\* ~Content(); an encapsulated message is deleted once it is on its own.
Delete(n) ==
    /\ n \in Roots \/ n \in nodes \ messages
    /\ Discard(Tree(n)) /\ n \notin nodes'
    /\ kids' = [m \in Node |-> IF m \in nodes' THEN Pruned(n)[m] ELSE <<>>]

\* clone() of a tree without encapsulated messages: the same shape, made of
\* new contents.
Copy(n) ==
    /\ n \in nodes /\ (Tree(n) \ {n}) \cap messages = {}
    /\ UNCHANGED messages
    /\ \E image \in SUBSET (Node \ nodes) :
          /\ nodes' = nodes \cup image
          /\ \E original \in [image -> Tree(n)] :
                /\ \A m \in Tree(n) : \E copy \in image : original[copy] = m
                /\ \A c, d \in image : original[c] = original[d] => c = d
                /\ kids' \in [Node -> Seq(nodes')]
                /\ \A m \in Node \ image : kids'[m] = kids[m]
                /\ \A copy \in image :
                      /\ kids'[copy] \in Seq(image)
                      /\ Len(kids'[copy]) = Len(kids[original[copy]])
                      /\ \A i \in DOMAIN kids'[copy] :
                            original[kids'[copy][i]] = kids[original[copy]][i]

FNext ==
    \/ \E n \in Node : Create(n) \/ Clear(n) \/ Delete(n) \/ TakeOut(n) \/ Copy(n)
    \/ \E p, c \in Node : Graft(p, c) \/ Move(p, c) \/ Enclose(p, c)

FSpec == FInit /\ [][FNext]_forest

-----------------------------------------------------------------------------
\* The contents form ordered trees: a content is in one list at most, once,
\* and no content is below itself; the encapsulated message is an only child.
IsForest ==
    /\ nodes \subseteq Node /\ messages \subseteq nodes
    /\ kids \in [Node -> Seq(nodes)]
    /\ \A n \in Node \ nodes : kids[n] = <<>>
    /\ \A n \in nodes :
          /\ Cardinality(ParentsOf(n)) <= 1
          /\ \A i, j \in DOMAIN kids[n] : kids[n][i] = kids[n][j] => i = j
          /\ \A c \in Members(kids[n]) : n \notin Tree(c)
          /\ Members(kids[n]) \cap messages # {} => Len(kids[n]) = 1
=============================================================================
