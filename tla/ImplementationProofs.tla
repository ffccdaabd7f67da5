------------------------- MODULE ImplementationProofs -------------------------
(***************************************************************************)
(* The tree of ContentTree, seen through its contents() lists, implements  *)
(* the ordered trees of the module Forest: every step of every operation,  *)
(* those of the recursive parse() included, is one step of a forest or no  *)
(* step of it at all.  So an index leads to one content only, and          *)
(* Content::index() finds it.                                              *)
(***************************************************************************)
EXTENDS ContentTreeProofs, ContentIndex

-----------------------------------------------------------------------------
(* The two views of the state. *)

LEMMA MembersAreElements == \A s : F!Members(s) = Elements(s)
BY DEF F!Members, Elements

LEMMA MessagesAreShared ==
    ASSUME OwnInv
    PROVE  /\ held \cup ({bodyAsMessage[n] : n \in live} \ {Null}) = Shared
           /\ \A n \in Node \ live : Contents(n) = <<>>
  <1>1. \A n \in Node \ live : bodyAsMessage[n] = Null /\ multipartContents[n] = <<>>
    BY DEF OwnInv, PointersInv, FreeIsBlank
  <1>2. live \subseteq Node
    BY DEF OwnInv, TypeOK
  <1> QED
    BY <1>1, <1>2 DEF Shared, Enclosed, Contents

\* The list of a content: the parts, or the one message.
LEMMA ListOfContents ==
    ASSUME OwnInv, NEW n \in Node
    PROVE  /\ Contents(n) \in Seq(Node) /\ IsInjective(Contents(n))
           /\ Elements(Contents(n)) = Children(n) /\ Children(n) \subseteq live
           /\ \A c \in Children(n) : parent[c] = n
           /\ bodyAsMessage[n] = Null => Contents(n) = multipartContents[n]
           /\ bodyAsMessage[n] # Null => Contents(n) = <<bodyAsMessage[n]>>
  <1>1. TypeOK /\ PointersInv
    BY DEF OwnInv
  <1>2. multipartContents[n] \in Seq(Node) /\ bodyAsMessage[n] \in Node \cup {Null}
        /\ IsInjective(multipartContents[n])
    BY <1>1 DEF TypeOK, PointersInv, NoDuplicates
  <1>3. Children(n) \subseteq live /\ \A c \in Children(n) : parent[c] = n
    BY <1>1, OneContainer
  <1>4. CASE bodyAsMessage[n] = Null
    BY <1>2, <1>3, <1>4 DEF Contents, Children
  <1>5. CASE bodyAsMessage[n] # Null
    <2>1. Contents(n) = <<bodyAsMessage[n]>> /\ bodyAsMessage[n] \in Node
      BY <1>2, <1>5 DEF Contents
    <2>2. <<bodyAsMessage[n]>> \in Seq(Node) /\ IsInjective(<<bodyAsMessage[n]>>)
      BY <2>1 DEF IsInjective
    <2> QED
      BY <1>3, <1>5, <2>1, <2>2 DEF Children
  <1> QED
    BY <1>4, <1>5

LEMMA TreeIsBelow ==
    ASSUME OwnInv, NEW n \in live
    PROVE  F!Tree(n) = Below(n)
  <1>1. \A m \in live : m \in Node /\ Children(m) \subseteq live
    BY ListOfContents DEF OwnInv, TypeOK
  <1> DEFINE K == [m \in Node |-> Contents(m)]
  <1>2. \A m \in live : F!Members(K[m]) = Children(m)
    BY <1>1, MembersAreElements DEF Children
  <1>3. F!Tree(n) = {m \in live : \A X \in {Y \in SUBSET live :
                        n \in Y /\ \A k \in Y : F!Members(K[k]) \subseteq Y} : m \in X}
    BY DEF F!Tree
  <1> HIDE DEF K
  <1>4. F!Tree(n) = {m \in live : \A X \in {Y \in SUBSET live :
                        n \in Y /\ \A k \in Y : Children(k) \subseteq Y} : m \in X}
    BY <1>2, <1>3
  <1>5. {Y \in SUBSET live : n \in Y /\ \A k \in Y : Children(k) \subseteq Y}
        = {Y \in SUBSET live : n \in Y /\ \A k \in Y : Children(k) \cap live \subseteq Y}
    BY <1>1
  <1> QED
    BY <1>4, <1>5 DEF Below, Least

\* What is below n is, but for n itself, in the list of a content below n, and
\* n is not below it.
LEMMA BelowIsTree ==
    ASSUME OwnInv, NEW n \in live, NEW k \in Below(n), k # n
    PROVE  /\ k \in live /\ parent[k] \in Below(n) /\ k \in Children(parent[k])
           /\ n \notin Below(k) /\ k \in Listed \cup Enclosed
  <1>1. n \in Below(n) /\ Below(n) \subseteq live
        /\ \A m \in Below(n) : Children(m) \subseteq Below(n)
    BY BelowProperties
  <1>2. \E p \in Below(n) : k \in Children(p)
    <2> SUFFICES ASSUME \A p \in Below(n) : k \notin Children(p) PROVE FALSE
      OBVIOUS
    <2>1. Below(n) \ {k} \in SUBSET live /\ n \in Below(n) \ {k}
          /\ \A m \in Below(n) \ {k} : Children(m) \subseteq Below(n) \ {k}
      BY <1>1
    <2> QED
      BY <2>1, BelowProperties
  <1>3. PICK p \in Below(n) : k \in Children(p)
    BY <1>2
  <1>4. p \in Node /\ p \in live /\ parent[k] = p /\ k \in live
    BY <1>1, <1>3, ListOfContents DEF OwnInv, TypeOK
  <1>5. k \in Listed \cup Enclosed
    BY <1>3, <1>4, OneContainer DEF OwnInv, Listed, Enclosed
  <1>6. n \notin Below(k)
    <2>1. PICK X \in SUBSET live : n \notin X /\ DownClosed(X, {n})
      BY DEF OwnInv, PointersInv, NoLoop
    <2>2. \A m \in X \cup {n} : Children(m) \subseteq X
      <3> SUFFICES ASSUME NEW m \in X \cup {n}, NEW c \in Children(m) PROVE c \in X
        OBVIOUS
      <3>1. m \in Node
        BY DEF OwnInv, TypeOK
      <3>2. c \in live /\ parent[c] = m
        BY <3>1, ListOfContents
      <3> QED
        BY <2>1, <3>2 DEF DownClosed
    <2>3. Below(n) \subseteq X \cup {n}
      <3>1. X \cup {n} \in SUBSET live /\ n \in X \cup {n}
            /\ \A m \in X \cup {n} : Children(m) \subseteq X \cup {n}
        BY <2>2
      <3> QED
        BY <3>1, BelowProperties
    <2>4. k \in X
      BY <2>3
    <2>5. Below(k) \subseteq X
      BY <1>4, <2>2, <2>4, BelowProperties
    <2> QED
      BY <2>1, <2>5
  <1> QED
    BY <1>3, <1>4, <1>5, <1>6

\* A content in no list is a root.
LEMMA RootOf ==
    ASSUME OwnInv, NEW c \in live, c \notin Listed, c \notin Enclosed
    PROVE  c \in F!Roots
  <1>1. \A p \in live : p \in Node /\ c \notin Children(p)
    BY OneContainer DEF OwnInv, TypeOK, Listed, Enclosed
  <1>2. \A p \in live : c \notin F!Members([n \in Node |-> Contents(n)][p])
    BY <1>1, MembersAreElements DEF Children
  <1>3. F!ParentsOf(c) = {}
    BY <1>2 DEF F!ParentsOf
  <1> QED
    BY <1>3 DEF F!Roots

-----------------------------------------------------------------------------
(* Steps that put one content in a list or take one out. *)

\* The messages a forest shows, before and after a step.
MessagesShown == held \cup ({bodyAsMessage[n] : n \in live} \ {Null}) = Shared

LEMMA MessagesNow == OwnInv => MessagesShown
BY MessagesAreShared DEF MessagesShown

LEMMA MessagesNext == OwnInv' => MessagesShown'
BY MessagesNow, PTL

\* A step that changes nothing a forest shows.
LEMMA NoStep ==
    ASSUME OwnInv, OwnInv', UNCHANGED <<live, pointers>>, Shared' = Shared
    PROVE  UNCHANGED F!forest
  <1>1. \A n \in Node : Contents(n)' = Contents(n)
    BY DEF pointers, Contents
  <1>2. /\ held \cup ({bodyAsMessage[n] : n \in live} \ {Null}) = Shared
        /\ (held \cup ({bodyAsMessage[n] : n \in live} \ {Null}))' = Shared'
    BY MessagesNow, MessagesNext DEF MessagesShown
  <1> QED
    BY <1>1, <1>2 DEF F!forest

\* A new content, that no list has yet.
LEMMA CreateStep ==
    ASSUME OwnInv, NEW c \in Node \ live, live' = live \cup {c},
           UNCHANGED <<held, multipartContents, bodyAsMessage>>
    PROVE  F!Create(c)
  <1>1. bodyAsMessage[c] = Null
    BY DEF OwnInv, PointersInv, FreeIsBlank
  <1> QED
    BY <1>1 DEF F!Create, Contents

\* The lists when p, which has no message, gets the list s.
LEMMA KidsWith ==
    ASSUME OwnInv, NEW p \in Node, bodyAsMessage[p] = Null, NEW s,
           multipartContents' = [multipartContents EXCEPT ![p] = s], UNCHANGED bodyAsMessage
    PROVE  [n \in Node |-> Contents(n)]' = [[n \in Node |-> Contents(n)] EXCEPT ![p] = s]
  <1>1. \A n \in Node : multipartContents'[n] = IF n = p THEN s ELSE multipartContents[n]
    BY DEF OwnInv, TypeOK
  <1>2. \A n \in Node : Contents(n)' = IF n = p THEN s ELSE Contents(n)
    BY <1>1 DEF Contents
  <1> QED
    BY <1>2

\* What the list of a content without a message lists.
LEMMA NoMessageIn ==
    ASSUME OwnInv, NEW p \in live, bodyAsMessage[p] = Null
    PROVE  /\ p \in Node /\ [n \in Node |-> Contents(n)][p] = multipartContents[p]
           /\ F!Members([n \in Node |-> Contents(n)][p])
              \cap (held \cup ({bodyAsMessage[n] : n \in live} \ {Null})) = {}
  <1>1. p \in Node /\ Contents(p) = multipartContents[p]
    BY ListOfContents DEF OwnInv, TypeOK
  <1>2. Elements(multipartContents[p]) \cap Shared = {}
    BY <1>1 DEF OwnInv, PointersInv, OwnersPartition, Listed
  <1> QED
    BY <1>1, <1>2, MembersAreElements, MessagesNow DEF MessagesShown

\* appendContent(), prependContent() and the end of a turn of parseMultipart().
LEMMA GraftStep ==
    ASSUME OwnInv, UNCHANGED <<live, held, bodyAsMessage>>,
           NEW p \in live, bodyAsMessage[p] = Null,
           NEW c \in live, c \notin Listed, c \notin Shared, p \notin Below(c),
           NEW s, s \in {Append(multipartContents[p], c), <<c>> \o multipartContents[p]},
           multipartContents' = [multipartContents EXCEPT ![p] = s]
    PROVE  F!Graft(p, c)
  <1>1. c \notin held \cup ({bodyAsMessage[n] : n \in live} \ {Null}) /\ c \notin Enclosed
    BY MessagesNow DEF MessagesShown, Shared
  <1>2. F!MayAdopt(p, c)
    BY <1>1, NoMessageIn, TreeIsBelow DEF F!MayAdopt
  <1>3. c \in F!Roots
    BY <1>1, RootOf
  <1> DEFINE K == [n \in Node |-> Contents(n)]
  <1>4. K' = [K EXCEPT ![p] = s] /\ K[p] = multipartContents[p]
    BY KidsWith, NoMessageIn
  <1> HIDE DEF K
  <1>5. K' \in {[K EXCEPT ![p] = Append(@, c)], [K EXCEPT ![p] = <<c>> \o @]}
    BY <1>4
  <1> QED
    BY <1>2, <1>3, <1>5 DEF F!Graft, K

\* All lists without c, which is not an encapsulated message.
LEMMA PrunedLists ==
    ASSUME OwnInv, NEW c, c \notin Enclosed, NEW n \in Node
    PROVE  F!Pruned(c)[n] = IF bodyAsMessage[n] = Null THEN RemoveAll(multipartContents[n], c)
                            ELSE Contents(n)
  <1> DEFINE K == [m \in Node |-> Contents(m)]
  <1>1. F!Pruned(c)[n] = F!Without(Contents(n), c)
    BY DEF F!Pruned
  <1>2. CASE bodyAsMessage[n] = Null
    <2>1. multipartContents[n] \in Seq(Node) /\ Contents(n) = multipartContents[n]
      BY <1>2, ListOfContents DEF OwnInv, TypeOK
    <2>2. RemoveAll(multipartContents[n], c) = FP!Without(multipartContents[n], c)
      BY <2>1, RemoveAllIsWithout
    <2>3. FP!Without(multipartContents[n], c) = F!Without(multipartContents[n], c)
      BY DEF FP!Without, F!Without, FP!Members, F!Members
    <2> QED
      BY <1>1, <1>2, <2>1, <2>2, <2>3
  <1>3. CASE bodyAsMessage[n] # Null
    <2>1. Contents(n) = <<bodyAsMessage[n]>> /\ bodyAsMessage[n] # c
      BY <1>3, ListOfContents DEF Enclosed
    <2>2. c \notin F!Members(Contents(n))
      BY <2>1 DEF F!Members
    <2> QED
      BY <1>1, <1>3, <2>2 DEF F!Without
  <1> QED
    BY <1>2, <1>3

\* c is taken out of its list, if it is in one.
LEMMA PrunedStep ==
    ASSUME OwnInv, UNCHANGED bodyAsMessage, NEW c, c \notin Enclosed,
           \A n \in Node : multipartContents'[n] = RemoveAll(multipartContents[n], c)
    PROVE  [n \in Node |-> Contents(n)]' = F!Pruned(c)
  <1>1. \A n \in Node : Contents(n)' = F!Pruned(c)[n]
    BY PrunedLists DEF Contents
  <1>2. F!Pruned(c) = [n \in Node |-> F!Pruned(c)[n]]
    BY DEF F!Pruned
  <1> QED
    BY <1>1, <1>2

\* takeContent(), and setParent(nullptr).
LEMMA TakeOutStep ==
    ASSUME OwnInv, UNCHANGED <<live, held, bodyAsMessage>>, NEW c \in live, c \notin Shared,
           \A n \in Node : multipartContents'[n] = RemoveAll(multipartContents[n], c)
    PROVE  F!TakeOut(c)
  <1>1. c \notin held \cup ({bodyAsMessage[n] : n \in live} \ {Null}) /\ c \notin Enclosed
    BY MessagesNow DEF MessagesShown, Shared
  <1>2. [n \in Node |-> Contents(n)]' = F!Pruned(c)
    BY <1>1, PrunedStep
  <1> QED
    BY <1>1, <1>2 DEF F!TakeOut

\* setParent(p).
LEMMA MoveStep ==
    ASSUME OwnInv, UNCHANGED <<live, held, bodyAsMessage>>, NEW c \in live, c \notin Shared,
           NEW p \in live, bodyAsMessage[p] = Null, p \notin Below(c),
           NEW taken, \A n \in Node : taken[n] = RemoveAll(multipartContents[n], c),
           \A n \in Node : multipartContents'[n] = IF n = p THEN Append(taken[p], c)
                                                   ELSE taken[n]
    PROVE  F!Move(p, c)
  <1>1. c \notin held \cup ({bodyAsMessage[n] : n \in live} \ {Null}) /\ c \notin Enclosed
    BY MessagesNow DEF MessagesShown, Shared
  <1>2. F!MayAdopt(p, c)
    BY <1>1, NoMessageIn, TreeIsBelow DEF F!MayAdopt
  <1>3. p \in Node
    BY DEF OwnInv, TypeOK
  <1> DEFINE P == F!Pruned(c)
  <1>4. \A n \in Node : P[n] = IF bodyAsMessage[n] = Null THEN taken[n] ELSE Contents(n)
    BY <1>1, PrunedLists
  <1>5. \A n \in Node : P[n] = F!Pruned(c)[n]
    OBVIOUS
  <1>6. P = [n \in Node |-> P[n]]
    BY DEF F!Pruned
  <1> HIDE DEF P
  <1>7. \A n \in Node : Contents(n)' = IF n = p THEN Append(P[p], c) ELSE P[n]
    BY <1>3, <1>4 DEF Contents
  <1>8. [n \in Node |-> Contents(n)]' = [P EXCEPT ![p] = Append(@, c)]
    BY <1>3, <1>6, <1>7
  <1> QED
    BY <1>2, <1>8 DEF F!Move, P

LEMMA AdoptImplements ==
    ASSUME OwnInv, NEW p \in Node, NEW c \in Node, AppendContent(p, c) \/ PrependContent(p, c)
    PROVE  F!Graft(p, c)
  <1>1. PICK s \in {Append(multipartContents[p], c), <<c>> \o multipartContents[p]} :
           Adopt(p, c, [multipartContents EXCEPT ![p] = s])
    BY DEF AppendContent, PrependContent
  <1> DEFINE lists == [multipartContents EXCEPT ![p] = s]
  <1>2. /\ p \in live /\ c \in owned /\ p \notin Below(c) /\ bodyAsMessage[p] = Null
        /\ multipartContents' = IF parent[c] # p THEN Relisted(lists, c, p) ELSE lists
        /\ UNCHANGED <<live, held, bodyAsMessage>>
    BY <1>1 DEF Adopt, BodyIsMessage
  <1>3. c \in live /\ c \notin Listed /\ c \notin Shared /\ parent[c] = Null
    BY <1>2, OwnedIsRoot DEF OwnInv
  <1>4. multipartContents[p] \in Seq(Node) /\ IsInjective(multipartContents[p])
        /\ c \notin Elements(multipartContents[p])
    <2>1. multipartContents[p] \in Seq(Node)
      BY DEF OwnInv, TypeOK
    <2>2. IsInjective(multipartContents[p])
      BY DEF OwnInv, PointersInv, NoDuplicates
    <2>3. c \notin Elements(multipartContents[p])
      BY <1>3 DEF Listed
    <2> QED
      BY <2>1, <2>2, <2>3
  <1>5. Elements(s) = Elements(multipartContents[p]) \cup {c}
    <2> DEFINE q == multipartContents[p]
    <2>1. /\ q \in Seq(Node) /\ IsInjective(q) /\ c \notin Elements(q)
          /\ s \in {Append(q, c), <<c>> \o q}
      BY <1>4
    <2> HIDE DEF q
    <2>2. Elements(s) = Elements(q) \cup {c}
      BY <2>1, OneMore
    <2> QED
      BY <2>2 DEF q
  <1>6. lists[p] = s
    BY DEF OwnInv, TypeOK
  <1> HIDE DEF lists
  <1>7. multipartContents' = lists
    BY <1>2, <1>3, <1>5, <1>6 DEF Relisted
  <1> QED
    BY <1>2, <1>3, <1>7, GraftStep DEF lists

LEMMA TakeImplements ==
    ASSUME OwnInv, NEW p \in Node, NEW c \in Node, TakeContent(p, c)
    PROVE  F!TakeOut(c)
  <1>1. /\ c \in Elements(multipartContents[p]) /\ UNCHANGED <<live, held, bodyAsMessage>>
        /\ multipartContents' = [multipartContents EXCEPT ![p] = RemoveAll(@, c)]
    BY DEF TakeContent
  <1>2. c \in live /\ c \notin Shared /\ \A n \in Node \ {p} : c \notin Elements(multipartContents[n])
    BY <1>1 DEF OwnInv, PointersInv, ChildrenAgree, OwnersPartition, Listed
  <1>3. \A n \in Node : multipartContents'[n] = RemoveAll(multipartContents[n], c)
    <2>1. \A n \in Node : multipartContents'[n] = IF n = p THEN RemoveAll(multipartContents[p], c)
                                                  ELSE multipartContents[n]
      BY <1>1 DEF OwnInv, TypeOK
    <2>2. \A n \in Node \ {p} : RemoveAll(multipartContents[n], c) = multipartContents[n]
      BY <1>2 DEF RemoveAll
    <2> QED
      BY <2>1, <2>2
  <1> QED
    BY <1>1, <1>2, <1>3, TakeOutStep

LEMMA SetParentImplements ==
    ASSUME OwnInv, NEW c \in Node, NEW p \in Node \cup {Null}, SetParent(c, p)
    PROVE  \/ F!TakeOut(c)
           \/ p \in Node /\ F!Move(p, c)
  <1> DEFINE old == parent[c]
             taken == IF old # Null /\ c \in Children(old)
                      THEN [multipartContents EXCEPT ![old] = RemoveAll(@, c)]
                      ELSE multipartContents
             lists == Relisted(multipartContents, c, p)
  <1>0. Null \notin Node /\ live \subseteq Node /\ TypeOK /\ PointersInv
    BY ConstantsAssumption DEF OwnInv, TypeOK
  <1>1. /\ c \in owned \/ \E q \in live : c \in Elements(multipartContents[q])
        /\ p \in live \cup {Null}
        /\ p # Null => p \notin Below(c) /\ c \in Elements(lists[p]) /\ bodyAsMessage[p] = Null
        /\ multipartContents' = lists
        /\ UNCHANGED <<live, held, bodyAsMessage>>
    BY DEF SetParent
  <1>2. c \in live /\ c \notin Shared
    BY <1>0, <1>1 DEF Listed, PointersInv, OwnersPartition
  <1>3. \A n \in Node \ {old} : c \notin Elements(multipartContents[n])
    BY <1>0 DEF PointersInv, ChildrenAgree
  <1>4. taken \in [Node -> Seq(Node)]
        /\ \A n \in Node : taken[n] = RemoveAll(multipartContents[n], c)
    <2>1. CASE old # Null /\ c \in Children(old)
      <3>1. old \in Node
        BY <1>0, <2>1 DEF TypeOK
      <3>2. taken = [multipartContents EXCEPT ![old] = RemoveAll(@, c)]
        BY <2>1
      <3>3. RemoveAll(multipartContents[old], c) \in Seq(Node)
        BY <1>0, <3>1, RemoveAllType DEF TypeOK
      <3>4. \A n \in Node \ {old} : RemoveAll(multipartContents[n], c) = multipartContents[n]
        BY <1>3 DEF RemoveAll
      <3> HIDE DEF taken, old
      <3> QED
        BY <1>0, <3>1, <3>2, <3>3, <3>4 DEF TypeOK
    <2>2. CASE ~(old # Null /\ c \in Children(old))
      <3>1. \A n \in Node : c \notin Elements(multipartContents[n])
        BY <1>0, <1>3, <2>2, OneContainer
      <3> QED
        BY <1>0, <2>2, <3>1 DEF TypeOK, RemoveAll
    <2> QED
      BY <2>1, <2>2
  <1>5. lists = IF /\ p # Null
                   /\ bodyAsMessage[p] # Null \/ taken[p] # <<>>
                   /\ c \notin Elements(taken[p]) \cup {bodyAsMessage[p]}
                THEN [taken EXCEPT ![p] = Append(@, c)] ELSE taken
    BY DEF Relisted
  <1> HIDE DEF taken, lists
  <1>6. CASE p = Null
    <2>1. multipartContents' = taken
      BY <1>1, <1>5, <1>6
    <2> QED
      BY <1>1, <1>2, <1>4, <2>1, TakeOutStep
  <1>7. CASE p # Null
    <2>1. p \in live /\ p \in Node /\ bodyAsMessage[p] = Null /\ p \notin Below(c)
      BY <1>0, <1>1, <1>7
    <2>2. c \notin Elements(taken[p])
      <3>1. IsInjective(multipartContents[p]) /\ multipartContents[p] \in Seq(Node)
        BY <1>0, <2>1 DEF PointersInv, NoDuplicates, TypeOK
      <3> QED
        BY <1>4, <2>1, <3>1, RemoveAllOne
    <2>3. multipartContents' = [taken EXCEPT ![p] = Append(@, c)]
      BY <1>1, <1>5, <1>7, <2>1, <2>2
    <2>4. \A n \in Node : multipartContents'[n] = IF n = p THEN Append(taken[p], c) ELSE taken[n]
      BY <1>4, <2>1, <2>3
    <2> QED
      BY <1>1, <1>2, <1>4, <2>1, <2>4, MoveStep
  <1> QED
    BY <1>6, <1>7

\* The encapsulated message that parse() makes.
LEMMA MessageImplements ==
    ASSUME OwnInv, OwnInv', NEW m \in Node, ParseMessage(m)
    PROVE  F!Enclose(Top.node, m)
  <1> SUFFICES ASSUME NEW n, n = Top.node PROVE F!Enclose(n, m)
    OBVIOUS
  <1>0. calls # <<>> /\ Top.pc = "read"
    BY DEF ParseMessage
  <1>1. /\ n \in live /\ n \in Node /\ m \notin live /\ live' = live \cup {m}
        /\ bodyAsMessage' = [bodyAsMessage EXCEPT ![n] = m]
        /\ UNCHANGED <<held, multipartContents>>
    BY <1>0, CallNodes DEF ParseMessage
  <1>2. multipartContents[n] = <<>> /\ bodyAsMessage[n] = Null
    BY <1>0, CallsInv DEF OwnInv, CallOK
  <1> DEFINE K == [k \in Node |-> Contents(k)]
  <1>3. /\ \A k \in Node : Contents(k)' = IF k = n THEN <<m>> ELSE Contents(k)
        /\ Contents(n) = <<>>
    BY <1>1, <1>2, ConstantsAssumption DEF Contents, OwnInv, TypeOK
  <1>4. K' = [K EXCEPT ![n] = <<m>>] /\ K[n] = <<>>
    BY <1>1, <1>3
  <1>5. Shared' = Shared \cup {m}
    <2>1. \A k \in Node : bodyAsMessage'[k] = IF k = n THEN m ELSE bodyAsMessage[k]
      BY <1>1 DEF OwnInv, TypeOK
    <2> QED
      BY <1>1, <1>2, <2>1, ConstantsAssumption DEF Shared, Enclosed
  <1>6. (held \cup ({bodyAsMessage[k] : k \in live} \ {Null}))'
        = held \cup ({bodyAsMessage[k] : k \in live} \ {Null}) \cup {m}
    BY <1>5, MessagesNow, MessagesNext DEF MessagesShown
  <1> QED
    BY <1>1, <1>4, <1>6 DEF F!Enclose

\* The end of a turn of parseMultipart().
LEMMA AppendImplements ==
    ASSUME OwnInv, AppendPart
    PROVE  F!Graft(Top.node, Top.kid)
  <1> SUFFICES ASSUME NEW n, n = Top.node, NEW c, c = Top.kid PROVE F!Graft(n, c)
    OBVIOUS
  <1> DEFINE lists == [multipartContents EXCEPT ![n] = Append(@, c)]
  <1>1. /\ calls # <<>> /\ c # Null
        /\ multipartContents' = IF parent[c] # n THEN Relisted(lists, c, n) ELSE lists
        /\ UNCHANGED <<live, held, bodyAsMessage>>
    BY DEF AppendPart
  <1>2. /\ n \in live /\ n \in Node /\ c \in live /\ c # n /\ bodyAsMessage[n] = Null
        /\ parent[c] = n \/ (parent[c] = Null /\ \A d \in live : parent[d] # c)
    BY <1>1, CallsInv, CallNodes DEF OwnInv, CallOK
  <1>3. c \in Pending
    BY <1>1, CallsInv DEF OwnInv
  <1>4. c \notin Listed /\ c \notin Shared
    BY <1>3 DEF OwnInv, PointersInv, OwnersPartition
  <1>5. multipartContents' = lists
    <2>1. CASE parent[c] = n
      BY <1>1, <2>1
    <2>2. CASE parent[c] = Null
      <3>1. lists[n] = Append(multipartContents[n], c)
            /\ multipartContents[n] \in Seq(Node) /\ c \in Node
        BY <1>2 DEF OwnInv, TypeOK
      <3>2. c \in Elements(lists[n])
        <4> DEFINE s == multipartContents[n]
        <4>1. /\ s \in Seq(Node) /\ IsInjective(s) /\ c \notin Elements(s)
          BY <1>2, <1>4, <3>1 DEF OwnInv, PointersInv, NoDuplicates, Listed
        <4> DEFINE t == Append(s, c)
        <4>2. c \in Node /\ t \in {Append(s, c), <<c>> \o s}
          BY <3>1
        <4> HIDE DEF s, t
        <4>3. Elements(t) = Elements(s) \cup {c}
          BY <4>1, <4>2, OneMore
        <4> QED
          BY <3>1, <4>3 DEF s, t
      <3> HIDE DEF lists
      <3>3. Relisted(lists, c, n) = lists
        BY <2>2, <3>2 DEF Relisted
      <3> QED
        BY <1>1, <3>3
    <2> QED
      BY <1>2, <2>1, <2>2
  <1>6. n \notin Below(c)
    <2>1. CASE parent[c] = n
      <3>1. PICK X \in SUBSET live : n \notin X /\ DownClosed(X, {n})
        BY <1>2 DEF OwnInv, PointersInv, NoLoop
      <3>2. c \in X
        BY <1>2, <2>1, <3>1 DEF DownClosed
      <3>3. \A m \in X : Children(m) \subseteq X
        BY <3>1, ListOfContents DEF DownClosed, OwnInv, TypeOK
      <3> QED
        BY <1>2, <3>1, <3>2, <3>3, BelowProperties
    <2>2. CASE \A d \in live : parent[d] # c
      <3>1. Children(c) = {}
        BY <1>2, <2>2, ListOfContents DEF OwnInv, TypeOK
      <3>2. {c} \in SUBSET live /\ c \in {c} /\ \A m \in {c} : Children(m) \subseteq {c}
        BY <1>2, <3>1
      <3>3. Below(c) \subseteq {c}
        BY <1>2, <3>2, BelowProperties
      <3> QED
        BY <1>2, <3>3
    <2> QED
      BY <1>2, <2>1, <2>2
  <1>7. multipartContents' = [multipartContents EXCEPT ![n] = Append(multipartContents[n], c)]
    BY <1>2, <1>5 DEF OwnInv, TypeOK
  <1> QED
    BY <1>1, <1>2, <1>4, <1>6, <1>7, GraftStep

-----------------------------------------------------------------------------
(* Steps that delete objects. *)

LEMMA ChildBelow ==
    ASSUME OwnInv, NEW n \in live, NEW x \in Below(n), NEW k \in Children(x)
    PROVE  k \in Below(n) /\ k # n /\ parent[k] = x /\ k \in live /\ x \in live
  <1>1. x \in live /\ x \in Node /\ n \in Node /\ k \in Below(n)
    BY BelowProperties DEF OwnInv, TypeOK
  <1>2. parent[k] = x /\ k \in live
    BY <1>1, ListOfContents
  <1>3. CASE x # n
    <2>1. n \notin Below(x)
      BY <1>3, BelowIsTree
    <2>2. k \in Below(x)
      BY <1>1, BelowProperties
    <2> QED
      BY <1>1, <1>2, <2>1, <2>2
  <1>4. CASE x = n
    <2>1. PICK X \in SUBSET live : n \notin X /\ DownClosed(X, {n})
      BY DEF OwnInv, PointersInv, NoLoop
    <2>2. k \in X
      BY <1>2, <1>4, <2>1 DEF DownClosed
    <2> QED
      BY <1>1, <1>2, <2>1, <2>2
  <1> QED
    BY <1>3, <1>4

\* The destructors, which follow the owning pointers, destroy what is below n
\* but for the messages somebody holds and what is below those.
LEMMA DoomedIsTree ==
    ASSUME OwnInv, NEW n \in live, NEW S, NEW C,
           (S = {n} /\ C = {}) \/ (S = {} /\ C = {n}),
           NEW kept, kept = (held \ S) \cap (Below(n) \ C)
    PROVE  Doomed(S, C) = (Below(n) \ C) \ UNION {Below(h) : h \in kept}
  <1> DEFINE T == Below(n) \ C
             U == UNION {Below(h) : h \in kept}
             D == Doomed(S, C)
             X == T \ U
  <1>0. /\ S \subseteq live /\ C \subseteq live /\ held \subseteq Shared /\ TypeOK /\ PointersInv
        /\ live \subseteq Node /\ n \in Below(n) /\ Below(n) \subseteq live
    BY BelowProperties DEF OwnInv, TypeOK, Shared
  <1>1. /\ S \subseteq D /\ D \subseteq live
        /\ \A x \in D \cup C : Elements(multipartContents[x]) \subseteq D
        /\ \A m \in Enclosed \ held : parent[m] \in D \cup C => m \in D
        /\ \A Z \in SUBSET live : S \subseteq Z /\ Closed(Z, C) => D \subseteq Z
    <2>1. S \subseteq D /\ D \subseteq live
      BY <1>0, DoomedProperties
    <2>2. \A x \in D \cup C : Elements(multipartContents[x]) \subseteq D
      BY <1>0, DoomedProperties
    <2>3. \A m \in Enclosed \ held : parent[m] \in D \cup C => m \in D
      BY <1>0, DoomedProperties
    <2>4. \A Z \in SUBSET live : S \subseteq Z /\ Closed(Z, C) => D \subseteq Z
      <3>1. TypeOK /\ PointersInv /\ S \subseteq live /\ C \subseteq live
        BY <1>0
      <3>2. \A Z \in SUBSET live : S \subseteq Z /\ Closed(Z, C) => Doomed(S, C) \subseteq Z
        BY <3>1, DoomedProperties, Zenon
      <3> QED
        BY <3>2
    <2> QED
      BY <2>1, <2>2, <2>3, <2>4
  <1> HIDE DEF D
  <1>2. ASSUME NEW h \in kept
        PROVE  h \in live /\ h \in Below(n) /\ h # n /\ h \in held /\ n \notin Below(h)
    <2>1. h \in Below(n) /\ h # n /\ h \in held /\ h \in live
      BY <1>0
    <2> QED
      BY <2>1, BelowIsTree
  <1>3. n \notin U
    BY <1>2
  <1>4. ASSUME NEW k \in Below(n), NEW x \in Below(n), k \in Children(x), k \in U, x \notin U
        PROVE  k \in held
    <2>1. PICK h \in kept : k \in Below(h)
      BY <1>4
    <2>2. parent[k] = x
      BY <1>4, ChildBelow
    <2>3. CASE k = h
      BY <1>2, <2>3
    <2>4. CASE k # h
      <3>1. parent[k] \in Below(h)
        BY <1>2, <2>1, <2>4, BelowIsTree
      <3> QED
        BY <1>4, <2>2, <3>1
    <2> QED
      BY <2>3, <2>4
  <1>5. \A x \in X \cup C : x \in Below(n) /\ x \notin U
    BY <1>0, <1>3
  <1>6. ASSUME NEW x \in X \cup C, NEW k \in Elements(multipartContents[x]) PROVE k \in X
    <2>1. x \in Below(n) /\ x \notin U /\ x \in Node
      BY <1>0, <1>5
    <2>2. k \in Children(x) /\ k \notin held
      BY <1>0, <2>1, OneContainer DEF PointersInv, OwnersPartition, Listed
    <2>3. k \in Below(n) /\ k # n
      BY <2>1, <2>2, ChildBelow
    <2> QED
      BY <1>4, <2>1, <2>2, <2>3
  <1>7. ASSUME NEW m \in live \ (X \cup held), Holders(m) # {}, Holders(m) \subseteq X \cup C
        PROVE  FALSE
    <2>1. m \in Node /\ m \in Enclosed
      BY <1>0, <1>7, HoldersOf
    <2>2. parent[m] \in X \cup C /\ bodyAsMessage[parent[m]] = m /\ m # Null
      BY <1>0, <1>7, <2>1, HoldersOf DEF Enclosed
    <2>3. parent[m] \in Below(n) /\ parent[m] \notin U /\ parent[m] \in Node
      BY <1>0, <1>5, <2>2
    <2>4. m \in Children(parent[m])
      BY <1>0, <2>2, <2>3, OneContainer
    <2>5. m \in Below(n) /\ m # n
      BY <2>3, <2>4, ChildBelow
    <2> QED
      BY <1>4, <1>7, <2>3, <2>4, <2>5
  <1>8. D \subseteq X
    <2>1. Closed(X, C)
      BY <1>6, <1>7 DEF Closed
    <2>2. X \in SUBSET live /\ S \subseteq X
      BY <1>0, <1>3
    <2> QED
      BY <1>1, <2>1, <2>2
  <1>9. X \subseteq D
    <2> DEFINE Y == {y \in Below(n) : y \in D \cup C \cup U}
    <2>1. n \in Y
      BY <1>0, <1>1
    <2>2. ASSUME NEW y \in Y, NEW k \in Children(y) PROVE k \in Y
      <3>1. k \in Below(n) /\ k # n /\ parent[k] = y /\ k \in live /\ y \in live /\ y \in Node
        BY <1>0, ChildBelow
      <3>2. CASE y \in U
        <4>1. PICK h \in kept : y \in Below(h)
          BY <3>2
        <4>2. k \in Below(h)
          BY <1>2, <4>1, BelowProperties
        <4> QED
          BY <3>1, <4>1, <4>2
      <3>3. CASE y \in D \cup C
        <4>1. k \in Elements(multipartContents[y]) \/ k \in Enclosed
          BY <1>0, <3>1, OneContainer DEF Enclosed
        <4>2. CASE k \in held
          <5>1. k \in kept
            BY <3>1, <4>2
          <5>2. k \in Below(k)
            BY <3>1, BelowProperties
          <5> QED
            BY <3>1, <5>1, <5>2
        <4>3. CASE k \notin held
          BY <1>1, <3>1, <3>3, <4>1, <4>3
        <4> QED
          BY <4>2, <4>3
      <3> QED
        BY <3>2, <3>3
    <2>3. Below(n) \subseteq Y
      <3>1. Y \in SUBSET live /\ \A y \in Y : Children(y) \subseteq Y
        BY <1>0, <2>2
      <3> HIDE DEF Y
      <3> QED
        BY <2>1, <3>1, BelowProperties
    <2> QED
      BY <2>3
  <1> QED
    BY <1>8, <1>9 DEF D

LEMMA DoomedOnly ==
    ASSUME OwnInv, NEW n \in live, NEW S, NEW C, NEW D,
           (S = {n} /\ C = {}) \/ (S = {} /\ C = {n}), D = Doomed(S, C)
    PROVE  /\ S \subseteq D /\ D \subseteq live
           /\ \A m \in Enclosed \ held : parent[m] \in D \cup C => m \in D
           /\ \A x \in D \ S : x \notin held /\ parent[x] \in D \cup C
  <1>1. S \subseteq live /\ C \subseteq live /\ TypeOK /\ PointersInv
    BY DEF OwnInv
  <1> QED
    BY <1>1, DoomedProperties

\* The destructors run: the objects of S (at most one) are deleted, those of C
\* lose what is below them, D dies with them; T is what is below n but for C.
Destroys(n, S, C, D, T) ==
    /\ (S = {n} /\ C = {}) \/ (S = {} /\ C = {n})
    /\ S \cap Enclosed = {} /\ D = Doomed(S, C) /\ T = Below(n) \ C
    /\ live' = live \ D /\ held' = held \ S
    /\ \A x \in Node : bodyAsMessage'[x] = IF x \in D \cup C THEN Null ELSE bodyAsMessage[x]

\* What is left when T is discarded, and which of it is shared.
Leaves(n, S, C, T) ==
    /\ \A m : m \in live' <=> \/ m \in live \ T
                              \/ \E h \in (held \ S) \cap T : m \in Below(h)
    /\ Shared' = Shared \cap live'
    /\ n \in live' <=> n \in C

LEMMA DiscardStep ==
    ASSUME OwnInv, NEW n \in live, NEW S, NEW C, NEW D, NEW T, Destroys(n, S, C, D, T)
    PROVE  Leaves(n, S, C, T)
  <1> USE DEF Destroys
  <1> DEFINE kept == (held \ S) \cap T
             U == UNION {Below(h) : h \in kept}
  <1>0. /\ S \subseteq live /\ C \subseteq live /\ TypeOK /\ PointersInv /\ held \subseteq live
        /\ live \subseteq Node /\ Null \notin Node /\ n \in Below(n) /\ Below(n) \subseteq live
    BY BelowProperties, ConstantsAssumption
    DEF OwnInv, TypeOK, PointersInv, OwnersPartition, Shared
  <1>1. D = T \ U
    <2>1. \A k : k = kept => Doomed(S, C) = (Below(n) \ C) \ UNION {Below(h) : h \in k}
      BY DoomedIsTree
    <2> QED
      BY <2>1
  <1>3. /\ S \subseteq D /\ D \subseteq live
        /\ \A m \in Enclosed \ held : parent[m] \in D \cup C => m \in D
        /\ \A x \in D \ S : x \notin held /\ parent[x] \in D \cup C
    BY DoomedOnly
  <1>4. \A h \in kept : h \in live /\ Below(h) \subseteq live /\ F!Tree(h) = Below(h)
    BY <1>0, BelowProperties, TreeIsBelow
  <1> HIDE DEF U
  <1>5. ASSUME NEW m
        PROVE  m \in live' <=> m \in live \ T \/ \E h \in (held \ S) \cap T : m \in Below(h)
    <2>1. m \in U <=> \E h \in (held \ S) \cap T : m \in Below(h)
      BY DEF U
    <2>2. U \subseteq live
      BY <1>4 DEF U
    <2> QED
      BY <1>0, <1>1, <2>1, <2>2
  <1>6. n \in live' <=> n \in C
    BY <1>0, <1>1, <1>3
  <1>7. Shared' = Shared \cap live'
    <2>1. held' \subseteq live' /\ held' \subseteq held
      BY <1>0, <1>3
    <2>2. ASSUME NEW m \in Enclosed' PROVE m \in Enclosed /\ m \in live'
      <3>1. PICK x \in Node : bodyAsMessage'[x] = m /\ m # Null
        BY DEF Enclosed
      <3>2. x \notin D \cup C /\ bodyAsMessage[x] = m
        BY <3>1
      <3>3. m \in Enclosed
        BY <3>1, <3>2 DEF Enclosed
      <3>4. m \in live /\ parent[m] = x
        BY <1>0, <3>1, <3>2 DEF PointersInv, ChildrenAgree
      <3> QED
        BY <1>3, <3>2, <3>3, <3>4
    <2>3. ASSUME NEW m \in Enclosed \cap live' PROVE m \in held' \cup Enclosed'
      <3>1. m \in live /\ parent[m] \in Node /\ bodyAsMessage[parent[m]] = m /\ m # Null
        BY <1>0, HoldersOf DEF Enclosed
      <3>2. CASE parent[m] \in D \cup C
        BY <1>3, <3>2
      <3>3. CASE parent[m] \notin D \cup C
        <4>1. bodyAsMessage'[parent[m]] = m
          BY <3>1, <3>3
        <4> QED
          BY <3>1, <4>1 DEF Enclosed
      <3> QED
        BY <3>2, <3>3
    <2>4. held \cap live' \subseteq held'
      BY <1>3
    <2> QED
      BY <2>1, <2>2, <2>3, <2>4 DEF Shared
  <1> QED
    BY <1>5, <1>6, <1>7 DEF Leaves

\* Content::clear() and the first step of parse().
LEMMA ClearImplements ==
    ASSUME OwnInv, OwnInv', NEW n \in live, Release({}, {n})
    PROVE  F!Clear(n)
  <1> SUFFICES ASSUME NEW D, D = Doomed({}, {n}) PROVE F!Clear(n)
    OBVIOUS
  <1>1. ReleasePointers({}, {n}) /\ held' = held
    BY DEF Release
  <1>2. /\ live' = live \ D /\ n \in live'
        /\ \A m : m \in live' <=> \/ m \in live \ (Below(n) \ {n})
                                 \/ \E h \in held \cap (Below(n) \ {n}) : m \in Below(h)
        /\ Shared' = Shared \cap live'
    <2>1. /\ live' = live \ D /\ held' = held \ {}
          /\ bodyAsMessage' = [x \in Node |-> IF x \in D \cup {n} THEN Null ELSE bodyAsMessage[x]]
      BY <1>1 DEF ReleasePointers
    <2>2. ASSUME NEW S, S = {}, NEW C, C = {n}, NEW T, T = Below(n) \ C
          PROVE  Leaves(n, S, C, T)
      <3>1. /\ (S = {n} /\ C = {}) \/ (S = {} /\ C = {n})
            /\ S \cap Enclosed = {} /\ D = Doomed(S, C)
            /\ live' = live \ D /\ held' = held \ S
        BY <2>1, <2>2
      <3>2. \A x \in Node : bodyAsMessage'[x] = IF x \in D \cup C THEN Null ELSE bodyAsMessage[x]
        BY <2>1, <2>2
      <3>3. Destroys(n, S, C, D, T)
        BY <2>2, <3>1, <3>2 DEF Destroys
      <3> QED
        BY <3>3, DiscardStep
    <2>3. Leaves(n, {}, {n}, Below(n) \ {n})
      BY <2>2
    <2> QED
      BY <2>1, <2>3 DEF Leaves
  <1> DEFINE E == D \cup {n}
  <1>3. /\ multipartContents' = ListsAfter({}, E)
        /\ bodyAsMessage' = [m \in Node |-> IF m \in E THEN Null ELSE bodyAsMessage[m]]
    BY <1>1 DEF ReleasePointers
  <1>4. ASSUME NEW m \in Node
        PROVE  Contents(m)' = IF m \in live' \ {n} THEN Contents(m) ELSE <<>>
    <2>1. multipartContents'[m] = IF m \in E THEN <<>> ELSE multipartContents[m]
      BY <1>3 DEF ListsAfter
    <2>2. bodyAsMessage'[m] = IF m \in E THEN Null ELSE bodyAsMessage[m]
      BY <1>3
    <2>3. m \notin live => multipartContents[m] = <<>> /\ bodyAsMessage[m] = Null
      BY DEF OwnInv, PointersInv, FreeIsBlank
    <2> QED
      BY <1>2, <2>1, <2>2, <2>3 DEF Contents
  <1>5. F!Tree(n) = Below(n)
    BY TreeIsBelow
  <1> DEFINE T == F!Tree(n) \ {n}
             M == held \cup ({bodyAsMessage[m] : m \in live} \ {Null})
  <1>6. F!Discard(T)
    <2>1. M = Shared /\ M' = Shared'
      BY MessagesNow, MessagesNext DEF MessagesShown
    <2> DEFINE shared == held \cap (Below(n) \ {n})
    <2>2. live' = (live \ T) \cup UNION {F!Tree(m) : m \in shared}
      <3>1. \A h \in shared : F!Tree(h) = Below(h)
        BY TreeIsBelow, BelowProperties
      <3> QED
        BY <1>2, <1>5, <3>1
    <2>3. shared \in SUBSET (T \cap M) /\ M' = M \cap live'
      BY <1>2, <1>5, <2>1
    <2> QED
      BY <2>2, <2>3 DEF F!Discard
  <1> DEFINE K == [m \in Node |-> Contents(m)]
  <1>7. K' = [m \in Node |-> IF m \in live' \ {n} THEN K[m] ELSE <<>>]
    BY <1>4
  <1> QED
    BY <1>6, <1>7 DEF F!Clear

\* ~Content(), of an object that is no encapsulated message (any more).
LEMMA DeleteImplements ==
    ASSUME OwnInv, OwnInv', NEW n \in live, n \notin Enclosed, n \notin Listed \/ n \notin Shared,
           ReleasePointers({n}, {}), held' = held \ {n}
    PROVE  F!Delete(n)
  <1> SUFFICES ASSUME NEW D, D = Doomed({n}, {}) PROVE F!Delete(n)
    OBVIOUS
  <1> DEFINE P == F!Pruned(n)
  <1>1. /\ live' = live \ D /\ n \notin live'
        /\ \A m : m \in live' <=> \/ m \in live \ Below(n)
                                 \/ \E h \in (held \ {n}) \cap Below(n) : m \in Below(h)
        /\ Shared' = Shared \cap live'
    <2>1. /\ live' = live \ D /\ Below(n) = Below(n) \ {}
          /\ bodyAsMessage' = [x \in Node |-> IF x \in D \cup {} THEN Null ELSE bodyAsMessage[x]]
      BY DEF ReleasePointers
    <2>2. ASSUME NEW S, S = {n}, NEW C, C = {}, NEW T, T = Below(n) \ C
          PROVE  Leaves(n, S, C, T)
      <3>1. /\ (S = {n} /\ C = {}) \/ (S = {} /\ C = {n})
            /\ S \cap Enclosed = {} /\ D = Doomed(S, C)
            /\ live' = live \ D /\ held' = held \ S
        BY <2>1, <2>2
      <3>2. \A x \in Node : bodyAsMessage'[x] = IF x \in D \cup C THEN Null ELSE bodyAsMessage[x]
        BY <2>1, <2>2
      <3>3. Destroys(n, S, C, D, T)
        BY <2>2, <3>1, <3>2 DEF Destroys
      <3> QED
        BY <3>3, DiscardStep
    <2>3. Leaves(n, {n}, {}, Below(n) \ {})
      BY <2>2
    <2> QED
      BY <2>1, <2>3 DEF Leaves
  <1>2. /\ multipartContents' = ListsAfter({n}, D \cup {})
        /\ bodyAsMessage' = [m \in Node |-> IF m \in D \cup {} THEN Null ELSE bodyAsMessage[m]]
    BY DEF ReleasePointers
  <1>3. n \in Node /\ live \subseteq Node
    BY DEF OwnInv, TypeOK
  <1>4. ASSUME NEW m \in Node
        PROVE  Contents(m)' = IF m \in live' THEN P[m] ELSE <<>>
    <2>1. P[m] = IF bodyAsMessage[m] = Null THEN RemoveAll(multipartContents[m], n)
                 ELSE Contents(m)
      BY PrunedLists
    <2>2. multipartContents'[m] = IF m \in D THEN <<>>
                                  ELSE RemoveAll(multipartContents[m], n)
      <3>1. multipartContents'[m] =
               IF m \in D THEN <<>>
               ELSE IF m = parent[n] THEN RemoveAll(multipartContents[m], n)
               ELSE multipartContents[m]
        BY <1>2 DEF ListsAfter
      <3>2. m # parent[n] => RemoveAll(multipartContents[m], n) = multipartContents[m]
        BY DEF OwnInv, PointersInv, ChildrenAgree, RemoveAll
      <3> QED
        BY <3>1, <3>2
    <2>3. bodyAsMessage'[m] = IF m \in D THEN Null ELSE bodyAsMessage[m]
      BY <1>2
    <2>4. m \notin live => /\ bodyAsMessage[m] = Null
                           /\ RemoveAll(multipartContents[m], n) = <<>>
      <3>1. Elements(<<>>) = {}
        BY DEF Elements
      <3> QED
        BY <3>1 DEF OwnInv, PointersInv, FreeIsBlank, RemoveAll
    <2> HIDE DEF P
    <2> QED
      BY <1>1, <2>1, <2>2, <2>3, <2>4 DEF Contents
  <1>5. F!Tree(n) = Below(n)
    BY TreeIsBelow
  <1>6. n \in F!Roots \/ n \in live \ (held \cup ({bodyAsMessage[m] : m \in live} \ {Null}))
    BY RootOf, MessagesNow DEF MessagesShown
  <1> DEFINE T == F!Tree(n)
             M == held \cup ({bodyAsMessage[m] : m \in live} \ {Null})
  <1>7. F!Discard(T)
    <2>1. M = Shared /\ M' = Shared'
      BY MessagesNow, MessagesNext DEF MessagesShown
    <2> DEFINE shared == (held \ {n}) \cap Below(n)
    <2>2. live' = (live \ T) \cup UNION {F!Tree(m) : m \in shared}
      <3>1. \A h \in shared : F!Tree(h) = Below(h)
        BY TreeIsBelow, BelowProperties
      <3> QED
        BY <1>1, <1>5, <3>1
    <2>3. shared \in SUBSET (T \cap M) /\ M' = M \cap live'
      BY <1>1, <1>5, <2>1
    <2> QED
      BY <2>2, <2>3 DEF F!Discard
  <1> DEFINE K == [m \in Node |-> Contents(m)]
  <1>8. K' = [m \in Node |-> IF m \in live' THEN F!Pruned(n)[m] ELSE <<>>]
    BY <1>4
  <1> QED
    BY <1>1, <1>6, <1>7, <1>8 DEF F!Delete

-----------------------------------------------------------------------------
(* clone(). *)

\* A list, of distinct places in memory or not, is a list of its elements.
LEMMA ListWithin ==
    ASSUME NEW S, NEW s \in Seq(S), NEW T, Elements(s) \subseteq T
    PROVE  s \in Seq(T)
  <1>1. \A i \in 1 .. Len(s) : s[i] \in T
    BY InElements
  <1>2. s = [i \in 1 .. Len(s) |-> s[i]] /\ Len(s) \in Nat
    OBVIOUS
  <1> QED
    BY <1>1, <1>2

\* The careful caller clones what has no encapsulated message: all that is
\* below the object is copied.
LEMMA CopiedIsTree ==
    ASSUME OwnInv, NEW n \in live, \A m \in Copied(n) : bodyAsMessage[m] = Null
    PROVE  /\ Copied(n) = Below(n) /\ Copied(n) \subseteq live
           /\ (Copied(n) \ {n}) \cap Shared = {}
  <1>0. /\ n \in Node /\ n \in Copied(n) /\ Copied(n) \subseteq live /\ live \subseteq Node
        /\ \A m \in Copied(n) : Elements(multipartContents[m]) \subseteq Copied(n)
    BY CopiedProperties, CopiedBelow DEF OwnInv, TypeOK
  <1>1. \A m \in Copied(n) : Children(m) = Elements(multipartContents[m])
    BY <1>0, ListOfContents
  <1>2. Below(n) \subseteq Copied(n)
    BY <1>0, <1>1, BelowProperties
  <1>3. Copied(n) \subseteq Below(n)
    <2>1. /\ n \in Below(n) /\ Below(n) \in SUBSET Node
          /\ \A m \in Below(n) : Elements(multipartContents[m]) \subseteq Below(n)
      BY <1>0, BelowProperties, OneContainer DEF OwnInv
    <2> QED
      BY <2>1 DEF Copied
  <1>4. ASSUME NEW m \in Copied(n) \ {n} PROVE m \notin Shared
    <2>1. parent[m] \in Copied(n) /\ m \in Children(parent[m])
      BY <1>2, <1>3, BelowIsTree
    <2>2. m \in Listed
      BY <1>0, <1>1, <2>1 DEF Listed
    <2> QED
      BY <2>2 DEF OwnInv, PointersInv, OwnersPartition
  <1> QED
    BY <1>0, <1>2, <1>3, <1>4

LEMMA CopyImplements ==
    ASSUME OwnInv, CarefulCaller, NEW n \in Node, Clone(n)
    PROVE  F!Copy(n)
  <1>1. PICK new \in [Copied(n) -> Node \ live], Of \in [Node -> Node] : CopyMade(n, new, Of)
    BY CloneShape DEF OwnInv
  <1>2. n \in live /\ \A m \in Copied(n) : bodyAsMessage[m] = Null
    BY DEF Clone, CarefulCaller
  <1>3. /\ Copied(n) = Below(n) /\ Copied(n) \subseteq live /\ live \subseteq Node
        /\ (Copied(n) \ {n}) \cap Shared = {} /\ F!Tree(n) = Copied(n)
        /\ \A m \in Copied(n) : Elements(multipartContents[m]) \subseteq Copied(n)
    BY <1>2, CopiedIsTree, TreeIsBelow, CopiedProperties DEF OwnInv, TypeOK
  <1> DEFINE image == {new[m] : m \in Copied(n)}
             original == [k \in image |-> Of[k]]
             K == [m \in Node |-> Contents(m)]
             M == held \cup ({bodyAsMessage[m] : m \in live} \ {Null})
  <1>4. /\ \A m \in Copied(n) : new[m] \in image /\ Of[new[m]] = m
        /\ \A k \in image : Of[k] \in Copied(n) /\ new[Of[k]] = k /\ k \in Node /\ k \notin live
        /\ live' = live \cup image /\ held' = held
    BY <1>1 DEF CopyMade
  <1>5. /\ \A k \in Node \ image : multipartContents'[k] = multipartContents[k]
                                   /\ bodyAsMessage'[k] = bodyAsMessage[k]
        /\ \A k \in image : bodyAsMessage'[k] = Null
    BY <1>1 DEF CopyMade
  <1>6. \A k \in image : multipartContents'[k] =
           [i \in DOMAIN multipartContents[Of[k]] |-> new[multipartContents[Of[k]][i]]]
    BY <1>1 DEF CopyMade
  <1> HIDE DEF image
  <1>7. \A k \in Node \ live : bodyAsMessage[k] = Null
    BY DEF OwnInv, PointersInv, FreeIsBlank
  <1>8. M' = M
    BY <1>3, <1>4, <1>5, <1>7
  <1>9. \A k \in Node \ image : Contents(k)' = Contents(k)
    BY <1>5 DEF Contents
  <1>10. ASSUME NEW k \in image
         PROVE  /\ Contents(k)' \in Seq(image)
                /\ Len(Contents(k)') = Len(Contents(Of[k]))
                /\ \A i \in DOMAIN Contents(k)' : Of[Contents(k)'[i]] = Contents(Of[k])[i]
    <2> DEFINE s == multipartContents[Of[k]]
    <2>1. Of[k] \in Copied(n) /\ Of[k] \in Node /\ Contents(Of[k]) = s /\ s \in Seq(Node)
      BY <1>2, <1>3, <1>4 DEF Contents, OwnInv, TypeOK
    <2>2. DOMAIN s = 1 .. Len(s) /\ Len(s) \in Nat /\ \A i \in DOMAIN s : s[i] \in Copied(n)
      BY <1>3, <2>1, InElements
    <2>3. Contents(k)' = [i \in DOMAIN s |-> new[s[i]]]
      BY <1>5, <1>6 DEF Contents
    <2> HIDE DEF s
    <2>4. \A i \in 1 .. Len(s) : new[s[i]] \in image /\ Of[new[s[i]]] = s[i]
      BY <1>4, <2>2
    <2> QED
      BY <2>1, <2>2, <2>3, <2>4
  <1>11. K' \in [Node -> Seq(live')]
    <2>1. ASSUME NEW k \in Node \ image PROVE Contents(k)' \in Seq(live')
      <3>1. Contents(k) \in Seq(Node) /\ Elements(Contents(k)) \subseteq live'
        BY <1>4, ListOfContents
      <3> QED
        BY <1>9, <3>1, ListWithin
    <2>2. ASSUME NEW k \in image PROVE Contents(k)' \in Seq(live')
      <3>1. image \subseteq live'
        BY <1>4
      <3> QED
        BY <1>10, <3>1
    <2> QED
      BY <2>1, <2>2
  <1>12. n \in live /\ (F!Tree(n) \ {n}) \cap M = {}
    BY <1>2, <1>3, MessagesNow DEF MessagesShown
  <1>13. original \in [image -> F!Tree(n)] /\ image \in SUBSET (Node \ live)
    BY <1>3, <1>4
  <1>14. /\ \A m \in F!Tree(n) : \E copy \in image : original[copy] = m
         /\ \A c, d \in image : original[c] = original[d] => c = d
    BY <1>3, <1>4
  <1>15. \A m \in Node \ image : K'[m] = K[m]
    BY <1>9
  <1>16. \A copy \in image :
            /\ K'[copy] \in Seq(image)
            /\ Len(K'[copy]) = Len(K[original[copy]])
            /\ \A i \in DOMAIN K'[copy] : original[K'[copy][i]] = K[original[copy]][i]
    <2> SUFFICES ASSUME NEW k \in image
                 PROVE  /\ K'[k] \in Seq(image)
                        /\ Len(K'[k]) = Len(K[original[k]])
                        /\ \A i \in DOMAIN K'[k] : original[K'[k][i]] = K[original[k]][i]
      OBVIOUS
    <2>1. k \in Node /\ Of[k] \in Node
      BY <1>3, <1>4
    <2>2. K'[k] = Contents(k)' /\ original[k] = Of[k] /\ K[original[k]] = Contents(Of[k])
      BY <2>1
    <2> DEFINE s == Contents(k)'
    <2>3. s \in Seq(image) /\ Len(s) = Len(Contents(Of[k]))
          /\ \A i \in DOMAIN s : Of[s[i]] = Contents(Of[k])[i]
      BY <1>10
    <2>4. \A i \in DOMAIN s : original[s[i]] = Of[s[i]]
      BY <2>3
    <2> HIDE DEF s, original, K
    <2> QED
      BY <2>2, <2>3, <2>4 DEF s
  <1> HIDE DEF original
  <1>17. \E orig \in [image -> F!Tree(n)] :
            /\ \A m \in F!Tree(n) : \E copy \in image : orig[copy] = m
            /\ \A c, d \in image : orig[c] = orig[d] => c = d
            /\ K' \in [Node -> Seq(live')]
            /\ \A m \in Node \ image : K'[m] = K[m]
            /\ \A copy \in image :
                  /\ K'[copy] \in Seq(image)
                  /\ Len(K'[copy]) = Len(K[orig[copy]])
                  /\ \A i \in DOMAIN K'[copy] : orig[K'[copy][i]] = K[orig[copy]][i]
    BY <1>11, <1>13, <1>14, <1>15, <1>16
  <1> QED
    BY <1>4, <1>8, <1>12, <1>13, <1>17 DEF F!Copy

-----------------------------------------------------------------------------
(* Every step. *)

\* The caller's operations.
LEMMA EditImplements ==
    ASSUME OwnInv, OwnInv', CarefulCaller, Edit
    PROVE  F!FNext \/ UNCHANGED F!forest
  <1>0. live \subseteq Node
    BY DEF OwnInv, TypeOK
  <1>1. ASSUME NEW n \in Node, New(n) PROVE F!FNext
    <2>1. n \in Node \ live /\ live' = live \cup {n}
          /\ UNCHANGED <<held, multipartContents, bodyAsMessage>>
      BY <1>1 DEF New, pointers
    <2>2. F!Create(n)
      BY <2>1, CreateStep
    <2> QED
      BY <2>2 DEF F!FNext
  <1>2. ASSUME NEW n \in Node, Delete(n) PROVE F!FNext
    <2>1. n \in owned \cup Listed
      BY <1>0, <1>2 DEF Delete, Listed
    <2>2. n \in live /\ n \notin Shared
      BY <2>1 DEF OwnInv, PointersInv, OwnersPartition
    <2>3. ReleasePointers({n}, {}) /\ held' = held \ {n} /\ n \notin Enclosed
      BY <1>2, <2>2 DEF Delete, Release, Shared
    <2>4. F!Delete(n)
      BY <2>2, <2>3, DeleteImplements
    <2> QED
      BY <2>4 DEF F!FNext
  <1>3. ASSUME NEW n \in Node, Clear(n) PROVE F!FNext
    <2>1. n \in live /\ Release({}, {n})
      BY <1>3 DEF Clear
    <2>2. F!Clear(n)
      BY <2>1, ClearImplements
    <2> QED
      BY <2>2 DEF F!FNext
  <1>4. ASSUME NEW n \in Node, Clone(n) PROVE F!FNext
    <2>1. F!Copy(n)
      BY <1>4, CopyImplements
    <2> QED
      BY <2>1 DEF F!FNext
  <1>5. ASSUME NEW p \in Node, NEW c \in Node,
               AppendContent(p, c) \/ PrependContent(p, c) \/ TakeContent(p, c)
        PROVE  F!FNext
    <2>1. F!Graft(p, c) \/ F!TakeOut(c)
      BY <1>5, AdoptImplements, TakeImplements
    <2> QED
      BY <2>1 DEF F!FNext
  <1>6. ASSUME NEW c \in Node, NEW p \in Node \cup {Null}, SetParent(c, p) PROVE F!FNext
    <2>1. F!TakeOut(c) \/ (p \in Node /\ F!Move(p, c))
      BY <1>6, SetParentImplements
    <2> QED
      BY <2>1 DEF F!FNext
  <1>7. ASSUME NEW n \in Node,
               \/ Assemble(n) \/ \E t \in Inputs : SetContent(n, t)
               \/ \E type \in MimeTypes : SetMimeType(n, type)
               \/ \E f \in BOOLEAN : SetFrozen(n, f)
        PROVE  UNCHANGED F!forest
    <2>1. UNCHANGED <<live, held, pointers>>
      BY <1>7 DEF Assemble, SetContent, SetMimeType, SetFrozen
    <2>2. Shared' = Shared
      BY <2>1 DEF Shared, Enclosed, pointers
    <2> QED
      BY <2>1, <2>2, NoStep
  <1> QED
    BY <1>1, <1>2, <1>3, <1>4, <1>5, <1>6, <1>7 DEF Edit

\* Copying and dropping the shared_ptr to a message.
LEMMA ShareImplements ==
    ASSUME OwnInv, OwnInv', Share
    PROVE  F!FNext \/ UNCHANGED F!forest
  <1>1. ASSUME NEW n \in Node, HoldMessage(n) PROVE UNCHANGED F!forest
    <2>1. /\ bodyAsMessage[n] \in Enclosed /\ held' = held \cup {bodyAsMessage[n]}
          /\ UNCHANGED <<live, pointers>>
      BY <1>1 DEF HoldMessage, Enclosed
    <2>2. Shared' = Shared
      BY <2>1 DEF Shared, Enclosed, pointers
    <2> QED
      BY <2>1, <2>2, NoStep
  <1>2. ASSUME NEW m \in Node, DropMessage(m) PROVE F!FNext \/ UNCHANGED F!forest
    <2>1. m \in held /\ held' = held \ {m} /\ m \in live /\ m \notin Listed
      BY <1>2 DEF DropMessage, OwnInv, PointersInv, OwnersPartition, Shared
    <2>2. CASE Holders(m) # {}
      <3>1. m \in Enclosed
        BY <2>2, HoldersOf DEF OwnInv
      <3>2. UNCHANGED <<live, pointers>>
        BY <1>2, <2>2 DEF DropMessage
      <3>3. Shared' = Shared
        BY <2>1, <3>1, <3>2 DEF Shared, Enclosed, pointers
      <3> QED
        BY <3>2, <3>3, NoStep
    <2>3. CASE Holders(m) = {}
      <3>1. m \notin Enclosed
        BY <2>3, HoldersOf DEF OwnInv
      <3>2. ReleasePointers({m}, {})
        BY <1>2, <2>3 DEF DropMessage
      <3>3. F!Delete(m)
        BY <2>1, <3>1, <3>2, DeleteImplements
      <3> QED
        BY <3>3 DEF F!FNext
    <2> QED
      BY <2>2, <2>3
  <1> QED
    BY <1>1, <1>2 DEF Share

\* The steps of parse().
LEMMA ParseImplements ==
    ASSUME OwnInv, OwnInv', ParseStep
    PROVE  F!FNext \/ UNCHANGED F!forest
  <1>1. CASE ParseText \/ ParseMultipart \/ ParseOther \/ ParseReturn
    <2>1. UNCHANGED <<live, held, pointers>>
      BY <1>1 DEF ParseText, ParseMultipart, ParseOther, ParseReturn
    <2>2. Shared' = Shared
      BY <2>1 DEF Shared, Enclosed, pointers
    <2> QED
      BY <2>1, <2>2, NoStep
  <1>2. CASE ParseClear
    <2> SUFFICES ASSUME NEW n, n = Top.node PROVE F!FNext
      OBVIOUS
    <2>1. calls # <<>> /\ Release({}, {n})
      BY <1>2 DEF ParseClear
    <2>2. n \in live /\ n \in Node
      BY <2>1, CallNodes
    <2>3. F!Clear(n)
      BY <2>1, <2>2, ClearImplements
    <2> QED
      BY <2>2, <2>3 DEF F!FNext
  <1>3. ASSUME NEW m \in Node, ParseMessage(m) PROVE F!FNext
    <2> SUFFICES ASSUME NEW n, n = Top.node PROVE F!FNext
      OBVIOUS
    <2>1. n \in Node
      BY <1>3, CallNodes DEF ParseMessage
    <2>2. F!Enclose(Top.node, m)
      BY <1>3, MessageImplements
    <2>3. F!Enclose(n, m)
      BY <2>2
    <2> QED
      BY <2>1, <2>3 DEF F!FNext
  <1>4. ASSUME NEW c \in Node, ParsePart(c) PROVE F!FNext
    <2>1. c \in Node \ live /\ live' = live \cup {c}
          /\ UNCHANGED <<held, multipartContents, bodyAsMessage>>
      BY <1>4 DEF ParsePart
    <2>2. F!Create(c)
      BY <2>1, CreateStep
    <2> QED
      BY <2>2 DEF F!FNext
  <1>5. CASE AppendPart
    <2> SUFFICES ASSUME NEW n, n = Top.node, NEW c, c = Top.kid PROVE F!FNext
      OBVIOUS
    <2>1. calls # <<>> /\ Top.kid # Null
      BY <1>5 DEF AppendPart
    <2>2. n \in Node /\ c \in Node
      BY <2>1, CallNodes, CallsInv DEF OwnInv, Frame
    <2>3. F!Graft(Top.node, Top.kid)
      BY <1>5, AppendImplements
    <2>4. F!Graft(n, c)
      BY <2>3
    <2> QED
      BY <2>2, <2>4 DEF F!FNext
  <1> QED
    BY <1>1, <1>2, <1>3, <1>4, <1>5 DEF ParseStep

LEMMA StepImplements ==
    ASSUME OwnInv, OwnInv', CarefulCaller, [Next]_vars
    PROVE  [F!FNext]_(F!forest)
  <1>1. ASSUME NEW n \in Node, Parse(n) PROVE UNCHANGED F!forest
    <2>1. UNCHANGED <<live, held, pointers>>
      BY <1>1 DEF Parse
    <2>2. Shared' = Shared
      BY <2>1 DEF Shared, Enclosed, pointers
    <2> QED
      BY <2>1, <2>2, NoStep
  <1>2. CASE UNCHANGED vars
    <2>1. UNCHANGED <<live, held, pointers>>
      BY <1>2 DEF vars
    <2>2. Shared' = Shared
      BY <2>1 DEF Shared, Enclosed, pointers
    <2>3. UNCHANGED F!forest
      BY <2>1, <2>2, NoStep
    <2> QED
      BY <2>3
  <1>3. CASE Next
    <2>1. F!FNext \/ UNCHANGED F!forest
      BY <1>1, <1>3, EditImplements, ShareImplements, ParseImplements DEF Next
    <2> QED
      BY <2>1
  <1> QED
    BY <1>2, <1>3

\* Whatever the careful caller does, also while parse() is working, the objects
\* form ordered trees that change by whole subtrees: an operation grafts,
\* moves, takes out, copies or deletes one and leaves all others as they were,
\* and a deletion spares nothing but the messages that somebody shares.
THEOREM TreeImplementsForest ==
    ASSUME CarefulCaller
    PROVE  Spec => ImplementsForest
  <1>1. Init => F!FInit
    BY DEF Init, F!FInit, Contents
  <1>2. OwnInv /\ OwnInv' /\ [Next]_vars => [F!FNext]_(F!forest)
    BY StepImplements
  <1> QED
    BY <1>1, <1>2, OwnershipInvariant, PTL DEF Spec, ImplementsForest, F!FSpec

\* The contents stay ordered trees: a content is in one list at most, and once,
\* no content is below itself, and an encapsulated message is an only child.
THEOREM ContentsStayTrees ==
    ASSUME CarefulCaller
    PROVE  Spec => []F!IsForest
  <1>1. OwnInv => F!IsForest
    <2> SUFFICES ASSUME OwnInv PROVE F!IsForest
      OBVIOUS
    <2> DEFINE K == [n \in Node |-> Contents(n)]
               M == held \cup ({bodyAsMessage[n] : n \in live} \ {Null})
    <2>0. live \subseteq Node /\ Shared \subseteq live /\ M = Shared
      BY MessagesNow DEF OwnInv, TypeOK, PointersInv, OwnersPartition, MessagesShown
    <2>1. K \in [Node -> Seq(live)]
      <3>1. ASSUME NEW n \in Node PROVE Contents(n) \in Seq(live)
        <4>1. Contents(n) \in Seq(Node) /\ Elements(Contents(n)) \subseteq live
          BY ListOfContents
        <4> QED
          BY <4>1, ListWithin
      <3> QED
        BY <3>1
    <2>2. \A n \in Node \ live : K[n] = <<>>
      BY MessagesAreShared
    <2>3. ASSUME NEW n \in live PROVE F!Cardinality(F!ParentsOf(n)) <= 1
      <3>1. F!ParentsOf(n) \subseteq {parent[n]}
        <4>1. \A p \in live : n \in F!Members(K[p]) => parent[n] = p
          BY <2>0, ListOfContents, MembersAreElements DEF Children
        <4> QED
          BY <4>1 DEF F!ParentsOf
      <3>2. \A S : F!Cardinality(S) = Cardinality(S)
        BY DEF F!Cardinality, Cardinality
      <3>3. \A x : IsFiniteSet({x}) /\ Cardinality({x}) = 1
        BY FS_Singleton
      <3>4. Cardinality(F!ParentsOf(n)) <= Cardinality({parent[n]})
        BY <3>1, <3>3, FS_Subset
      <3> QED
        BY <3>2, <3>3, <3>4
    <2>4. ASSUME NEW n \in live
          PROVE  /\ \A i, j \in DOMAIN K[n] : K[n][i] = K[n][j] => i = j
                 /\ \A c \in F!Members(K[n]) : n \notin F!Tree(c)
                 /\ F!Members(K[n]) \cap M # {} => Len(K[n]) = 1
      <3>1. n \in Node /\ K[n] = Contents(n) /\ F!Members(K[n]) = Children(n)
        BY <2>0, MembersAreElements DEF Children
      <3>2. IsInjective(Contents(n))
        BY <3>1, ListOfContents
      <3>3. ASSUME NEW c \in Children(n) PROVE n \notin F!Tree(c)
        <4>1. n \in Below(n) /\ c \in live /\ c \in Below(n) /\ c # n
          BY BelowProperties, ChildBelow
        <4> QED
          BY <4>1, BelowIsTree, TreeIsBelow
      <3>4. ASSUME Children(n) \cap Shared # {} PROVE Len(Contents(n)) = 1
        <4>1. bodyAsMessage[n] # Null
          BY <2>0, <3>1, <3>4, NoMessageIn, MessagesNow DEF MessagesShown
        <4>2. Contents(n) = <<bodyAsMessage[n]>>
          BY <3>1, <4>1, ListOfContents
        <4> QED
          BY <4>2
      <3> HIDE DEF K, M
      <3> QED
        BY <2>0, <3>1, <3>2, <3>3, <3>4 DEF IsInjective
    <2> QED
      BY <2>0, <2>1, <2>2, <2>3, <2>4 DEF F!IsForest
  <1> QED
    BY <1>1, OwnershipInvariant, PTL

-----------------------------------------------------------------------------
(* Recursion.  Addresses are finitely many, and every content is lower in   *)
(* the tree than its parent; so the recursive functions of ContentIndex are *)
(* defined, and what is said of them can be proved by induction on heights. *)

\* The value of step[d] depends only on what is lower than d.
Descends(step, D, V, h) ==
    /\ step \in [D -> [[D -> V] -> V]]
    /\ \A d \in D : \A f, g \in [D -> V] :
          (\A e \in D : h[e] < h[d] => f[e] = g[e]) => step[d][f] = step[d][g]

LEMMA RecursionIsDefined ==
    ASSUME NEW D, NEW V, NEW step, NEW h \in [D -> Nat], NEW N \in Nat,
           \A d \in D : h[d] <= N, Descends(step, D, V, h), V # {}
    PROVE  \E f \in [D -> V] : f = [d \in D |-> step[d][f]]
  <1>0. /\ step \in [D -> [[D -> V] -> V]]
        /\ \A d \in D : \A f, g \in [D -> V] :
              (\A e \in D : h[e] < h[d] => f[e] = g[e]) => step[d][f] = step[d][g]
    BY DEF Descends
  <1> DEFINE Is(f, k) == \A d \in D : h[d] < k => f[d] = step[d][f]
             S == {k \in Nat : \E f \in [D -> V] : Is(f, k)}
  <1>1. 0 \in S
    <2>1. PICK v \in V : TRUE
      OBVIOUS
    <2>2. [d \in D |-> v] \in [D -> V]
      OBVIOUS
    <2>3. \A f \in [D -> V] : Is(f, 0)
      OBVIOUS
    <2> HIDE DEF Is
    <2> QED
      BY <2>2, <2>3
  <1>2. ASSUME NEW k \in S PROVE k + 1 \in S
    <2>0. k \in Nat
      OBVIOUS
    <2>1. PICK f \in [D -> V] : Is(f, k)
      OBVIOUS
    <2> DEFINE g == [d \in D |-> step[d][f]]
    <2>2. g \in [D -> V] /\ \A d \in D : g[d] = step[d][f]
      BY <1>0
    <2> HIDE DEF g
    <2>3. ASSUME NEW d \in D, h[d] < k + 1 PROVE g[d] = step[d][g]
      <3>1. \A e \in D : h[e] < h[d] => f[e] = g[e]
        <4> SUFFICES ASSUME NEW e \in D, h[e] < h[d] PROVE f[e] = g[e]
          OBVIOUS
        <4>1. h[e] \in Nat /\ h[d] \in Nat
          OBVIOUS
        <4>2. h[e] < k
          BY <2>0, <2>3, <4>1
        <4> QED
          BY <2>1, <2>2, <4>2
      <3>2. step[d][f] = step[d][g]
        BY <1>0, <2>2, <3>1
      <3> QED
        BY <2>2, <3>2
    <2>4. Is(g, k + 1)
      BY <2>3
    <2> HIDE DEF Is
    <2> QED
      BY <2>0, <2>2, <2>4
  <1>3. S = Nat
    <2>1. S \in SUBSET Nat
      OBVIOUS
    <2> HIDE DEF S
    <2> QED
      BY <1>1, <1>2, <2>1, SetInduction
  <1>4. N + 1 \in S
    <2>1. N + 1 \in Nat
      OBVIOUS
    <2> HIDE DEF S
    <2> QED
      BY <1>3, <2>1
  <1>5. PICK f \in [D -> V] : Is(f, N + 1)
    BY <1>4
  <1>6. \A d \in D : f[d] = step[d][f]
    <2> SUFFICES ASSUME NEW d \in D PROVE f[d] = step[d][f]
      OBVIOUS
    <2>1. h[d] < N + 1
      OBVIOUS
    <2> QED
      BY <1>5, <2>1
  <1> QED
    BY <1>6

\* h is the height of the contents in the tree, at most N.
IsHeight(h, N) ==
    /\ N \in Nat /\ h \in [Node -> 0 .. N]
    /\ \A n \in Node : \A c \in Children(n) : h[c] < h[n]

LEMMA HeightExists ==
    ASSUME OwnInv, IsFiniteSet(Node)
    PROVE  \E h, N : IsHeight(h, N)
  <1>0. live \subseteq Node
    BY DEF OwnInv, TypeOK
  <1> DEFINE B(n) == IF n \in live THEN Below(n) ELSE {}
             N == Cardinality(Node)
             h == [n \in Node |-> Cardinality(B(n))]
  <1>1. N \in Nat
    BY FS_CardinalityType
  <1>2. \A n \in Node : B(n) \subseteq Node
    BY <1>0, BelowProperties
  <1>3. ASSUME NEW n \in Node PROVE IsFiniteSet(B(n)) /\ Cardinality(B(n)) \in 0 .. N
    <2>1. IsFiniteSet(B(n)) /\ Cardinality(B(n)) <= N
      BY <1>2, FS_Subset
    <2>2. Cardinality(B(n)) \in Nat
      BY <2>1, FS_CardinalityType
    <2> QED
      BY <1>1, <2>1, <2>2
  <1>4. ASSUME NEW n \in Node, NEW c \in Children(n)
        PROVE  Cardinality(B(c)) < Cardinality(B(n))
    <2>1. n \in live
      BY <1>4, MessagesAreShared DEF Children, Elements
    <2>2. n \in Below(n)
      BY <2>1, BelowProperties
    <2>3. c \in Below(n) /\ c # n /\ c \in live
      BY <2>1, <2>2, <1>4, ChildBelow
    <2>4. n \notin Below(c)
      BY <2>1, <2>3, BelowIsTree
    <2>5. Below(c) \subseteq Below(n)
      BY <2>1, <2>3, BelowProperties
    <2>6. B(c) = Below(c) /\ B(n) = Below(n)
      BY <2>1, <2>3
    <2>7. B(c) \subseteq B(n) /\ B(c) # B(n)
      BY <2>2, <2>4, <2>5, <2>6
    <2>8. c \in Node
      BY <1>0, <2>3
    <2> HIDE DEF B
    <2>9. Cardinality(B(c)) <= Cardinality(B(n)) /\ Cardinality(B(c)) # Cardinality(B(n))
      BY <1>3, <2>7, FS_Subset
    <2>10. Cardinality(B(c)) \in Nat /\ Cardinality(B(n)) \in Nat
      BY <1>3, <2>8
    <2> QED
      BY <2>9, <2>10
  <1>5. \A n \in Node : \A c \in Children(n) : c \in Node
    BY <1>0, ListOfContents
  <1>6. h \in [Node -> 0 .. N] /\ \A n \in Node : h[n] = Cardinality(B(n))
    BY <1>3
  <1> HIDE DEF h, N, B
  <1>7. \A n \in Node : \A c \in Children(n) : h[c] < h[n]
    BY <1>4, <1>5, <1>6
  <1> QED
    BY <1>1, <1>6, <1>7 DEF IsHeight

\* What holds of a content when it holds of its children holds of all.
LEMMA DownInduction ==
    ASSUME OwnInv, NEW h, NEW N, IsHeight(h, N), NEW S,
           \A n \in Node : Children(n) \subseteq S => n \in S
    PROVE  \A n \in Node : n \in S
  <1>0. /\ h \in [Node -> 0 .. N] /\ N \in Nat
        /\ \A n \in Node : \A c \in Children(n) : c \in Node /\ h[c] < h[n]
    BY ListOfContents DEF IsHeight, OwnInv, TypeOK
  <1> DEFINE T == {k \in Nat : \A n \in Node : h[n] < k => n \in S}
  <1>1. 0 \in T
    BY <1>0
  <1>2. ASSUME NEW k \in T PROVE k + 1 \in T
    <2>1. k \in Nat /\ \A n \in Node : h[n] < k => n \in S
      OBVIOUS
    <2>2. ASSUME NEW n \in Node, h[n] < k + 1 PROVE n \in S
      <3>1. ASSUME NEW c \in Children(n) PROVE c \in S
        <4>1. h[c] < h[n] /\ h[c] \in Nat /\ h[n] \in Nat /\ c \in Node
          BY <1>0
        <4>2. h[c] < k
          BY <2>1, <2>2, <4>1
        <4> QED
          BY <2>1, <4>1, <4>2
      <3> QED
        BY <3>1
    <2> QED
      BY <2>1, <2>2
  <1>3. T = Nat
    <2>1. T \in SUBSET Nat
      OBVIOUS
    <2> HIDE DEF T
    <2> QED
      BY <1>1, <1>2, <2>1, SetInduction
  <1> SUFFICES ASSUME NEW n \in Node PROVE n \in S
    OBVIOUS
  <1>4. N + 1 \in T /\ h[n] < N + 1
    BY <1>0, <1>3
  <1> QED
    BY <1>4

-----------------------------------------------------------------------------
(* The way down: the contents that an index leads through.                 *)

\* c, or nullptr, has the content at position i below it.
Step(c, i) == IF c = Null THEN Null
              ELSE IF i \notin DOMAIN Contents(c) THEN Null
              ELSE Contents(c)[i]

IsWay(w, n, index) ==
    /\ w \in [0 .. Len(index) -> Node \cup {Null}]
    /\ w[0] = n
    /\ \A k \in 1 .. Len(index) : w[k] = Step(w[k - 1], index[k])

LEMMA StepType ==
    ASSUME OwnInv, NEW c \in Node \cup {Null}, NEW i
    PROVE  /\ Step(c, i) \in Node \cup {Null}
           /\ Step(c, i) # Null =>
                 /\ c \in Node /\ i \in DOMAIN Contents(c)
                 /\ Step(c, i) = Contents(c)[i] /\ Step(c, i) \in Children(c)
                 /\ Step(c, i) \in live /\ parent[Step(c, i)] = c
  <1>1. CASE Step(c, i) = Null
    BY <1>1
  <1>2. CASE Step(c, i) # Null
    <2>1. c \in Node /\ i \in DOMAIN Contents(c) /\ Step(c, i) = Contents(c)[i]
      BY <1>2 DEF Step
    <2>2. Step(c, i) \in Elements(Contents(c))
      BY <2>1 DEF Elements
    <2>3. Step(c, i) \in Children(c) /\ Step(c, i) \in live /\ parent[Step(c, i)] = c
      BY <2>1, <2>2, ListOfContents
    <2>4. live \subseteq Node
      BY DEF OwnInv, TypeOK
    <2> QED
      BY <2>1, <2>3, <2>4
  <1> QED
    BY <1>1, <1>2

LEMMA WayIsAt ==
    ASSUME OwnInv, NEW n \in Node, NEW index \in Seq(Nat)
    PROVE  \E w : IsWay(w, n, index) /\ ContentAt(n, index) = w[Len(index)]
  <1> DEFINE L == Len(index)
             D == 0 .. L
             V == Node \cup {Null}
             Turn(k, f) == IF k = 0 THEN n ELSE Step(f[k - 1], index[k])
             step == [k \in D |-> [f \in [D -> V] |-> Turn(k, f)]]
             h == [k \in D |-> k]
  <1>0. L \in Nat
    OBVIOUS
  <1> HIDE DEF L
  <1>1. ASSUME NEW k \in D, NEW f \in [D -> V] PROVE Turn(k, f) \in V
    <2>1. CASE k = 0
      BY <2>1
    <2>2. CASE k # 0
      <3>1. k - 1 \in D
        BY <1>0, <2>2
      <3>2. f[k - 1] \in V
        BY <3>1
      <3> QED
        BY <2>2, <3>2, StepType
    <2> QED
      BY <2>1, <2>2
  <1>2. ASSUME NEW k \in D, NEW f \in [D -> V], NEW g \in [D -> V],
               \A e \in D : h[e] < h[k] => f[e] = g[e]
        PROVE  Turn(k, f) = Turn(k, g)
    <2>1. k # 0 => k - 1 \in D /\ h[k - 1] < h[k]
      BY <1>0
    <2> QED
      BY <1>2, <2>1
  <1> HIDE DEF Turn
  <1>3. step \in [D -> [[D -> V] -> V]]
    BY <1>1
  <1>4. \A k \in D : \A f \in [D -> V] : step[k][f] = Turn(k, f)
    OBVIOUS
  <1> HIDE DEF step, V
  <1>5. h \in [D -> Nat] /\ \A k \in D : h[k] <= L
    BY <1>0
  <1>6. Descends(step, D, V, h)
    <2> HIDE DEF h, D
    <2> SUFFICES ASSUME NEW k \in D, NEW f \in [D -> V], NEW g \in [D -> V],
                        \A e \in D : h[e] < h[k] => f[e] = g[e]
                 PROVE  step[k][f] = step[k][g]
      BY <1>3 DEF Descends
    <2>1. Turn(k, f) = Turn(k, g)
      BY <1>2
    <2> QED
      BY <1>4, <2>1
  <1> HIDE DEF h
  <1>7. V # {}
    BY DEF V
  <1>8. \E f \in [D -> V] : f = [k \in D |-> step[k][f]]
    <2> HIDE DEF D
    <2> QED
      BY <1>0, <1>5, <1>6, <1>7, RecursionIsDefined
  <1> PICK f \in [D -> V] : f = [k \in D |-> step[k][f]]
    BY <1>8
  <1>9. f = [k \in D |-> Turn(k, f)]
    BY <1>4
  <1> DEFINE Is(e) == e = [k \in 0 .. Len(index) |->
                             IF k = 0 THEN n
                             ELSE LET c == e[k - 1]
                                  IN  IF c = Null THEN Null
                                      ELSE IF index[k] \notin DOMAIN Contents(c) THEN Null
                                      ELSE Contents(c)[index[k]]]
             at == CHOOSE e : Is(e)
  <1>10. Is(f)
    BY <1>9 DEF Turn, Step, L
  <1>11. Is(at)
    <2> HIDE DEF Is
    <2> QED
      BY <1>10
  <1>12. ContentAt(n, index) = at[Len(index)]
    BY DEF ContentAt
  <1> HIDE DEF at
  <1>13. DOMAIN at = D /\ \A k \in D : at[k] = IF k = 0 THEN n ELSE Step(at[k - 1], index[k])
    BY <1>11 DEF Step, L
  <1>14. at[0] = n /\ \A k \in 1 .. L : at[k] = Step(at[k - 1], index[k])
    <2>1. 0 \in D /\ \A k \in 1 .. L : k \in D /\ k # 0
      BY <1>0
    <2> HIDE DEF D
    <2> QED
      BY <1>13, <2>1
  <1>15. \A k \in D : at[k] \in Node \cup {Null}
    <2> DEFINE S == {k \in Nat : k <= L => at[k] \in Node \cup {Null}}
    <2>1. 0 \in S
      BY <1>14
    <2>2. ASSUME NEW k \in S PROVE k + 1 \in S
      <3>1. k \in Nat /\ (k <= L => at[k] \in Node \cup {Null})
        OBVIOUS
      <3> SUFFICES ASSUME k + 1 <= L PROVE at[k + 1] \in Node \cup {Null}
        BY <3>1
      <3>2. k + 1 \in 1 .. L /\ k + 1 - 1 = k /\ k <= L
        BY <1>0, <3>1
      <3>3. at[k + 1] = Step(at[k], index[k + 1])
        BY <1>14, <3>2
      <3> QED
        BY <3>1, <3>2, <3>3, StepType
    <2>3. S = Nat
      <3>1. S \in SUBSET Nat
        OBVIOUS
      <3> HIDE DEF S
      <3> QED
        BY <2>1, <2>2, <3>1, SetInduction
    <2> SUFFICES ASSUME NEW k \in D PROVE at[k] \in Node \cup {Null}
      OBVIOUS
    <2>4. k \in Nat /\ k <= L
      BY <1>0
    <2>5. k \in S
      <3> HIDE DEF S, D
      <3> QED
        BY <2>3, <2>4
    <2> QED
      BY <2>4, <2>5
  <1>16. at = [k \in D |-> at[k]]
    BY <1>11 DEF L
  <1>17. at \in [D -> Node \cup {Null}]
    BY <1>15, <1>16
  <1>18. IsWay(at, n, index)
    BY <1>14, <1>17 DEF IsWay, L
  <1> QED
    BY <1>12, <1>18

\* There is only one.
LEMMA WaysAgree ==
    ASSUME NEW n, NEW index \in Seq(Nat), NEW v, NEW w,
           IsWay(v, n, index), IsWay(w, n, index)
    PROVE  \A k \in 0 .. Len(index) : v[k] = w[k]
  <1> DEFINE L == Len(index)
             S == {k \in Nat : k <= L => v[k] = w[k]}
  <1>0. /\ L \in Nat /\ v[0] = n /\ w[0] = n
        /\ \A k \in 1 .. L : v[k] = Step(v[k - 1], index[k]) /\ w[k] = Step(w[k - 1], index[k])
    BY DEF IsWay
  <1> HIDE DEF L
  <1>1. 0 \in S
    BY <1>0
  <1>2. ASSUME NEW k \in S PROVE k + 1 \in S
    <2>1. k \in Nat /\ (k <= L => v[k] = w[k])
      OBVIOUS
    <2> SUFFICES ASSUME k + 1 <= L PROVE v[k + 1] = w[k + 1]
      BY <2>1
    <2>2. k + 1 \in 1 .. L /\ k + 1 - 1 = k /\ k <= L
      BY <1>0, <2>1
    <2>3. v[k + 1] = Step(v[k], index[k + 1]) /\ w[k + 1] = Step(w[k], index[k + 1])
      BY <1>0, <2>2
    <2> QED
      BY <2>1, <2>2, <2>3
  <1>3. S = Nat
    <2>1. S \in SUBSET Nat
      OBVIOUS
    <2> HIDE DEF S
    <2> QED
      BY <1>1, <1>2, <2>1, SetInduction
  <1> QED
    BY <1>0, <1>3 DEF L

LEMMA AtIsWay ==
    ASSUME OwnInv, NEW n \in Node, NEW index \in Seq(Nat), NEW w, IsWay(w, n, index)
    PROVE  ContentAt(n, index) = w[Len(index)]
  <1>1. PICK v : IsWay(v, n, index) /\ ContentAt(n, index) = v[Len(index)]
    BY WayIsAt
  <1>2. Len(index) \in 0 .. Len(index)
    OBVIOUS
  <1> QED
    BY <1>1, <1>2, WaysAgree

\* An invalid index is the content itself.
LEMMA AtNothing ==
    ASSUME OwnInv, NEW n \in Node
    PROVE  ContentAt(n, <<>>) = n
  <1>1. <<>> \in Seq(Nat) /\ Len(<<>>) = 0
    OBVIOUS
  <1>2. PICK w : IsWay(w, n, <<>>) /\ ContentAt(n, <<>>) = w[Len(<<>>)]
    BY <1>1, WayIsAt
  <1> QED
    BY <1>1, <1>2 DEF IsWay

LEMMA AtType ==
    ASSUME OwnInv, NEW n \in Node, NEW index \in Seq(Nat)
    PROVE  ContentAt(n, index) \in Node \cup {Null}
  <1>1. PICK w : IsWay(w, n, index) /\ ContentAt(n, index) = w[Len(index)]
    BY WayIsAt
  <1>2. Len(index) \in 0 .. Len(index)
    OBVIOUS
  <1> QED
    BY <1>1, <1>2 DEF IsWay

\* One step further down.
LEMMA AtAppend ==
    ASSUME OwnInv, NEW n \in Node, NEW index \in Seq(Nat), NEW i \in Nat
    PROVE  ContentAt(n, Append(index, i)) = Step(ContentAt(n, index), i)
  <1>1. PICK w : IsWay(w, n, index) /\ ContentAt(n, index) = w[Len(index)]
    BY WayIsAt
  <1> DEFINE L == Len(index)
             x == Append(index, i)
             v == [k \in 0 .. L + 1 |-> IF k <= L THEN w[k] ELSE Step(w[L], i)]
  <1>2. /\ L \in Nat /\ w \in [0 .. L -> Node \cup {Null}] /\ w[0] = n
        /\ \A k \in 1 .. L : w[k] = Step(w[k - 1], index[k])
    BY <1>1 DEF IsWay
  <1>3. x \in Seq(Nat) /\ Len(x) = L + 1 /\ x[L + 1] = i /\ \A k \in 1 .. L : x[k] = index[k]
    BY AppendProperties
  <1> HIDE DEF L, x
  <1>4. w[L] \in Node \cup {Null} /\ Step(w[L], i) \in Node \cup {Null}
    <2>1. L \in 0 .. L
      BY <1>2
    <2> QED
      BY <1>2, <2>1, StepType
  <1>5. v \in [0 .. L + 1 -> Node \cup {Null}]
    <2>1. \A k \in 0 .. L + 1 : k <= L => k \in 0 .. L
      BY <1>2
    <2> QED
      BY <1>2, <1>4, <2>1
  <1>6. v[0] = n /\ v[L + 1] = Step(w[L], i) /\ \A k \in 0 .. L : v[k] = w[k]
    BY <1>2
  <1> HIDE DEF v
  <1>7. ASSUME NEW k \in 1 .. L + 1 PROVE v[k] = Step(v[k - 1], x[k])
    <2>1. CASE k = L + 1
      <3>1. k - 1 = L /\ L \in 0 .. L
        BY <1>2, <2>1
      <3> QED
        BY <1>3, <1>6, <2>1, <3>1
    <2>2. CASE k # L + 1
      <3>1. k \in 1 .. L /\ k \in 0 .. L /\ k - 1 \in 0 .. L
        BY <1>2, <2>2
      <3> QED
        BY <1>2, <1>3, <1>6, <3>1
    <2> QED
      BY <2>1, <2>2
  <1>8. IsWay(v, n, x)
    BY <1>3, <1>5, <1>6, <1>7 DEF IsWay
  <1>9. ContentAt(n, x) = v[L + 1]
    BY <1>3, <1>8, AtIsWay
  <1> QED
    BY <1>1, <1>6, <1>9 DEF x, L

\* One step before.
LEMMA AtPush ==
    ASSUME OwnInv, NEW n \in Node, NEW index \in Seq(Nat), NEW i \in Nat
    PROVE  /\ Push(index, i) \in Seq(Nat) /\ Push(index, i) # <<>>
           /\ i \in DOMAIN Contents(n) =>
                 ContentAt(n, Push(index, i)) = ContentAt(Contents(n)[i], index)
           /\ i \notin DOMAIN Contents(n) => ContentAt(n, Push(index, i)) = Null
  <1> DEFINE L == Len(index)
             x == Push(index, i)
  <1>1. /\ L \in Nat /\ x \in Seq(Nat) /\ Len(x) = L + 1 /\ x # <<>>
        /\ x[1] = i /\ \A k \in 2 .. L + 1 : x[k] = index[k - 1]
    <2>1. <<i>> \in Seq(Nat) /\ Len(<<i>>) = 1 /\ <<i>>[1] = i /\ L \in Nat
      OBVIOUS
    <2>2. x = <<i>> \o index
      BY DEF Push, Cons
    <2> HIDE DEF x
    <2>7. /\ <<i>> \o index \in Seq(Nat)
          /\ Len(<<i>> \o index) = Len(<<i>>) + Len(index)
          /\ \A k \in 1 .. Len(<<i>>) + Len(index) :
                (<<i>> \o index)[k] = IF k <= Len(<<i>>) THEN <<i>>[k]
                                      ELSE index[k - Len(<<i>>)]
      BY <2>1, ConcatProperties
    <2>3. /\ x \in Seq(Nat) /\ Len(x) = 1 + L
          /\ \A k \in 1 .. 1 + L : x[k] = IF k <= 1 THEN <<i>>[k] ELSE index[k - 1]
      BY <2>1, <2>2, <2>7
    <2> HIDE DEF L
    <2>4. 1 + L = L + 1 /\ 1 \in 1 .. L + 1 /\ \A k \in 2 .. L + 1 : k \in 1 .. L + 1 /\ ~(k <= 1)
      BY <2>1
    <2>5. x[1] = i
      BY <2>1, <2>3, <2>4
    <2>6. x # <<>>
      BY <2>1, <2>3
    <2> QED
      BY <2>1, <2>3, <2>4, <2>5, <2>6
  <1>2. PICK w : IsWay(w, n, x) /\ ContentAt(n, x) = w[Len(x)]
    BY <1>1, WayIsAt
  <1> HIDE DEF L, x
  <1>3. /\ w \in [0 .. L + 1 -> Node \cup {Null}] /\ w[0] = n
        /\ \A k \in 1 .. L + 1 : w[k] = Step(w[k - 1], x[k])
    BY <1>1, <1>2 DEF IsWay
  <1>4. w[1] = Step(n, i)
    <2>1. 1 \in 1 .. L + 1 /\ 1 - 1 = 0
      BY <1>1
    <2> QED
      BY <1>1, <1>3, <2>1
  <1>5. Null \notin Node
    BY ConstantsAssumption
  <1>6. ASSUME i \in DOMAIN Contents(n)
        PROVE  ContentAt(n, x) = ContentAt(Contents(n)[i], index)
    <2> DEFINE v == [k \in 0 .. L |-> w[k + 1]]
    <2>1. w[1] = Contents(n)[i] /\ w[1] \in Node
      <3>1. Step(n, i) = Contents(n)[i]
        BY <1>5, <1>6 DEF Step
      <3>2. Contents(n) \in Seq(Node)
        BY ListOfContents
      <3> QED
        BY <1>4, <1>6, <3>1, <3>2
    <2>2. v \in [0 .. L -> Node \cup {Null}] /\ v[0] = w[1] /\ v[L] = w[L + 1]
          /\ \A k \in 0 .. L : v[k] = w[k + 1]
      <3>1. 0 \in 0 .. L /\ L \in 0 .. L /\ 0 + 1 = 1 /\ \A k \in 0 .. L : k + 1 \in 0 .. L + 1
        BY <1>1
      <3> QED
        BY <1>3, <3>1
    <2> HIDE DEF v
    <2>3. ASSUME NEW k \in 1 .. L PROVE v[k] = Step(v[k - 1], index[k])
      <3>1. /\ k \in 0 .. L /\ k - 1 \in 0 .. L /\ k + 1 \in 2 .. L + 1 /\ k + 1 \in 1 .. L + 1
            /\ k + 1 - 1 = k /\ k - 1 + 1 = k
        BY <1>1
      <3>2. v[k] = Step(w[k], x[k + 1]) /\ v[k - 1] = w[k] /\ x[k + 1] = index[k]
        BY <1>1, <1>3, <2>2, <3>1
      <3> QED
        BY <3>2
    <2>4. IsWay(v, w[1], index)
      BY <2>2, <2>3 DEF IsWay, L
    <2>5. ContentAt(w[1], index) = v[L]
      BY <2>1, <2>4, AtIsWay DEF L
    <2> QED
      BY <1>1, <1>2, <2>1, <2>2, <2>5
  <1>7. ASSUME i \notin DOMAIN Contents(n) PROVE ContentAt(n, x) = Null
    <2>1. w[1] = Null
      BY <1>4, <1>5, <1>7 DEF Step
    <2> DEFINE S == {k \in Nat : k <= L => w[k + 1] = Null}
    <2>2. 0 \in S
      BY <2>1
    <2>3. ASSUME NEW k \in S PROVE k + 1 \in S
      <3>1. k \in Nat /\ (k <= L => w[k + 1] = Null)
        OBVIOUS
      <3> SUFFICES ASSUME k + 1 <= L PROVE w[k + 1 + 1] = Null
        BY <3>1
      <3>2. k + 1 + 1 \in 1 .. L + 1 /\ k + 1 + 1 - 1 = k + 1 /\ k <= L
        BY <1>1, <3>1
      <3>3. w[k + 1 + 1] = Step(w[k + 1], x[k + 1 + 1])
        BY <1>3, <3>2
      <3> QED
        BY <3>1, <3>2, <3>3 DEF Step
    <2>4. S = Nat
      <3>1. S \in SUBSET Nat
        OBVIOUS
      <3> HIDE DEF S
      <3> QED
        BY <2>2, <2>3, <3>1, SetInduction
    <2>5. L \in S
      <3> HIDE DEF S
      <3> QED
        BY <1>1, <2>4
    <2>6. L <= L
      BY <1>1
    <2> QED
      BY <1>1, <1>2, <2>5, <2>6
  <1> QED
    BY <1>1, <1>6, <1>7 DEF x

\* Induction over indexes.
LEMMA IndexInduction ==
    ASSUME NEW S, <<>> \in S,
           \A index \in Seq(Nat) : \A i \in Nat : index \in S => Append(index, i) \in S
    PROVE  \A index \in Seq(Nat) : index \in S
  <1> DEFINE T == {k \in Nat : \A index \in Seq(Nat) : Len(index) = k => index \in S}
  <1>1. 0 \in T
    OBVIOUS
  <1>2. ASSUME NEW k \in T PROVE k + 1 \in T
    <2>1. k \in Nat /\ \A index \in Seq(Nat) : Len(index) = k => index \in S
      OBVIOUS
    <2>2. ASSUME NEW index \in Seq(Nat), Len(index) = k + 1 PROVE index \in S
      <3>1. index # <<>>
        BY <2>1, <2>2
      <3>2. PICK front \in Seq(Nat), i \in Nat : index = Append(front, i)
        BY <3>1, SequenceEmptyOrAppend
      <3>3. Len(front) = k
        <4>1. Len(index) = Len(front) + 1 /\ Len(front) \in Nat
          BY <3>2, AppendProperties
        <4> QED
          BY <2>1, <2>2, <4>1
      <3> QED
        BY <2>1, <3>2, <3>3
    <2> QED
      BY <2>1, <2>2
  <1>3. T = Nat
    <2>1. T \in SUBSET Nat
      OBVIOUS
    <2> HIDE DEF T
    <2> QED
      BY <1>1, <1>2, <2>1, SetInduction
  <1> SUFFICES ASSUME NEW index \in Seq(Nat) PROVE index \in S
    OBVIOUS
  <1>4. Len(index) \in T
    <2>1. Len(index) \in Nat
      OBVIOUS
    <2> HIDE DEF T
    <2> QED
      BY <1>3, <2>1
  <1> QED
    BY <1>4

\* What an index leads to is lower than where it starts.
LEMMA AtIsBelow ==
    ASSUME OwnInv, NEW h, NEW N, IsHeight(h, N), NEW n \in Node
    PROVE  \A index \in Seq(Nat) : ContentAt(n, index) # Null =>
              h[ContentAt(n, index)] <= h[n] - (IF index = <<>> THEN 0 ELSE 1)
  <1>0. /\ N \in Nat /\ h \in [Node -> 0 .. N]
        /\ \A m \in Node : \A c \in Children(m) : h[c] < h[m]
    BY DEF IsHeight
  <1> DEFINE S == {index \in Seq(Nat) : ContentAt(n, index) # Null =>
                      h[ContentAt(n, index)] <= h[n] - (IF index = <<>> THEN 0 ELSE 1)}
  <1>1. <<>> \in S
    <2>1. ContentAt(n, <<>>) = n /\ h[n] \in 0 .. N /\ <<>> \in Seq(Nat)
      BY <1>0, AtNothing
    <2>2. h[n] <= h[n] - 0
      BY <1>0, <2>1
    <2> QED
      BY <2>1, <2>2
  <1>2. ASSUME NEW index \in Seq(Nat), NEW i \in Nat, index \in S PROVE Append(index, i) \in S
    <2> DEFINE x == Append(index, i)
    <2>1. x \in Seq(Nat) /\ x # <<>>
      BY AppendProperties
    <2>2. ContentAt(n, x) = Step(ContentAt(n, index), i)
      BY AtAppend
    <2>3. ContentAt(n, index) \in Node \cup {Null}
      BY AtType
    <2>4. Null \notin Node
      BY ConstantsAssumption
    <2> HIDE DEF x
    <2>5. ASSUME ContentAt(n, x) # Null PROVE h[ContentAt(n, x)] <= h[n] - 1
      <3>1. /\ ContentAt(n, index) \in Node /\ ContentAt(n, x) \in Node \cup {Null}
            /\ ContentAt(n, x) \in Children(ContentAt(n, index))
        BY <2>2, <2>3, <2>5, StepType
      <3>2. h[ContentAt(n, x)] < h[ContentAt(n, index)]
        BY <1>0, <3>1
      <3>3. h[ContentAt(n, index)] <= h[n] - (IF index = <<>> THEN 0 ELSE 1)
        BY <1>2, <2>4, <3>1
      <3>4. h[ContentAt(n, x)] \in Nat /\ h[ContentAt(n, index)] \in Nat /\ h[n] \in Nat
        BY <1>0, <2>5, <3>1
      <3> QED
        BY <3>2, <3>3, <3>4
    <2> QED
      BY <2>1, <2>5 DEF x
  <1> HIDE DEF S
  <1>3. \A index \in Seq(Nat) : index \in S
    BY <1>1, <1>2, IndexInduction
  <1> QED
    BY <1>3 DEF S

\* Two ways to one content are the same.
LEMMA OneWay ==
    ASSUME OwnInv, NEW h, NEW N, IsHeight(h, N), NEW n \in Node
    PROVE  \A i, j \in Seq(Nat) :
              ContentAt(n, i) = ContentAt(n, j) /\ ContentAt(n, i) # Null => i = j
  <1>0. N \in Nat /\ h \in [Node -> 0 .. N] /\ Null \notin Node /\ h[n] \in Nat
    BY ConstantsAssumption DEF IsHeight
  <1> DEFINE S == {i \in Seq(Nat) : \A j \in Seq(Nat) :
                      ContentAt(n, i) = ContentAt(n, j) /\ ContentAt(n, i) # Null => i = j}
  <1>1. ASSUME NEW j \in Seq(Nat), ContentAt(n, j) = n PROVE j = <<>>
    <2> SUFFICES ASSUME j # <<>> PROVE FALSE
      OBVIOUS
    <2>1. h[n] <= h[n] - 1
      BY <1>0, <1>1, AtIsBelow
    <2> QED
      BY <1>0, <2>1
  <1>2. <<>> \in S
    <2>1. <<>> \in Seq(Nat) /\ ContentAt(n, <<>>) = n
      BY AtNothing
    <2> QED
      BY <1>1, <2>1
  <1>3. ASSUME NEW i \in Seq(Nat), NEW a \in Nat, i \in S PROVE Append(i, a) \in S
    <2>1. Append(i, a) \in Seq(Nat) /\ Append(i, a) # <<>>
      BY AppendProperties
    <2> SUFFICES ASSUME NEW j \in Seq(Nat), ContentAt(n, Append(i, a)) = ContentAt(n, j),
                        ContentAt(n, Append(i, a)) # Null
                 PROVE  Append(i, a) = j
      BY <2>1
    <2>2. ContentAt(n, Append(i, a)) # n
      BY <1>1, <2>1
    <2>3. j # <<>>
      BY <2>2, AtNothing
    <2>4. PICK k \in Seq(Nat), b \in Nat : j = Append(k, b)
      BY <2>3, SequenceEmptyOrAppend
    <2> DEFINE p == ContentAt(n, i)
               q == ContentAt(n, k)
               c == ContentAt(n, j)
    <2>5. p \in Node \cup {Null} /\ q \in Node \cup {Null} /\ c # Null
      BY AtType
    <2>6. c = Step(p, a) /\ c = Step(q, b)
      BY <2>4, AtAppend
    <2> HIDE DEF p, q, c
    <2>7. /\ p \in Node /\ a \in DOMAIN Contents(p) /\ c = Contents(p)[a] /\ parent[c] = p
          /\ q \in Node /\ b \in DOMAIN Contents(q) /\ c = Contents(q)[b] /\ parent[c] = q
      BY <2>5, <2>6, StepType
    <2>8. p = q /\ IsInjective(Contents(p))
      BY <2>7, ListOfContents
    <2>9. a = b
      BY <2>7, <2>8 DEF IsInjective
    <2>10. i = k
      BY <1>0, <1>3, <2>7, <2>8 DEF p, q
    <2> QED
      BY <2>4, <2>9, <2>10
  <1> HIDE DEF S
  <1>4. \A i \in Seq(Nat) : i \in S
    BY <1>2, <1>3, IndexInduction
  <1> QED
    BY <1>4 DEF S

-----------------------------------------------------------------------------
(* The search for a content.                                               *)

LEMMA MinIs ==
    ASSUME NEW T \in SUBSET Nat, T # {}
    PROVE  Min(T) \in T
  <1>1. \E x \in T : \A y \in T : x <= y
    BY LeastNat
  <1> QED
    BY <1>1 DEF Min

\* A turn of indexForContent() on m, where f is what it finds in the children.
Searched(m, c, f) ==
    IF c \in Children(m)
    THEN <<Min({i \in DOMAIN Contents(m) : Contents(m)[i] = c})>>
    ELSE LET found == {i \in DOMAIN Contents(m) : f[Contents(m)[i]] # <<>>}
         IN  IF found = {} THEN <<>>
             ELSE Push(f[Contents(m)[Min(found)]], Min(found))

Found(m, f) == {i \in DOMAIN Contents(m) : f[Contents(m)[i]] # <<>>}

LEMMA SearchedIs ==
    ASSUME OwnInv, NEW m \in Node, NEW c, NEW f \in [Node -> Seq(Nat)]
    PROVE  /\ Searched(m, c, f) \in Seq(Nat)
           /\ Searched(m, c, f) # <<>> <=> c \in Children(m) \/ Found(m, f) # {}
           /\ Searched(m, c, f) # <<>> =>
                 \E i \in DOMAIN Contents(m) : i \in Nat /\
                    \/ Contents(m)[i] = c /\ Searched(m, c, f) = Push(<<>>, i)
                    \/ /\ f[Contents(m)[i]] # <<>>
                       /\ Searched(m, c, f) = Push(f[Contents(m)[i]], i)
  <1>0. /\ Contents(m) \in Seq(Node) /\ DOMAIN Contents(m) \subseteq Nat
        /\ \A i \in DOMAIN Contents(m) : Contents(m)[i] \in Node
        /\ Elements(Contents(m)) = Children(m)
    BY ListOfContents
  <1>1. CASE c \in Children(m)
    <2> DEFINE T == {i \in DOMAIN Contents(m) : Contents(m)[i] = c}
    <2>1. T \in SUBSET Nat /\ T # {}
      BY <1>0, <1>1 DEF Elements
    <2>2. Min(T) \in T
      BY <2>1, MinIs
    <2>3. Searched(m, c, f) = <<Min(T)>>
      BY <1>1 DEF Searched
    <2>4. Min(T) \in DOMAIN Contents(m) /\ Contents(m)[Min(T)] = c /\ Min(T) \in Nat
      BY <2>1, <2>2
    <2> HIDE DEF T
    <2>5. <<Min(T)>> \in Seq(Nat) /\ <<Min(T)>> # <<>> /\ Push(<<>>, Min(T)) = <<Min(T)>>
      BY <2>4 DEF Push, Cons
    <2> QED
      BY <1>1, <2>3, <2>4, <2>5
  <1>2. CASE c \notin Children(m)
    <2> DEFINE T == Found(m, f)
    <2>1. Searched(m, c, f) = IF T = {} THEN <<>> ELSE Push(f[Contents(m)[Min(T)]], Min(T))
      BY <1>2 DEF Searched, Found
    <2>2. T \in SUBSET Nat /\ T \subseteq DOMAIN Contents(m)
          /\ \A i \in T : f[Contents(m)[i]] # <<>>
      BY <1>0 DEF Found
    <2>3. CASE T = {}
      <3>1. Searched(m, c, f) = <<>> /\ <<>> \in Seq(Nat)
        BY <2>1, <2>3
      <3> QED
        BY <1>2, <2>3, <3>1
    <2>4. CASE T # {}
      <3>1. Min(T) \in T
        BY <2>2, <2>4, MinIs
      <3> HIDE DEF T
      <3>2. Min(T) \in Nat /\ Min(T) \in DOMAIN Contents(m) /\ f[Contents(m)[Min(T)]] # <<>>
        BY <2>2, <3>1
      <3>3. f[Contents(m)[Min(T)]] \in Seq(Nat)
        BY <1>0, <3>2
      <3>4. Searched(m, c, f) = Push(f[Contents(m)[Min(T)]], Min(T))
        BY <2>1, <2>4
      <3>5. Searched(m, c, f) \in Seq(Nat) /\ Searched(m, c, f) # <<>>
        BY <3>2, <3>3, <3>4, AtPush
      <3>6. Found(m, f) # {}
        BY <2>4 DEF T
      <3> QED
        BY <3>2, <3>4, <3>5, <3>6
    <2> QED
      BY <2>3, <2>4
  <1> QED
    BY <1>1, <1>2

\* indexForContent() is defined, and does what its turns do.
LEMMA SearchIs ==
    ASSUME OwnInv, NEW h, NEW N, IsHeight(h, N), NEW c
    PROVE  \E f \in [Node -> Seq(Nat)] :
              /\ \A n \in Node : f[n] = Searched(n, c, f)
              /\ \A n \in Node : IndexForContent(n, c) = f[n]
  <1>0. /\ N \in Nat /\ h \in [Node -> Nat] /\ \A n \in Node : h[n] <= N
        /\ \A n \in Node : \A k \in Children(n) : h[k] < h[n]
    BY DEF IsHeight
  <1> DEFINE V == Seq(Nat)
             step == [m \in Node |-> [f \in [Node -> V] |-> Searched(m, c, f)]]
  <1>1. \A m \in Node : \A f \in [Node -> V] : Searched(m, c, f) \in V
    BY SearchedIs
  <1>2. ASSUME NEW m \in Node, NEW f \in [Node -> V], NEW g \in [Node -> V],
               \A e \in Node : h[e] < h[m] => f[e] = g[e]
        PROVE  Searched(m, c, f) = Searched(m, c, g)
    <2>1. \A i \in DOMAIN Contents(m) : f[Contents(m)[i]] = g[Contents(m)[i]]
      <3> SUFFICES ASSUME NEW i \in DOMAIN Contents(m)
                   PROVE  f[Contents(m)[i]] = g[Contents(m)[i]]
        OBVIOUS
      <3>1. Contents(m)[i] \in Children(m) /\ Contents(m)[i] \in Node
        BY ListOfContents DEF Elements
      <3> QED
        BY <1>0, <1>2, <3>1
    <2>2. {i \in DOMAIN Contents(m) : f[Contents(m)[i]] # <<>>}
          = {i \in DOMAIN Contents(m) : g[Contents(m)[i]] # <<>>}
      BY <2>1
    <2> DEFINE T == {i \in DOMAIN Contents(m) : g[Contents(m)[i]] # <<>>}
    <2>3. T # {} => Min(T) \in T
      <3>1. T \in SUBSET Nat
        BY ListOfContents
      <3> QED
        BY <3>1, MinIs
    <2>4. T # {} => f[Contents(m)[Min(T)]] = g[Contents(m)[Min(T)]]
      BY <2>1, <2>3
    <2>5. Searched(m, c, f)
          = IF c \in Children(m)
            THEN <<Min({i \in DOMAIN Contents(m) : Contents(m)[i] = c})>>
            ELSE IF T = {} THEN <<>> ELSE Push(f[Contents(m)[Min(T)]], Min(T))
      BY <2>2 DEF Searched
    <2>6. Searched(m, c, g)
          = IF c \in Children(m)
            THEN <<Min({i \in DOMAIN Contents(m) : Contents(m)[i] = c})>>
            ELSE IF T = {} THEN <<>> ELSE Push(g[Contents(m)[Min(T)]], Min(T))
      BY DEF Searched
    <2> HIDE DEF T
    <2> QED
      BY <2>4, <2>5, <2>6
  <1>3. step \in [Node -> [[Node -> V] -> V]]
        /\ \A m \in Node : \A f \in [Node -> V] : step[m][f] = Searched(m, c, f)
    BY <1>1
  <1>4. V # {}
    <2>1. <<>> \in V
      OBVIOUS
    <2> QED
      BY <2>1
  <1> HIDE DEF step, V
  <1>5. Descends(step, Node, V, h)
    <2> SUFFICES ASSUME NEW m \in Node, NEW f \in [Node -> V], NEW g \in [Node -> V],
                        \A e \in Node : h[e] < h[m] => f[e] = g[e]
                 PROVE  step[m][f] = step[m][g]
      BY <1>3 DEF Descends
    <2>1. Searched(m, c, f) = Searched(m, c, g)
      BY <1>2
    <2> QED
      BY <1>3, <2>1
  <1>6. \E f \in [Node -> V] : f = [m \in Node |-> step[m][f]]
    BY <1>0, <1>4, <1>5, RecursionIsDefined
  <1>7. PICK f \in [Node -> V] : f = [m \in Node |-> step[m][f]]
    BY <1>6
  <1>8. f = [m \in Node |-> Searched(m, c, f)]
    BY <1>3, <1>7
  <1> DEFINE Is(e) == e = [m \in Node |->
                 IF c \in Children(m)
                 THEN <<Min({i \in DOMAIN Contents(m) : Contents(m)[i] = c})>>
                 ELSE LET found == {i \in DOMAIN Contents(m) : e[Contents(m)[i]] # <<>>}
                      IN  IF found = {} THEN <<>>
                          ELSE Push(e[Contents(m)[Min(found)]], Min(found))]
             below == CHOOSE e : Is(e)
  <1>9. Is(f)
    BY <1>8 DEF Searched
  <1>10. Is(below)
    <2> HIDE DEF Is
    <2> QED
      BY <1>9
  <1>11. \A n \in Node : IndexForContent(n, c) = below[n]
    BY DEF IndexForContent
  <1> HIDE DEF below
  <1>12. below = [m \in Node |-> Searched(m, c, below)]
    BY <1>10 DEF Searched
  <1> HIDE DEF Is
  <1>13. \A m \in Node : below[m] = Searched(m, c, below)
    BY <1>12
  <1> DEFINE S == {m \in Node : below[m] \in V /\ below[m] = f[m]}
  <1>14. ASSUME NEW m \in Node, Children(m) \subseteq S PROVE m \in S
    <2>1. \A i \in DOMAIN Contents(m) : below[Contents(m)[i]] = f[Contents(m)[i]]
      <3> SUFFICES ASSUME NEW i \in DOMAIN Contents(m)
                   PROVE  below[Contents(m)[i]] = f[Contents(m)[i]]
        OBVIOUS
      <3>1. Contents(m)[i] \in Children(m)
        BY ListOfContents DEF Elements
      <3> QED
        BY <1>14, <3>1
    <2> DEFINE T == {i \in DOMAIN Contents(m) : f[Contents(m)[i]] # <<>>}
    <2>2. T = {i \in DOMAIN Contents(m) : below[Contents(m)[i]] # <<>>}
      BY <2>1
    <2>3. T # {} => Min(T) \in T
      <3>1. T \in SUBSET Nat
        BY ListOfContents
      <3> QED
        BY <3>1, MinIs
    <2>4. T # {} => f[Contents(m)[Min(T)]] = below[Contents(m)[Min(T)]]
      BY <2>1, <2>3
    <2>5. Searched(m, c, f)
          = IF c \in Children(m)
            THEN <<Min({i \in DOMAIN Contents(m) : Contents(m)[i] = c})>>
            ELSE IF T = {} THEN <<>> ELSE Push(f[Contents(m)[Min(T)]], Min(T))
      BY DEF Searched
    <2>6. Searched(m, c, below)
          = IF c \in Children(m)
            THEN <<Min({i \in DOMAIN Contents(m) : Contents(m)[i] = c})>>
            ELSE IF T = {} THEN <<>> ELSE Push(below[Contents(m)[Min(T)]], Min(T))
      BY <2>2 DEF Searched
    <2> HIDE DEF T
    <2>7. Searched(m, c, f) = Searched(m, c, below)
      BY <2>4, <2>5, <2>6
    <2>8. f[m] = Searched(m, c, f) /\ f[m] \in V
      BY <1>8
    <2> QED
      BY <1>13, <2>7, <2>8
  <1> HIDE DEF S
  <1>15. \A m \in Node : m \in S
    BY <1>14, DownInduction
  <1>16. \A m \in Node : f[m] = Searched(m, c, f) /\ below[m] = f[m]
    BY <1>8, <1>15 DEF S
  <1>17. f \in [Node -> Seq(Nat)]
    BY DEF V
  <1> QED
    BY <1>11, <1>16, <1>17

\* What indexForContent() returns leads to what it looked for, ...
LEMMA SearchLeadsThere ==
    ASSUME OwnInv, NEW h, NEW N, IsHeight(h, N), NEW c
    PROVE  \A n \in Node :
              /\ IndexForContent(n, c) \in Seq(Nat)
              /\ IndexForContent(n, c) # <<>> => ContentAt(n, IndexForContent(n, c)) = c
  <1>1. PICK f \in [Node -> Seq(Nat)] :
           /\ \A n \in Node : f[n] = Searched(n, c, f)
           /\ \A n \in Node : IndexForContent(n, c) = f[n]
    BY SearchIs
  <1> DEFINE S == {n \in Node : f[n] # <<>> => ContentAt(n, f[n]) = c}
  <1>2. ASSUME NEW n \in Node, Children(n) \subseteq S PROVE n \in S
    <2> SUFFICES ASSUME f[n] # <<>> PROVE ContentAt(n, f[n]) = c
      OBVIOUS
    <2>1. f[n] = Searched(n, c, f)
      BY <1>1
    <2>2. PICK i \in DOMAIN Contents(n) : i \in Nat /\
             \/ Contents(n)[i] = c /\ Searched(n, c, f) = Push(<<>>, i)
             \/ /\ f[Contents(n)[i]] # <<>>
                /\ Searched(n, c, f) = Push(f[Contents(n)[i]], i)
      BY <2>1, SearchedIs
    <2>3. Contents(n)[i] \in Children(n) /\ Contents(n)[i] \in Node
      BY ListOfContents DEF Elements
    <2>4. CASE Contents(n)[i] = c /\ Searched(n, c, f) = Push(<<>>, i)
      <3>1. <<>> \in Seq(Nat)
        OBVIOUS
      <3>2. ContentAt(n, Push(<<>>, i)) = ContentAt(Contents(n)[i], <<>>)
        BY <2>2, <3>1, AtPush
      <3>3. ContentAt(Contents(n)[i], <<>>) = Contents(n)[i]
        BY <2>3, AtNothing
      <3> QED
        BY <2>1, <2>4, <3>2, <3>3
    <2>5. CASE /\ f[Contents(n)[i]] # <<>>
               /\ Searched(n, c, f) = Push(f[Contents(n)[i]], i)
      <3>1. f[Contents(n)[i]] \in Seq(Nat)
        BY <2>3
      <3>2. ContentAt(n, Push(f[Contents(n)[i]], i))
            = ContentAt(Contents(n)[i], f[Contents(n)[i]])
        BY <2>2, <3>1, AtPush
      <3>3. ContentAt(Contents(n)[i], f[Contents(n)[i]]) = c
        BY <1>2, <2>3, <2>5
      <3> QED
        BY <2>1, <2>5, <3>2, <3>3
    <2> QED
      BY <2>2, <2>4, <2>5
  <1> HIDE DEF S
  <1>3. \A n \in Node : n \in S
    BY <1>2, DownInduction
  <1> QED
    BY <1>1, <1>3 DEF S

\* ... and it finds everything that is below.
LEMMA SearchFinds ==
    ASSUME OwnInv, NEW h, NEW N, IsHeight(h, N), NEW c \in Node
    PROVE  \A n \in Node : \A index \in Seq(Nat) :
              index # <<>> /\ ContentAt(n, index) = c => IndexForContent(n, c) # <<>>
  <1>1. PICK f \in [Node -> Seq(Nat)] :
           /\ \A n \in Node : f[n] = Searched(n, c, f)
           /\ \A n \in Node : IndexForContent(n, c) = f[n]
    BY SearchIs
  <1> DEFINE S == {n \in Node : \A index \in Seq(Nat) :
                      index # <<>> /\ ContentAt(n, index) = c => f[n] # <<>>}
  <1>2. ASSUME NEW n \in Node, Children(n) \subseteq S PROVE n \in S
    <2> SUFFICES ASSUME NEW index \in Seq(Nat), index # <<>>, ContentAt(n, index) = c
                 PROVE  f[n] # <<>>
      OBVIOUS
    <2>0. c # Null
      BY ConstantsAssumption
    <2>1. PICK i \in Nat, rest \in Seq(Nat) : index = Push(rest, i)
      <3>1. Head(index) \in Nat /\ Tail(index) \in Seq(Nat)
        BY HeadTailProperties
      <3>2. index = Push(Tail(index), Head(index))
        <4>1. <<Head(index)>> \o Tail(index) = index
          BY HeadTailProperties, <3>1, SMTT(30)
        <4> QED
          BY <4>1 DEF Push, Cons
      <3> QED
        BY <3>1, <3>2
    <2>2. i \in DOMAIN Contents(n) /\ ContentAt(Contents(n)[i], rest) = c
      BY <2>0, <2>1, AtPush
    <2>3. Contents(n)[i] \in Children(n) /\ Contents(n)[i] \in Node
      BY <2>2, ListOfContents DEF Elements
    <2>4. c \in Children(n) \/ Found(n, f) # {}
      <3>1. CASE rest = <<>>
        <4>1. Contents(n)[i] = c
          BY <2>2, <2>3, <3>1, AtNothing
        <4> QED
          BY <2>3, <4>1
      <3>2. CASE rest # <<>>
        <4>1. f[Contents(n)[i]] # <<>>
          BY <1>2, <2>2, <2>3, <3>2
        <4> QED
          BY <2>2, <4>1 DEF Found
      <3> QED
        BY <3>1, <3>2
    <2>5. f[n] = Searched(n, c, f)
      BY <1>1
    <2> QED
      BY <2>4, <2>5, SearchedIs
  <1> HIDE DEF S
  <1>3. \A n \in Node : n \in S
    BY <1>2, DownInduction
  <1> QED
    BY <1>1, <1>3 DEF S

\* So it returns the way there is.
LEMMA SearchIsInverse ==
    ASSUME OwnInv, NEW h, NEW N, IsHeight(h, N), NEW n \in Node, NEW c \in Node,
           NEW index \in Seq(Nat), ContentAt(n, index) = c
    PROVE  IndexForContent(n, c) = index
  <1>0. c # Null
    BY ConstantsAssumption
  <1>1. CASE IndexForContent(n, c) = <<>>
    BY <1>1, SearchFinds
  <1>2. CASE IndexForContent(n, c) # <<>>
    <2>1. IndexForContent(n, c) \in Seq(Nat) /\ ContentAt(n, IndexForContent(n, c)) = c
      BY <1>2, SearchLeadsThere
    <2> QED
      BY <1>0, <2>1, OneWay
  <1> QED
    BY <1>1, <1>2

-----------------------------------------------------------------------------
(* The way up.                                                             *)

LEMMA ParentsList ==
    ASSUME OwnInv, calls = <<>>, NEW n \in Node, parent[n] # Null
    PROVE  /\ n \in live /\ parent[n] \in live /\ parent[n] \in Node
           /\ n \in Children(parent[n])
           /\ \E i \in DOMAIN Contents(parent[n]) : i \in Nat /\ Contents(parent[n])[i] = n
  <1>1. TypeOK /\ PointersInv /\ Pending = {} /\ live \subseteq Node
    BY DEF OwnInv, TypeOK, Pending
  <1>2. n \in live
    BY <1>1 DEF PointersInv, FreeIsBlank
  <1>3. /\ parent[n] \in live
        /\ n \in Elements(multipartContents[parent[n]]) \/ n = bodyAsMessage[parent[n]]
    BY <1>1, <1>2 DEF PointersInv, ParentsAgree
  <1>4. parent[n] \in Node
    BY <1>1, <1>3
  <1>5. n \in Children(parent[n])
    <2>1. bodyAsMessage[parent[n]] = Null => multipartContents[parent[n]] = Contents(parent[n])
      BY DEF Contents
    <2>2. bodyAsMessage[parent[n]] # Null => multipartContents[parent[n]] = <<>>
      BY <1>1, <1>3 DEF PointersInv, ContentsExclusive
    <2>3. n # Null
      BY ConstantsAssumption
    <2>4. CASE bodyAsMessage[parent[n]] = Null
      BY <1>3, <2>1, <2>3, <2>4 DEF Children
    <2>5. CASE bodyAsMessage[parent[n]] # Null
      <3>1. n = bodyAsMessage[parent[n]]
        BY <1>3, <2>2, <2>5 DEF Elements
      <3>2. Contents(parent[n]) = <<n>>
        BY <2>5, <3>1 DEF Contents
      <3> QED
        BY <3>2 DEF Children, Elements
    <2> QED
      BY <2>4, <2>5
  <1>6. /\ Contents(parent[n]) \in Seq(Node)
        /\ Elements(Contents(parent[n])) = Children(parent[n])
    BY <1>4, ListOfContents
  <1>7. \E i \in DOMAIN Contents(parent[n]) : i \in Nat /\ Contents(parent[n])[i] = n
    BY <1>5, <1>6 DEF Elements
  <1> QED
    BY <1>2, <1>3, <1>4, <1>5, <1>7

\* What holds of a content when it holds of its parent holds of all.
LEMMA UpInduction ==
    ASSUME OwnInv, calls = <<>>, NEW h, NEW N, IsHeight(h, N), NEW S,
           \A n \in Node : parent[n] = Null \/ parent[n] \in S => n \in S
    PROVE  \A n \in Node : n \in S
  <1>0. /\ h \in [Node -> 0 .. N] /\ N \in Nat
        /\ \A n \in Node : parent[n] # Null => parent[n] \in Node /\ h[n] < h[parent[n]]
    BY ParentsList DEF IsHeight
  <1> DEFINE T == {k \in Nat : \A n \in Node : N - h[n] < k => n \in S}
  <1>1. 0 \in T
    BY <1>0
  <1>2. ASSUME NEW k \in T PROVE k + 1 \in T
    <2>1. k \in Nat /\ \A n \in Node : N - h[n] < k => n \in S
      OBVIOUS
    <2>2. ASSUME NEW n \in Node, N - h[n] < k + 1 PROVE n \in S
      <3>1. ASSUME parent[n] # Null PROVE parent[n] \in S
        <4>1. parent[n] \in Node /\ h[n] < h[parent[n]]
          BY <1>0, <3>1
        <4>2. h[n] \in 0 .. N /\ h[parent[n]] \in 0 .. N
          BY <1>0, <4>1
        <4>3. N - h[parent[n]] < k
          BY <1>0, <2>1, <2>2, <4>1, <4>2
        <4> QED
          BY <2>1, <4>1, <4>3
      <3> QED
        BY <3>1
    <2> QED
      BY <2>1, <2>2
  <1>3. T = Nat
    <2>1. T \in SUBSET Nat
      OBVIOUS
    <2> HIDE DEF T
    <2> QED
      BY <1>1, <1>2, <2>1, SetInduction
  <1> SUFFICES ASSUME NEW n \in Node PROVE n \in S
    OBVIOUS
  <1>4. N + 1 \in Nat /\ N - h[n] < N + 1
    BY <1>0
  <1>5. N + 1 \in T
    <2> HIDE DEF T
    <2> QED
      BY <1>3, <1>4
  <1> QED
    BY <1>4, <1>5

\* topLevel() is the parent's topLevel().
LEMMA TopLevelIs ==
    ASSUME OwnInv, calls = <<>>, NEW h, NEW N, IsHeight(h, N)
    PROVE  \A n \in Node :
              TopLevel(n) = IF parent[n] = Null THEN n ELSE TopLevel(parent[n])
  <1>0. /\ h \in [Node -> 0 .. N] /\ N \in Nat
        /\ \A n \in Node : parent[n] # Null => parent[n] \in Node /\ h[n] < h[parent[n]]
    BY ParentsList DEF IsHeight
  <1> DEFINE step == [n \in Node |-> [f \in [Node -> Node] |->
                        IF parent[n] = Null THEN n ELSE f[parent[n]]]]
             g == [n \in Node |-> N - h[n]]
  <1>1. step \in [Node -> [[Node -> Node] -> Node]]
    BY <1>0
  <1>2. \A n \in Node : \A f \in [Node -> Node] :
           step[n][f] = IF parent[n] = Null THEN n ELSE f[parent[n]]
    OBVIOUS
  <1> HIDE DEF step
  <1>3. g \in [Node -> Nat] /\ \A n \in Node : g[n] = N - h[n] /\ g[n] <= N
    <2>1. \A n \in Node : h[n] \in 0 .. N /\ N - h[n] \in Nat /\ N - h[n] <= N
      BY <1>0
    <2> QED
      BY <2>1
  <1> HIDE DEF g
  <1>4. \A n \in Node : parent[n] # Null => parent[n] \in Node /\ g[parent[n]] < g[n]
    <2> SUFFICES ASSUME NEW n \in Node, parent[n] # Null
                 PROVE  parent[n] \in Node /\ g[parent[n]] < g[n]
      OBVIOUS
    <2>1. parent[n] \in Node /\ h[n] < h[parent[n]]
      BY <1>0
    <2>2. h[n] \in 0 .. N /\ h[parent[n]] \in 0 .. N
      BY <1>0, <2>1
    <2>3. N - h[parent[n]] < N - h[n]
      BY <1>0, <2>1, <2>2
    <2> QED
      BY <1>3, <2>1, <2>3
  <1>5. CASE Node = {}
    BY <1>5
  <1>6. CASE Node # {}
    <2>1. Descends(step, Node, Node, g)
      <3> SUFFICES ASSUME NEW n \in Node, NEW e \in [Node -> Node], NEW f \in [Node -> Node],
                          \A k \in Node : g[k] < g[n] => e[k] = f[k]
                   PROVE  step[n][e] = step[n][f]
        BY <1>1 DEF Descends
      <3>1. parent[n] # Null => e[parent[n]] = f[parent[n]]
        BY <1>4
      <3> QED
        BY <1>2, <3>1
    <2>2. \E f \in [Node -> Node] : f = [n \in Node |-> step[n][f]]
      <3> DEFINE V == Node
      <3>1. g \in [Node -> Nat] /\ N \in Nat /\ \A n \in Node : g[n] <= N
        BY <1>0, <1>3
      <3>2. Descends(step, Node, V, g) /\ V # {}
        BY <1>6, <2>1
      <3> HIDE DEF V
      <3>3. \E f \in [Node -> V] : f = [n \in Node |-> step[n][f]]
        BY <3>1, <3>2, RecursionIsDefined
      <3> QED
        BY <3>3 DEF V
    <2>3. PICK f \in [Node -> Node] : f = [n \in Node |-> step[n][f]]
      BY <2>2
    <2> DEFINE Is(e) == e = [n \in Node |-> IF parent[n] = Null THEN n ELSE e[parent[n]]]
               up == CHOOSE e : Is(e)
    <2>4. Is(f)
      BY <1>2, <2>3
    <2>5. Is(up)
      <3> HIDE DEF Is
      <3> QED
        BY <2>4
    <2>6. \A n : TopLevel(n) = up[n]
      BY DEF TopLevel
    <2> HIDE DEF up
    <2>7. \A n \in Node : up[n] = IF parent[n] = Null THEN n ELSE up[parent[n]]
      BY <2>5
    <2> HIDE DEF Is
    <2> QED
      BY <2>6, <2>7
  <1> QED
    BY <1>5, <1>6

\* From the top-level content an index leads back.
LEMMA TopLeadsBack ==
    ASSUME OwnInv, calls = <<>>, NEW h, NEW N, IsHeight(h, N), NEW n \in live
    PROVE  /\ TopLevel(n) \in live
           /\ \E index \in Seq(Nat) : ContentAt(TopLevel(n), index) = n
  <1>0. live \subseteq Node
    BY DEF OwnInv, TypeOK
  <1> DEFINE S == {m \in Node : m \in live =>
                     /\ TopLevel(m) \in live
                     /\ \E index \in Seq(Nat) : ContentAt(TopLevel(m), index) = m}
  <1>1. ASSUME NEW m \in Node, parent[m] = Null \/ parent[m] \in S PROVE m \in S
    <2> SUFFICES ASSUME m \in live
                 PROVE  /\ TopLevel(m) \in live
                        /\ \E index \in Seq(Nat) : ContentAt(TopLevel(m), index) = m
      OBVIOUS
    <2>1. CASE parent[m] = Null
      <3>1. TopLevel(m) = m
        BY <2>1, TopLevelIs
      <3>2. ContentAt(m, <<>>) = m /\ <<>> \in Seq(Nat)
        BY AtNothing
      <3> QED
        BY <3>1, <3>2
    <2>2. CASE parent[m] # Null
      <3> DEFINE p == parent[m]
                 t == TopLevel(p)
      <3>1. p \in live /\ p \in Node /\ \E i \in DOMAIN Contents(p) : i \in Nat /\ Contents(p)[i] = m
        BY <2>2, ParentsList
      <3>2. TopLevel(m) = t
        BY <2>2, TopLevelIs
      <3>3. t \in live /\ \E index \in Seq(Nat) : ContentAt(t, index) = p
        BY <1>1, <2>2, <3>1
      <3> HIDE DEF p, t
      <3>4. PICK i \in DOMAIN Contents(p) : i \in Nat /\ Contents(p)[i] = m
        BY <3>1
      <3>5. PICK index \in Seq(Nat) : ContentAt(t, index) = p
        BY <3>3
      <3>6. t \in Node /\ p # Null
        BY <1>0, <3>1, <3>3, ConstantsAssumption
      <3>7. ContentAt(t, Append(index, i)) = Step(p, i)
        BY <3>4, <3>5, <3>6, AtAppend
      <3>8. Step(p, i) = m
        BY <3>4, <3>6 DEF Step
      <3>9. Append(index, i) \in Seq(Nat)
        BY <3>4, AppendProperties
      <3> QED
        BY <3>2, <3>3, <3>7, <3>8, <3>9
    <2> QED
      BY <2>1, <2>2
  <1> HIDE DEF S
  <1>2. \A m \in Node : m \in S
    BY <1>1, UpInduction
  <1> QED
    BY <1>0, <1>2 DEF S

\* What is below a top-level content has it for one.
LEMMA AtHasTop ==
    ASSUME OwnInv, calls = <<>>, NEW h, NEW N, IsHeight(h, N),
           NEW top \in live, parent[top] = Null
    PROVE  \A index \in Seq(Nat) : ContentAt(top, index) # Null =>
              ContentAt(top, index) \in live /\ TopLevel(ContentAt(top, index)) = top
  <1>0. live \subseteq Node /\ top \in Node /\ Null \notin Node
    BY ConstantsAssumption DEF OwnInv, TypeOK
  <1> DEFINE S == {index \in Seq(Nat) : ContentAt(top, index) # Null =>
                     ContentAt(top, index) \in live /\ TopLevel(ContentAt(top, index)) = top}
  <1>1. <<>> \in S
    <2>1. ContentAt(top, <<>>) = top /\ <<>> \in Seq(Nat)
      BY <1>0, AtNothing
    <2>2. TopLevel(top) = top
      BY <1>0, TopLevelIs
    <2> QED
      BY <2>1, <2>2
  <1>2. ASSUME NEW index \in Seq(Nat), NEW i \in Nat, index \in S PROVE Append(index, i) \in S
    <2> DEFINE x == Append(index, i)
               p == ContentAt(top, index)
               c == ContentAt(top, x)
    <2>1. x \in Seq(Nat)
      BY AppendProperties
    <2>2. c = Step(p, i) /\ p \in Node \cup {Null}
      BY <1>0, AtAppend, AtType
    <2>3. p # Null => p \in live /\ TopLevel(p) = top
      BY <1>2
    <2> HIDE DEF x, p, c
    <2>4. ASSUME c # Null PROVE c \in live /\ TopLevel(c) = top
      <3>1. p \in Node /\ c \in live /\ parent[c] = p
        BY <2>2, <2>4, StepType
      <3>2. TopLevel(c) = TopLevel(p)
        BY <1>0, <3>1, TopLevelIs
      <3> QED
        BY <1>0, <2>3, <3>1, <3>2
    <2> QED
      BY <2>1, <2>4 DEF x, c
  <1> HIDE DEF S
  <1>3. \A index \in Seq(Nat) : index \in S
    BY <1>1, <1>2, IndexInduction
  <1> QED
    BY <1>3 DEF S

-----------------------------------------------------------------------------
(* The two directions of IndexIsInverse, for indexes of any length.        *)

LEMMA IndexLeadsBack ==
    ASSUME OwnInv, calls = <<>>, IsFiniteSet(Node), NEW n \in live
    PROVE  ContentAt(TopLevel(n), Index(n)) = n
  <1>1. PICK h, N : IsHeight(h, N)
    BY HeightExists
  <1>2. PICK index \in Seq(Nat) : TopLevel(n) \in live /\ ContentAt(TopLevel(n), index) = n
    BY <1>1, TopLeadsBack
  <1>3. TopLevel(n) \in Node /\ n \in Node
    BY <1>2 DEF OwnInv, TypeOK
  <1>4. Index(n) = index
    BY <1>1, <1>2, <1>3, SearchIsInverse DEF Index
  <1> QED
    BY <1>2, <1>4

LEMMA IndexIsTheWay ==
    ASSUME OwnInv, calls = <<>>, IsFiniteSet(Node), NEW top \in live, parent[top] = Null,
           NEW index \in Seq(Nat), ContentAt(top, index) # Null
    PROVE  /\ ContentAt(top, index) \in live
           /\ TopLevel(ContentAt(top, index)) = top
           /\ Index(ContentAt(top, index)) = index
  <1>1. PICK h, N : IsHeight(h, N)
    BY HeightExists
  <1>2. ContentAt(top, index) \in live /\ TopLevel(ContentAt(top, index)) = top
    BY <1>1, AtHasTop
  <1>3. ContentAt(top, index) \in Node /\ top \in Node
    BY <1>2 DEF OwnInv, TypeOK
  <1>4. IndexForContent(top, ContentAt(top, index)) = index
    BY <1>1, <1>3, SearchIsInverse
  <1> QED
    BY <1>2, <1>4 DEF Index

\* Content::index() and Content::content() are inverse to each other in every
\* tree that can be built, edited, parsed and cloned: memory is finite, and
\* the caller is careful.
THEOREM IndexAlwaysInverse ==
    ASSUME CarefulCaller, IsFiniteSet(Node)
    PROVE  Spec => []IndexIsInverse
  <1>1. OwnInv => IndexIsInverse
    <2> SUFFICES ASSUME OwnInv, calls = <<>>
                 PROVE  /\ \A n \in live : ContentAt(TopLevel(n), Index(n)) = n
                        /\ \A top \in {n \in live : parent[n] = Null} :
                           \A index \in SeqOf(0..MaxPosition, MaxLength) :
                               LET c == ContentAt(top, index)
                               IN  c # Null => c \in live /\ TopLevel(c) = top /\ Index(c) = index
      BY DEF IndexIsInverse
    <2>1. \A n \in live : ContentAt(TopLevel(n), Index(n)) = n
      BY IndexLeadsBack
    <2>2. \A index \in SeqOf(0..MaxPosition, MaxLength) : index \in Seq(Nat)
      <3> SUFFICES ASSUME NEW m \in 0 .. MaxLength, NEW index \in [1 .. m -> 0 .. MaxPosition]
                   PROVE  index \in Seq(Nat)
        BY DEF SeqOf
      <3>1. MaxLength \in Nat /\ MaxPosition \in Nat
        BY BoundsAssumption
      <3>2. m \in Nat /\ \A i \in 1 .. m : index[i] \in Nat
        BY <3>1
      <3>3. index \in [1 .. m -> Nat]
        BY <3>2
      <3> QED
        BY <3>2, <3>3
    <2> QED
      BY <2>1, <2>2, IndexIsTheWay
  <1> QED
    BY <1>1, OwnershipInvariant, PTL
===============================================================================
