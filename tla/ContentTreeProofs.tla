--------------------------- MODULE ContentTreeProofs ---------------------------
(***************************************************************************)
(* Proofs about ContentTree.  First its types: for every set of objects,   *)
(* texts and readers, every depth limit and every caller.                  *)
(*                                                                         *)
(* Then who owns what, and that no pointer dangles: for every              *)
(* set of objects, every text and every depth limit, in the middle of a    *)
(* parse() as well, provided that the caller clones no content with an     *)
(* encapsulated message in it (clone() shares the message then, and its    *)
(* parent pointer can lead to one of its containers only).                 *)
(*                                                                         *)
(* The inductive invariant says of the pointers what the runs check, and   *)
(* three things more: objects that are not allocated are blank, parent     *)
(* pointers do not loop (so that nothing is destroyed from below), and how *)
(* far the calls of parse() are with the objects they work on.             *)
(*                                                                         *)
(* Last what parse() may touch: nothing outside the object it was called   *)
(* on and what is below it; and what a frozen object seals.                *)
(***************************************************************************)
EXTENDS ContentTree, SequenceTheorems, FiniteSetTheorems, TLAPS

-----------------------------------------------------------------------------
(* The types of the helpers. *)

LEMMA ElementsType ==
    ASSUME NEW S, NEW s \in Seq(S)
    PROVE  Elements(s) \subseteq S
BY DEF Elements

LEMMA RemoveAllType ==
    ASSUME NEW S, NEW s \in Seq(S), NEW n
    PROVE  RemoveAll(s, n) \in Seq(S)
<1>1. CASE n \notin Elements(s)
  BY <1>1 DEF RemoveAll
<1>2. CASE n \in Elements(s)
  <2> DEFINE i == CHOOSE j \in DOMAIN s : s[j] = n
  <2>1. i \in 1..Len(s)
    BY <1>2 DEF Elements
  <2> HIDE DEF i
  <2>2. SubSeq(s, 1, i - 1) \in Seq(S)
    BY <2>1, SubSeqProperties
  <2>3. SubSeq(s, i + 1, Len(s)) \in Seq(S)
    BY <2>1, SubSeqProperties
  <2>4. RemoveAll(s, n) = SubSeq(s, 1, i - 1) \o SubSeq(s, i + 1, Len(s))
    BY <1>2 DEF RemoveAll, i
  <2> QED
    BY <2>2, <2>3, <2>4, ConcatProperties
<1> QED
  BY <1>1, <1>2

LEMMA RelistedType ==
    ASSUME NEW lists \in [Node -> Seq(Node)], NEW c \in Node, NEW p \in Node \cup {Null},
           parent \in [Node -> Node \cup {Null}]
    PROVE  Relisted(lists, c, p) \in [Node -> Seq(Node)]
<1> DEFINE old == parent[c]
           taken == IF old # Null /\ c \in Children(old)
                    THEN [lists EXCEPT ![old] = RemoveAll(@, c)] ELSE lists
<1>1. taken \in [Node -> Seq(Node)]
  BY RemoveAllType
<1> HIDE DEF taken
<1>2. p # Null => [taken EXCEPT ![p] = Append(@, c)] \in [Node -> Seq(Node)]
  BY <1>1
<1>3. Relisted(lists, c, p) \in {taken} \cup {[taken EXCEPT ![p] = Append(@, c)] : x \in {p} \ {Null}}
  BY DEF Relisted, taken
<1> QED
  BY <1>1, <1>2, <1>3

LEMMA BlankType == Blank \in Data
BY ConstantsAssumption DEF Blank, Data, MediaType

LEMMA ReleaseType ==
    ASSUME TypeOK, NEW S, NEW C, ReleasePointers(S, C)
    PROVE  /\ live' \subseteq Node /\ owned' \subseteq Node
           /\ parent' \in [Node -> Node \cup {Null}]
           /\ multipartContents' \in [Node -> Seq(Node)]
           /\ bodyAsMessage' \in [Node -> Node \cup {Null}]
<1> DEFINE dead == Doomed(S, C)
           emptied == dead \cup C
<1>1. live' = live \ dead /\ owned' = owned \ dead
  BY DEF ReleasePointers
<1>2. ParentsAfter(dead, emptied) \in [Node -> Node \cup {Null}]
  BY DEF ParentsAfter, TypeOK
<1>3. ListsAfter(S, emptied) \in [Node -> Seq(Node)]
  <2>1. \A n \in Node : \A m : RemoveAll(multipartContents[n], m) \in Seq(Node)
    BY RemoveAllType DEF TypeOK
  <2> QED
    BY <2>1 DEF ListsAfter, TypeOK
<1> QED
  BY <1>1, <1>2, <1>3 DEF ReleasePointers, TypeOK

LEMMA ForgetType ==
    ASSUME TypeOK, NEW dead
    PROVE  Forget(dead) \in [Node -> Data]
BY BlankType DEF Forget, TypeOK

\* The texts of the parts found in a body.
LEMMA AsItemsType == \A b \in Body : AsItems(Embedded[b]) \in Seq(Item)
<1> SUFFICES ASSUME NEW b \in Body PROVE AsItems(Embedded[b]) \in Seq(Item)
  OBVIOUS
<1>1. Embedded[b] \in Seq(MediaType) /\ Leaf \in Body
  BY ConstantsAssumption
<1>2. \A i \in 1..Len(Embedded[b]) :
         [head |-> "text", body |-> Leaf, type |-> Embedded[b][i]] \in Item
  BY <1>1 DEF Item, MediaType
<1> QED
  BY <1>1, <1>2 DEF AsItems

LEMMA AsPartsType == \A b \in Body : AsParts(Parts[b]) \in Seq(Item)
<1> SUFFICES ASSUME NEW b \in Body PROVE AsParts(Parts[b]) \in Seq(Item)
  OBVIOUS
<1>1. Parts[b] \in Seq(Text)
  BY ConstantsAssumption
<1>2. \A i \in 1..Len(Parts[b]) :
         [head |-> Parts[b][i].head, body |-> Parts[b][i].body, type |-> "text"] \in Item
  <2>1. \A i \in 1..Len(Parts[b]) : Parts[b][i] \in Text
    BY <1>1
  <2>2. \A t \in Text : [head |-> t.head, body |-> t.body, type |-> "text"] \in Item
    BY DEF Item, Text, MediaType
  <2> QED
    BY <2>1, <2>2
<1> QED
  BY <1>1, <1>2 DEF AsParts

-----------------------------------------------------------------------------
(* Type correctness. *)

LEMMA TypeInit == Init => TypeOK
BY BlankType DEF Init, TypeOK

LEMMA AdoptType ==
    ASSUME TypeOK, NEW p \in Node, NEW c \in Node, NEW lists \in [Node -> Seq(Node)],
           Adopt(p, c, lists)
    PROVE  TypeOK'
BY RelistedType DEF Adopt, TypeOK

\* What clone() copies: n, with each object its parts, and nothing else.
LEMMA CopiedProperties ==
    ASSUME TypeOK, NEW n \in Node
    PROVE  /\ n \in Copied(n) /\ Copied(n) \subseteq Node
           /\ \A m \in Copied(n) : Elements(multipartContents[m]) \subseteq Copied(n)
           /\ \A k \in Copied(n) \ {n} :
                 \E m \in Copied(n) : k \in Elements(multipartContents[m])
<1> DEFINE closed == {X \in SUBSET Node : n \in X /\
                        \A m \in X : Elements(multipartContents[m]) \subseteq X}
<1>1. Copied(n) = {k \in Node : \A X \in closed : k \in X}
  BY DEF Copied
<1>2. n \in Copied(n) /\ Copied(n) \subseteq Node
  BY <1>1
<1>3. ASSUME NEW m \in Copied(n), NEW k \in Elements(multipartContents[m])
      PROVE  k \in Copied(n)
  <2>1. k \in Node
    BY <1>2, ElementsType DEF TypeOK
  <2>2. ASSUME NEW X \in closed PROVE k \in X
    <3>1. m \in X
      BY <1>1
    <3> QED
      BY <3>1
  <2> HIDE DEF closed
  <2> QED
    BY <1>1, <2>1, <2>2
<1>4. ASSUME NEW k \in Copied(n) \ {n},
             \A m \in Copied(n) : k \notin Elements(multipartContents[m])
      PROVE  FALSE
  <2>1. \A m \in Copied(n) \ {k} : Elements(multipartContents[m]) \subseteq Copied(n) \ {k}
    BY <1>3, <1>4
  <2>2. Copied(n) \ {k} \in closed
    BY <1>2, <2>1
  <2> HIDE DEF closed
  <2> QED
    BY <1>1, <2>2
<1> QED
  BY <1>2, <1>3, <1>4

LEMMA CloneType ==
    ASSUME TypeOK, NEW n \in Node, Clone(n)
    PROVE  TypeOK'
<1> USE DEF TypeOK
<1>1. PICK new \in Copies(n) : CloneAs(n, new)
  BY DEF Clone
<1> DEFINE image == {new[m] : m \in Copied(n)}
           Of(k) == CHOOSE m \in Copied(n) : new[m] = k
           Above(k) == CHOOSE m \in Copied(n) : k \in Elements(multipartContents[m])
<1>2. new \in [Copied(n) -> Node]
  BY DEF Copies
<1>3. image \subseteq Node /\ new[n] \in Node
  BY <1>2, CopiedProperties
<1>4. \A k \in image : Of(k) \in Copied(n) /\ new[Of(k)] = k
  OBVIOUS
<1>5. \A k \in Copied(n) \ {n} : new[Above(k)] \in Node
  BY <1>2, CopiedProperties
<1>6. ASSUME NEW m \in Copied(n)
      PROVE  [i \in DOMAIN multipartContents[m] |-> new[multipartContents[m][i]]] \in Seq(Node)
  <2>1. multipartContents[m] \in Seq(Node)
    BY CopiedProperties
  <2>2. \A i \in 1..Len(multipartContents[m]) : new[multipartContents[m][i]] \in Node
    BY <1>2, <2>1, CopiedProperties DEF Elements
  <2>3. DOMAIN multipartContents[m] = 1..Len(multipartContents[m])
        /\ Len(multipartContents[m]) \in Nat
    BY <2>1
  <2> QED
    BY <2>2, <2>3
<1> HIDE DEF Of, Above
<1>7. multipartContents' \in [Node -> Seq(Node)]
  <2>1. multipartContents' =
           [k \in Node |-> IF k \notin image THEN multipartContents[k]
               ELSE [i \in DOMAIN multipartContents[Of(k)] |->
                         new[multipartContents[Of(k)][i]]]]
    BY <1>1 DEF CloneAs, Of
  <2>2. \A k \in image : [i \in DOMAIN multipartContents[Of(k)] |->
                              new[multipartContents[Of(k)][i]]] \in Seq(Node)
    BY <1>4, <1>6
  <2> HIDE DEF image
  <2> QED
    BY <2>1, <2>2
<1>8. parent' \in [Node -> Node \cup {Null}]
  <2>1. parent' = [k \in Node |-> IF k \notin image THEN parent[k]
                                  ELSE IF k = new[n] THEN Null ELSE new[Above(Of(k))]]
    BY <1>1 DEF CloneAs, Of, Above
  <2>2. \A k \in image : k # new[n] => Of(k) \in Copied(n) \ {n}
    BY <1>4
  <2> HIDE DEF image
  <2> QED
    BY <1>5, <2>1, <2>2
<1>9. bodyAsMessage' \in [Node -> Node \cup {Null}] /\ data' \in [Node -> Data]
  <2>1. bodyAsMessage' = [k \in Node |-> IF k \notin image THEN bodyAsMessage[k]
                                         ELSE bodyAsMessage[Of(k)]]
    BY <1>1 DEF CloneAs, Of
  <2>2. data' = [k \in Node |-> IF k \notin image THEN data[k] ELSE data[Of(k)]]
    BY <1>1 DEF CloneAs, Of
  <2>3. \A k \in image : Of(k) \in Node
    BY <1>4, CopiedProperties
  <2> HIDE DEF image
  <2> QED
    BY <2>1, <2>2, <2>3
<1>10. live' \subseteq Node /\ owned' \subseteq Node /\ UNCHANGED <<held, calls>>
  BY <1>1, <1>3 DEF CloneAs
<1> QED
  BY <1>7, <1>8, <1>9, <1>10

LEMMA EditType ==
    ASSUME TypeOK, Edit \/ Share
    PROVE  TypeOK'
<1> USE DEF TypeOK
<1>1. ASSUME NEW n \in Node, New(n) PROVE TypeOK'
  BY <1>1 DEF New, pointers
<1>2. ASSUME NEW n \in Node, Delete(n) PROVE TypeOK'
  BY <1>2, ReleaseType, ForgetType DEF Delete, Release
<1>3. ASSUME NEW n \in Node, Clear(n) PROVE TypeOK'
  <2>1. [Blank EXCEPT !.frozen = data[n].frozen] \in Data
    BY BlankType DEF Data
  <2> QED
    BY <1>3, <2>1, ReleaseType, ForgetType DEF Clear, Release
<1>4. ASSUME NEW n \in Node, Assemble(n) PROVE TypeOK'
  <2>1. \A m \in Node : [data[m] EXCEPT !.head = data[m].type] \in Data
    BY DEF Data
  <2> QED
    BY <1>4, <2>1 DEF Assemble, pointers
<1>5. ASSUME NEW n \in Node, Clone(n) PROVE TypeOK'
  BY <1>5, CloneType
<1>6. ASSUME NEW p \in Node, NEW c \in Node, AppendContent(p, c) PROVE TypeOK'
  <2>1. [multipartContents EXCEPT ![p] = Append(@, c)] \in [Node -> Seq(Node)]
    OBVIOUS
  <2> QED
    BY <1>6, <2>1, AdoptType DEF AppendContent
<1>7. ASSUME NEW p \in Node, NEW c \in Node, PrependContent(p, c) PROVE TypeOK'
  <2>1. <<c>> \o multipartContents[p] \in Seq(Node)
    OBVIOUS
  <2> QED
    BY <1>7, <2>1, AdoptType DEF PrependContent
<1>8. ASSUME NEW p \in Node, NEW c \in Node, TakeContent(p, c) PROVE TypeOK'
  BY <1>8, RemoveAllType DEF TakeContent
<1>9. ASSUME NEW c \in Node, NEW p \in Node \cup {Null}, SetParent(c, p) PROVE TypeOK'
  BY <1>9, RelistedType DEF SetParent
<1>10. ASSUME NEW n \in Node, NEW t \in Inputs, SetContent(n, t) PROVE TypeOK'
  <2>1. t.head \in MediaType /\ t.body \in Body
    BY ConstantsAssumption DEF Text
  <2> QED
    BY <1>10, <2>1 DEF SetContent, pointers, Data
<1>11. ASSUME NEW n \in Node, NEW type \in MimeTypes, SetMimeType(n, type) PROVE TypeOK'
  BY <1>11, ConstantsAssumption DEF SetMimeType, pointers, Data
<1>12. ASSUME NEW n \in Node, NEW f \in BOOLEAN, SetFrozen(n, f) PROVE TypeOK'
  BY <1>12 DEF SetFrozen, pointers, Data
<1>13. ASSUME NEW n \in Node, HoldMessage(n) PROVE TypeOK'
  BY <1>13 DEF HoldMessage, pointers
<1>14. ASSUME NEW n \in Node, DropMessage(n) PROVE TypeOK'
  BY <1>14, ReleaseType, ForgetType DEF DropMessage, pointers
<1> QED
  BY <1>1, <1>2, <1>3, <1>4, <1>5, <1>6, <1>7, <1>8, <1>9, <1>10, <1>11, <1>12,
     <1>13, <1>14 DEF Edit, Share

LEMMA CallType == \A n \in Node : Call(n) \in Frame
BY DEF Call, Frame

LEMMA TopType ==
    ASSUME TypeOK, calls # <<>>
    PROVE  /\ Top \in Frame /\ Len(calls) \in 1..Len(calls)
           /\ Top.node \in Node /\ data[Top.node] \in Data
<1>1. Len(calls) \in 1..Len(calls) /\ calls[Len(calls)] \in Frame
  BY EmptySeq DEF TypeOK
<1> QED
  BY <1>1 DEF TypeOK, Top, Frame

\* The rest of a call, with its fields typed.
LEMMA ContinueType ==
    ASSUME TypeOK, calls # <<>>, NEW frame \in Frame
    PROVE  [calls EXCEPT ![Len(calls)] = frame] \in Seq(Frame)
BY TopType, ExceptSeq DEF TypeOK

LEMMA FrameUpdates ==
    ASSUME NEW f \in Frame, NEW pc \in {"clear", "read", "parts"},
           NEW todo \in Seq(Item), NEW kid \in Node \cup {Null}
    PROVE  /\ [f EXCEPT !.pc = pc] \in Frame
           /\ [f EXCEPT !.pc = pc, !.todo = todo] \in Frame
           /\ [f EXCEPT !.todo = todo, !.kid = kid] \in Frame
           /\ [f EXCEPT !.kid = kid] \in Frame
<1> DEFINE PC == {"clear", "read", "parts"}
           S == Seq(Item)
           K == Node \cup {Null}
<1>1. Frame = [node : Node, pc : PC, todo : S, kid : K]
  BY DEF Frame
<1> HIDE DEF PC, S, K
<1> QED
  BY <1>1 DEF PC, S, K

LEMMA DataUpdates ==
    ASSUME NEW d \in Data, NEW type \in MediaType, NEW b \in Body
    PROVE  /\ [d EXCEPT !.type = type] \in Data
           /\ [d EXCEPT !.body = b] \in Data
           /\ [d EXCEPT !.type = type, !.body = b] \in Data
BY DEF Data

LEMMA ParseType ==
    ASSUME TypeOK, ParseStep
    PROVE  TypeOK'
<1> USE DEF TypeOK, pointers
<1>0. {"text", "multipart", "message", "other"} \subseteq MediaType /\ NoBody \in Body /\ calls # <<>>
  BY ConstantsAssumption DEF MediaType, ParseStep, ParseClear, ParseText, ParseMultipart,
     ParseOther, ParseMessage, ParsePart, AppendPart, ParseReturn
<1> DEFINE n == Top.node
           b == data[n].body
<1>t. /\ Top \in Frame /\ n \in Node /\ data[n] \in Data /\ b \in Body
      /\ Len(calls) \in 1..Len(calls)
  BY <1>0, TopType DEF Data
<1>1. CASE ParseClear
  <2>1. [data[n] EXCEPT !.type = data[n].head] \in Data
    BY <1>t DEF Data
  <2>2. calls' \in Seq(Frame)
    BY <1>1, <1>0, <1>t, ContinueType, FrameUpdates, EmptySeq DEF ParseClear, Continue
  <2> QED
    BY <1>1, <1>t, <2>1, <2>2, ReleaseType, ForgetType DEF ParseClear, Release
<1>2. CASE ParseText
  <2>1. data' \in [Node -> Data]
    <3>1. CASE data' = data
      BY <3>1
    <3>2. CASE data' = [data EXCEPT ![n].type = "other"]
      BY <1>0, <1>t, <3>2, DataUpdates
    <3>3. CASE data' = [data EXCEPT ![n].type = "multipart", ![n].body = NoBody]
      BY <1>0, <1>t, <3>3 DEF Data
    <3> QED
      BY <1>2, <3>1, <3>2, <3>3 DEF ParseText
  <2>2. calls' \in Seq(Frame)
    <3>1. [Top EXCEPT !.pc = "parts", !.todo = AsItems(Embedded[b])] \in Frame
      BY <1>t, AsItemsType, FrameUpdates DEF Frame
    <3> QED
      BY <1>2, <1>0, <3>1, ContinueType DEF ParseText, Continue
  <2> QED
    BY <1>2, <2>1, <2>2 DEF ParseText
<1>3. CASE ParseMultipart
  <2>1. data' \in [Node -> Data]
    BY <1>3, <1>0, <1>t, DataUpdates DEF ParseMultipart
  <2>2. calls' \in Seq(Frame)
    <3>1. [Top EXCEPT !.pc = "parts", !.todo = AsParts(Parts[b])] \in Frame
      BY <1>t, AsPartsType, FrameUpdates DEF Frame
    <3> QED
      BY <1>3, <1>0, <3>1, ContinueType DEF ParseMultipart, Continue
  <2> QED
    BY <1>3, <2>1, <2>2 DEF ParseMultipart
<1>4. CASE ParseOther
  BY <1>4, <1>0, <1>t, ContinueType, FrameUpdates, EmptySeq DEF ParseOther, Continue
<1>5. ASSUME NEW m \in Node, ParseMessage(m) PROVE TypeOK'
  <2> DEFINE t == AsMessage[b]
             msg == [head |-> t.head, body |-> t.body, type |-> "text", frozen |-> data[n].frozen]
  <2>1. msg \in Data
    <3>1. t \in Text
      BY <1>t, ConstantsAssumption
    <3> QED
      BY <1>0, <1>t, <3>1 DEF Text, Data
  <2> HIDE DEF msg
  <2>2. data' = [data EXCEPT ![n].body = NoBody, ![m] = msg]
    BY <1>5 DEF ParseMessage, msg
  <2>3. data' \in [Node -> Data]
    BY <1>0, <1>t, <2>1, <2>2, DataUpdates
  <2>4. calls' \in Seq(Frame)
    <3>1. [calls EXCEPT ![Len(calls)].pc = "parts"] \in Seq(Frame)
      <4>1. [Top EXCEPT !.pc = "parts"] \in Frame
        BY <1>t, EmptySeq, FrameUpdates
      <4>2. [calls EXCEPT ![Len(calls)].pc = "parts"]
              = [calls EXCEPT ![Len(calls)] = [Top EXCEPT !.pc = "parts"]]
        BY DEF Top
      <4> QED
        BY <1>0, <4>1, <4>2, ContinueType
    <3> QED
      BY <1>5, <3>1, CallType DEF ParseMessage
  <2> QED
    BY <1>5, <1>t, <2>3, <2>4 DEF ParseMessage
<1>6. ASSUME NEW c \in Node, ParsePart(c) PROVE TypeOK'
  <2> DEFINE item == Head(Top.todo)
             rest == [Top EXCEPT !.todo = Tail(@), !.kid = c]
  <2>1. item \in Item /\ Tail(Top.todo) \in Seq(Item)
    BY <1>6, <1>t, HeadTailProperties DEF ParsePart, Frame
  <2>2. NewPart(n, item) \in Data
    BY <1>t, <2>1 DEF NewPart, Item, Data
  <2>3. rest \in Frame
    BY <1>t, <2>1, FrameUpdates
  <2>4. [calls EXCEPT ![Len(calls)] = rest] \in Seq(Frame)
    BY <1>0, <2>3, ContinueType
  <2> HIDE DEF item, rest
  <2>5. calls' \in Seq(Frame)
    <3>1. <<Call(c)>> \in Seq(Frame) /\ <<>> \in Seq(Frame)
      BY CallType
    <3> QED
      BY <1>6, <2>4, <3>1, ConcatProperties DEF ParsePart, rest
  <2>6. data' \in [Node -> Data] /\ parent' \in [Node -> Node \cup {Null}]
    BY <1>6, <1>t, <2>2 DEF ParsePart, EarlyParent, item
  <2> QED
    BY <1>6, <2>5, <2>6 DEF ParsePart
<1>7. CASE AppendPart
  <2> DEFINE c == Top.kid
             lists == [multipartContents EXCEPT ![n] = Append(@, c)]
  <2>1. c \in Node
    BY <1>7, <1>t DEF AppendPart, Frame
  <2>2. lists \in [Node -> Seq(Node)]
    BY <1>t, <2>1
  <2>3. multipartContents' \in [Node -> Seq(Node)]
    BY <1>7, <1>t, <2>1, <2>2, RelistedType DEF AppendPart
  <2>4. calls' \in Seq(Frame)
    BY <1>7, <1>0, <1>t, ContinueType, FrameUpdates, EmptySeq DEF AppendPart, Continue
  <2> QED
    BY <1>7, <1>t, <2>1, <2>3, <2>4 DEF AppendPart
<1>8. CASE ParseReturn
  BY <1>8, <1>t, SubSeqProperties DEF ParseReturn
<1> QED
  BY <1>1, <1>2, <1>3, <1>4, <1>5, <1>6, <1>7, <1>8 DEF ParseStep

\* Every reachable state is well-typed, in the middle of a parse() as well.
THEOREM TreeTypeCorrect == Spec => []TypeOK
<1>1. TypeOK /\ [Next]_vars => TypeOK'
  <2> SUFFICES ASSUME TypeOK, [Next]_vars PROVE TypeOK'
    OBVIOUS
  <2>1. ASSUME NEW n \in Node, Parse(n) PROVE TypeOK'
    BY <2>1, CallType DEF Parse, TypeOK, pointers
  <2>2. CASE UNCHANGED vars
    BY <2>2 DEF vars, pointers, TypeOK
  <2> QED
    BY <2>1, <2>2, EditType, ParseType DEF Next
<1> QED
  BY <1>1, TypeInit, PTL DEF Spec

-----------------------------------------------------------------------------
(* Who owns what. *)

CarefulCaller == "cloneMessage" \notin Ops

-----------------------------------------------------------------------------
(* The inductive invariant. *)

Listed == UNION {Elements(multipartContents[n]) : n \in Node}

Enclosed == {bodyAsMessage[n] : n \in Node} \ {Null}

\* Encapsulated messages, and those that were when the caller got hold of them.
Shared == held \cup Enclosed

\* No object that is not allocated is in use.
FreeIsBlank ==
    \A n \in Node \ live :
        parent[n] = Null /\ multipartContents[n] = <<>> /\ bodyAsMessage[n] = Null

ChildrenAgree ==
    /\ \A n \in Node : \A c \in Elements(multipartContents[n]) : c \in live /\ parent[c] = n
    /\ \A n \in Node : bodyAsMessage[n] # Null =>
          bodyAsMessage[n] \in live /\ parent[bodyAsMessage[n]] = n

ParentsAgree ==
    \A c \in live : parent[c] # Null =>
        /\ parent[c] \in live
        /\ \/ c \in Elements(multipartContents[parent[c]])
           \/ c = bodyAsMessage[parent[c]]
           \/ c \in Pending

NoDuplicates == \A n \in Node : IsInjective(multipartContents[n])

\* Each object is in one of the four sets.
OwnersPartition ==
    /\ live = owned \cup Listed \cup Shared \cup Pending
    /\ owned \cap Listed = {} /\ owned \cap Shared = {} /\ owned \cap Pending = {}
    /\ Listed \cap Shared = {} /\ Listed \cap Pending = {} /\ Shared \cap Pending = {}

\* X contains every object whose parent is in it or in Y.
DownClosed(X, Y) == \A c \in live : parent[c] \in X \cup Y => c \in X

\* No object is below itself: a set with all that is below n leaves n out.
NoLoop == \A n \in live : \E X \in SUBSET live : n \notin X /\ DownClosed(X, {n})

\* A call of parse() has let go of the old children before it makes new ones,
\* and its object cannot go away.  A part that is not parsed has no children
\* and, until it is in the list, no parent.
CallOK(i) ==
    LET f == calls[i]
        n == f.node
    IN  /\ n \in live
        /\ i < Len(calls) => f.pc = "parts"
        /\ f.pc # "parts" =>
              /\ f.kid = Null /\ f.todo = <<>>
              /\ f.pc = "read" \/ i > 1 =>
                    multipartContents[n] = <<>> /\ bodyAsMessage[n] = Null
        /\ f.kid # Null \/ f.todo # <<>> => bodyAsMessage[n] = Null
        /\ f.kid # Null =>
              /\ f.kid \in live /\ f.kid # n
              /\ \/ parent[f.kid] = n
                 \/ /\ parent[f.kid] = Null /\ i = Len(calls)
                    /\ \A d \in live : parent[d] # f.kid

CallsOK ==
    /\ \A i \in DOMAIN calls : CallOK(i)
    /\ \A i, j \in DOMAIN calls :
          /\ calls[i].node = calls[j].node => i = j
          /\ calls[i].kid = calls[j].kid /\ calls[i].kid # Null => i = j

\* The part of the invariant that is about the pointers, and all of it.
PointersInv ==
    /\ FreeIsBlank /\ ChildrenAgree /\ ParentsAgree /\ NoDuplicates
    /\ ContentsExclusive /\ OwnersPartition /\ NoLoop

OwnInv == TypeOK /\ PointersInv /\ CallsOK

FP == INSTANCE ForestProofs WITH
        nodes <- live,
        kids <- [n \in Node |-> Contents(n)],
        messages <- held \cup ({bodyAsMessage[n] : n \in live} \ {Null})

LEMMA RemoveAllIsWithout ==
    ASSUME NEW S, NEW s \in Seq(S), NEW n
    PROVE  RemoveAll(s, n) = FP!Without(s, n)
<1>0. Elements(s) = FP!Members(s)
  BY DEF Elements, FP!Members
<1>1. CASE n \notin Elements(s)
  BY <1>0, <1>1 DEF RemoveAll, FP!Without
<1>2. CASE n \in Elements(s)
  <2> DEFINE k == CHOOSE j \in DOMAIN s : s[j] = n
  <2>1. k \in 1..Len(s) /\ Len(s) \in Nat
    BY <1>2 DEF Elements
  <2>2. RemoveAll(s, n) = SubSeq(s, 1, k - 1) \o SubSeq(s, k + 1, Len(s))
    BY <1>2 DEF RemoveAll
  <2>3. FP!Without(s, n) = [j \in 1 .. Len(s) - 1 |-> IF j < k THEN s[j] ELSE s[j + 1]]
    BY <1>0, <1>2 DEF FP!Without
  <2> HIDE DEF k
  <2> DEFINE a == SubSeq(s, 1, k - 1)
             b == SubSeq(s, k + 1, Len(s))
  <2>4. /\ a \in Seq(S) /\ Len(a) = k - 1 /\ \A i \in 1 .. k - 1 : a[i] = s[i]
    BY <2>1, SubSeqProperties
  <2>5. /\ b \in Seq(S) /\ Len(b) = Len(s) - k /\ \A i \in 1 .. Len(s) - k : b[i] = s[i + k]
    BY <2>1, SubSeqProperties
  <2> HIDE DEF a, b
  <2>6. a \o b = [j \in 1 .. Len(s) - 1 |-> IF j < k THEN s[j] ELSE s[j + 1]]
    <3> DEFINE w == [j \in 1 .. Len(s) - 1 |-> IF j < k THEN s[j] ELSE s[j + 1]]
    <3>1. a \o b \in Seq(S) /\ Len(a \o b) = Len(s) - 1
      <4>1. a \o b \in Seq(S) /\ Len(a \o b) = Len(a) + Len(b)
        BY <2>4, <2>5, ConcatProperties
      <4> QED
        BY <2>1, <2>4, <2>5, <4>1
    <3>2. w \in Seq(S) /\ Len(w) = Len(s) - 1
      BY <2>1
    <3>3. ASSUME NEW j \in 1 .. Len(s) - 1 PROVE (a \o b)[j] = w[j]
      <4>1. CASE j < k
        BY <2>1, <2>4, <2>5, <4>1, ConcatProperties
      <4>2. CASE ~(j < k)
        <5>1. (a \o b)[j] = b[j - (k - 1)] /\ j - (k - 1) \in 1 .. Len(s) - k
          BY <2>1, <2>4, <2>5, <4>2, ConcatProperties
        <5>2. b[j - (k - 1)] = s[j - (k - 1) + k] /\ j - (k - 1) + k = j + 1
          BY <2>1, <2>5, <5>1
        <5> QED
          BY <4>2, <5>1, <5>2
      <4> QED
        BY <4>1, <4>2
    <3> HIDE DEF w
    <3>4. a \o b = w
      BY <3>1, <3>2, <3>3, SeqEqual
    <3> QED
      BY <3>4 DEF w
  <2> QED
    BY <2>2, <2>3, <2>6 DEF a, b
<1> QED
  BY <1>1, <1>2

LEMMA RemoveAllOne ==
    ASSUME NEW S, NEW s \in Seq(S), NEW n, IsInjective(s)
    PROVE  /\ RemoveAll(s, n) \in Seq(S) /\ Elements(RemoveAll(s, n)) = Elements(s) \ {n}
           /\ IsInjective(RemoveAll(s, n))
<1>1. RemoveAll(s, n) = FP!Without(s, n)
  BY RemoveAllIsWithout
<1>2. FP!IsInjective(s)
  BY DEF IsInjective, FP!IsInjective
<1>3. FP!Without(s, n) \in Seq(S) /\ FP!Members(FP!Without(s, n)) = FP!Members(s) \ {n}
  BY <1>2, FP!WithoutOne
<1>4. FP!IsInjective(FP!Without(s, n))
  BY <1>2, FP!WithoutOne
<1>5. \A t : FP!Members(t) = Elements(t) /\ (FP!IsInjective(t) <=> IsInjective(t))
  BY DEF Elements, FP!Members, IsInjective, FP!IsInjective
<1> QED
  BY <1>1, <1>3, <1>4, <1>5

-----------------------------------------------------------------------------
(* Reading the invariant. *)

LEMMA InElements ==
    ASSUME NEW S, NEW s \in Seq(S)
    PROVE  /\ Elements(s) \subseteq S
           /\ \A c : c \in Elements(s) <=> \E i \in DOMAIN s : s[i] = c
           /\ DOMAIN s = 1 .. Len(s) /\ Len(s) \in Nat
           /\ Elements(s) = {} <=> s = <<>>
BY EmptySeq DEF Elements

\* A child has one container, and its parent pointer leads there.
LEMMA OneContainer ==
    ASSUME TypeOK, PointersInv
    PROVE  /\ \A n \in Node : \A c \in Children(n) : c \in live /\ n \in live /\ parent[c] = n
           /\ \A n \in Node : Elements(multipartContents[n]) \subseteq Children(n)
           /\ \A n \in Node : bodyAsMessage[n] # Null => bodyAsMessage[n] \in Children(n)
           /\ \A n \in Node : \A c \in Children(n) :
                 c \in Elements(multipartContents[n]) \/ (c = bodyAsMessage[n] /\ c # Null)
<1> USE DEF TypeOK, PointersInv
<1>0. Null \notin Node /\ live \subseteq Node
  BY ConstantsAssumption
<1>1. ASSUME NEW n \in Node
      PROVE  Children(n) = IF bodyAsMessage[n] # Null THEN {bodyAsMessage[n]}
                           ELSE Elements(multipartContents[n])
  <2>1. \A x : DOMAIN <<x>> = {1} /\ <<x>>[1] = x
    OBVIOUS
  <2>2. \A x : Elements(<<x>>) = {x}
    BY <2>1 DEF Elements
  <2> QED
    BY <2>2 DEF Children, Contents
<1>2. \A n \in Node : multipartContents[n] # <<>> \/ bodyAsMessage[n] # Null => n \in live
  BY DEF FreeIsBlank
<1>3. \A n \in Node : multipartContents[n] = <<>> => Elements(multipartContents[n]) = {}
  BY InElements
<1>4. \A n \in Node : bodyAsMessage[n] # Null => Elements(multipartContents[n]) = {}
  BY <1>2, <1>3 DEF ContentsExclusive
<1>5. ASSUME NEW n \in Node, NEW c \in Children(n)
      PROVE  /\ c \in live /\ n \in live /\ parent[c] = n
             /\ c \in Elements(multipartContents[n]) \/ (c = bodyAsMessage[n] /\ c # Null)
  <2>1. CASE bodyAsMessage[n] # Null
    BY <1>1, <1>2, <2>1 DEF ChildrenAgree
  <2>2. CASE bodyAsMessage[n] = Null
    <3>1. c \in Elements(multipartContents[n])
      BY <1>1, <2>2
    <3> QED
      BY <1>2, <1>3, <3>1 DEF ChildrenAgree
  <2> QED
    BY <2>1, <2>2
<1> HIDE DEF TypeOK, PointersInv
<1>6. \A n \in Node : \A c \in Children(n) : c \in live /\ n \in live /\ parent[c] = n
  BY <1>5
<1>7. \A n \in Node : Elements(multipartContents[n]) \subseteq Children(n)
  BY <1>1, <1>4
<1>8. \A n \in Node : bodyAsMessage[n] # Null => bodyAsMessage[n] \in Children(n)
  BY <1>1
<1>9. \A n \in Node : \A c \in Children(n) :
          c \in Elements(multipartContents[n]) \/ (c = bodyAsMessage[n] /\ c # Null)
  BY <1>5
<1> QED
  BY <1>6, <1>7, <1>8, <1>9

LEMMA HoldersOf ==
    ASSUME TypeOK, PointersInv
    PROVE  /\ \A m \in Enclosed : m \in live /\ parent[m] \in live
                                  /\ bodyAsMessage[parent[m]] = m /\ Holders(m) = {parent[m]}
           /\ \A m \in Node \ Enclosed : Holders(m) = {}
<1>1. \A m \in Enclosed : \E n \in Node : bodyAsMessage[n] = m /\ m # Null
  BY DEF Enclosed
<1>2. \A n \in Node : bodyAsMessage[n] # Null =>
         n \in live /\ bodyAsMessage[n] \in live /\ parent[bodyAsMessage[n]] = n
  BY OneContainer
<1> QED
  BY <1>1, <1>2, ConstantsAssumption DEF Holders, TypeOK, Enclosed

\* What the destructors reach, and nothing else: the parts, and the messages
\* that nobody else holds.
LEMMA DoomedProperties ==
    ASSUME TypeOK, PointersInv, NEW S, S \subseteq live, NEW C, C \subseteq live
    PROVE  /\ S \subseteq Doomed(S, C) /\ Doomed(S, C) \subseteq live
           /\ \A n \in Doomed(S, C) \cup C : Elements(multipartContents[n]) \subseteq Doomed(S, C)
           /\ \A m \in Enclosed \ held : parent[m] \in Doomed(S, C) \cup C => m \in Doomed(S, C)
           /\ \A x \in Doomed(S, C) \ S :
                 x \notin held /\ x \notin owned /\ parent[x] \in Doomed(S, C) \cup C
           /\ \A X \in SUBSET live : S \subseteq X /\ Closed(X, C) => Doomed(S, C) \subseteq X
<1> DEFINE Fam == {X \in SUBSET live : S \subseteq X /\ Closed(X, C)}
           D == Doomed(S, C)
<1>0. live \subseteq Node
  BY DEF TypeOK
<1>1. D = {n \in live : \A X \in Fam : n \in X}
  BY DEF Doomed, Least
<1>2. \A n \in live : Elements(multipartContents[n]) \subseteq live
  BY <1>0 DEF PointersInv, ChildrenAgree
<1>3. S \subseteq D /\ D \subseteq live
  BY <1>1
<1>4. \A X \in SUBSET live :
         S \subseteq X /\ Closed(X, C) <=> X \in Fam
  OBVIOUS
<1>5. \A X \in Fam : D \subseteq X
  BY <1>1
<1>6. \A X : Closed(X, C) <=>
         /\ \A n \in X \cup C : Elements(multipartContents[n]) \subseteq X
         /\ \A m \in live \ (X \cup held) :
               ~ (Holders(m) # {} /\ Holders(m) \subseteq X \cup C)
  BY DEF Closed
<1> HIDE DEF D, Fam
<1>7. ASSUME NEW n \in D \cup C, NEW c \in Elements(multipartContents[n])
      PROVE  c \in D
  <2>1. n \in live /\ c \in live
    BY <1>2, <1>3
  <2>2. ASSUME NEW X \in Fam PROVE c \in X
    <3>1. n \in X \cup C
      BY <1>5
    <3>2. Closed(X, C)
      BY DEF Fam
    <3> QED
      BY <1>6, <3>1, <3>2
  <2> QED
    BY <1>1, <2>1, <2>2
<1>8. ASSUME NEW m \in Enclosed \ held, parent[m] \in D \cup C
      PROVE  m \in D
  <2>1. m \in live /\ Holders(m) = {parent[m]}
    BY HoldersOf
  <2>2. ASSUME NEW X \in Fam PROVE m \in X
    <3>1. Holders(m) \subseteq X \cup C /\ Holders(m) # {}
      BY <1>5, <1>8, <2>1
    <3>2. Closed(X, C)
      BY DEF Fam
    <3> QED
      BY <1>6, <2>1, <3>1, <3>2
  <2> QED
    BY <1>1, <2>1, <2>2
<1>9. ASSUME NEW x \in D \ S
      PROVE  x \notin held /\ x \notin owned /\ parent[x] \in D \cup C
  <2>1. x \in live
    BY <1>3
  <2>2. D \ {x} \notin Fam
    BY <1>1
  <2>3. S \subseteq D \ {x} /\ D \ {x} \in SUBSET live
    BY <1>3
  <2>4. ~ Closed(D \ {x}, C)
    BY <2>2, <2>3, <1>4
  <2>5. CASE \E n \in (D \ {x}) \cup C : ~ (Elements(multipartContents[n]) \subseteq D \ {x})
    <3>1. PICK n \in D \cup C : x \in Elements(multipartContents[n])
      BY <1>7, <2>5
    <3>2. n \in Node /\ x \in Listed
      BY <1>0, <1>3, <3>1 DEF Listed
    <3>3. parent[x] = n
      BY <3>1, <3>2 DEF PointersInv, ChildrenAgree
    <3> QED
      BY <3>1, <3>2, <3>3 DEF PointersInv, OwnersPartition, Shared
  <2>6. CASE \E m \in live \ ((D \ {x}) \cup held) :
                Holders(m) # {} /\ Holders(m) \subseteq (D \ {x}) \cup C
    <3>1. PICK m \in live \ ((D \ {x}) \cup held) :
                  Holders(m) # {} /\ Holders(m) \subseteq (D \ {x}) \cup C
      BY <2>6
    <3>2. m \in Enclosed /\ Holders(m) = {parent[m]}
      BY <1>0, <3>1, HoldersOf
    <3>3. m \in D
      BY <1>8, <3>1, <3>2
    <3>4. m = x
      BY <3>1, <3>3
    <3> QED
      BY <3>1, <3>2, <3>4 DEF PointersInv, OwnersPartition, Shared
  <2> QED
    BY <1>6, <2>4, <2>5, <2>6
<1> QED
  BY <1>3, <1>4, <1>5, <1>7, <1>8, <1>9 DEF D
\* The lists after a deletion.
LEMMA ListsAfterProperties ==
    ASSUME TypeOK, PointersInv, NEW S, S \subseteq live, NEW E,
           \A s, t \in S : s = t
    PROVE  \A n \in Node :
              /\ ListsAfter(S, E)[n] \in Seq(Node) /\ IsInjective(ListsAfter(S, E)[n])
              /\ Elements(ListsAfter(S, E)[n]) = IF n \in E THEN {}
                                                 ELSE Elements(multipartContents[n]) \ S
              /\ n \in E \/ multipartContents[n] = <<>> => ListsAfter(S, E)[n] = <<>>
<1> SUFFICES ASSUME NEW n \in Node
             PROVE  /\ ListsAfter(S, E)[n] \in Seq(Node) /\ IsInjective(ListsAfter(S, E)[n])
                    /\ Elements(ListsAfter(S, E)[n]) = IF n \in E THEN {}
                                                       ELSE Elements(multipartContents[n]) \ S
                    /\ n \in E \/ multipartContents[n] = <<>> => ListsAfter(S, E)[n] = <<>>
  OBVIOUS
<1> DEFINE list == multipartContents[n]
           after == ListsAfter(S, E)[n]
<1>1. list \in Seq(Node) /\ IsInjective(list)
  BY DEF TypeOK, PointersInv, NoDuplicates
<1>2. <<>> \in Seq(Node) /\ IsInjective(<<>>) /\ Elements(<<>>) = {}
  BY DEF IsInjective, Elements
<1>3. \A c \in Elements(list) : parent[c] = n
  BY DEF PointersInv, ChildrenAgree
<1>4. after = IF n \in E THEN <<>>
              ELSE IF n \in {parent[m] : m \in S}
              THEN RemoveAll(list, CHOOSE m \in S : parent[m] = n) ELSE list
  BY DEF ListsAfter
<1> HIDE DEF list, after
<1>5. CASE n \in E
  <2>1. after = <<>>
    BY <1>4, <1>5
  <2> QED
    BY <1>2, <1>5, <2>1 DEF after
<1>6. CASE n \notin E /\ n \in {parent[m] : m \in S}
  <2>1. PICK s \in S : parent[s] = n /\ S = {s}
    BY <1>6
  <2>2. (CHOOSE m \in S : parent[m] = n) = s
    BY <2>1
  <2>3. after = RemoveAll(list, s)
    BY <1>4, <1>6, <2>2
  <2>4. list = <<>> => after = <<>>
    BY <1>2, <2>3 DEF RemoveAll
  <2>5. after \in Seq(Node) /\ Elements(after) = Elements(list) \ {s} /\ IsInjective(after)
    BY <1>1, <2>3, RemoveAllOne
  <2> QED
    BY <1>6, <2>1, <2>4, <2>5 DEF list, after
<1>7. CASE n \notin E /\ n \notin {parent[m] : m \in S}
  <2>1. after = list /\ Elements(list) = Elements(list) \ S
    BY <1>3, <1>4, <1>7
  <2> QED
    BY <1>1, <1>7, <2>1 DEF list, after
<1> QED
  BY <1>5, <1>6, <1>7

\* One object that no shared_ptr to a message points to is destroyed, or
\* none, and the objects of C are emptied: everything still fits together.
LEMMA ReleaseKeeps ==
    ASSUME TypeOK, PointersInv, Pending = {}, Pending' = {},
           NEW S, S \subseteq live, NEW C, C \subseteq live,
           \A s, t \in S : s = t, S \cap Enclosed = {},
           ReleasePointers(S, C), held' = held \ S
    PROVE  PointersInv'
<1> DEFINE D == Doomed(S, C)
           E == D \cup C
           Orphans == UNION {Children(n) : n \in E}
<1>0. live \subseteq Node /\ Null \notin Node
  BY ConstantsAssumption DEF TypeOK
<1>1. /\ S \subseteq D /\ D \subseteq live
      /\ \A n \in E : Elements(multipartContents[n]) \subseteq D
      /\ \A m \in Enclosed \ held : parent[m] \in E => m \in D
      /\ \A x \in D \ S : x \notin held /\ x \notin owned /\ parent[x] \in E
  BY DoomedProperties
<1>2. live' = live \ D /\ owned' = owned \ D
  BY DEF ReleasePointers
<1>3. \A n \in Node : parent'[n] = IF n \in D \cup Orphans THEN Null ELSE parent[n]
  BY DEF ReleasePointers, ParentsAfter
<1>4. \A n \in Node : bodyAsMessage'[n] = IF n \in E THEN Null ELSE bodyAsMessage[n]
  BY DEF ReleasePointers
<1>5. \A n \in Node :
         /\ multipartContents'[n] \in Seq(Node) /\ IsInjective(multipartContents'[n])
         /\ Elements(multipartContents'[n]) = IF n \in E THEN {}
                                              ELSE Elements(multipartContents[n]) \ S
         /\ n \in E \/ multipartContents[n] = <<>> => multipartContents'[n] = <<>>
  <2>1. multipartContents' = ListsAfter(S, E)
    BY DEF ReleasePointers
  <2> HIDE DEF E
  <2>2. \A n \in Node :
           /\ ListsAfter(S, E)[n] \in Seq(Node) /\ IsInjective(ListsAfter(S, E)[n])
           /\ Elements(ListsAfter(S, E)[n]) = IF n \in E THEN {}
                                              ELSE Elements(multipartContents[n]) \ S
           /\ n \in E \/ multipartContents[n] = <<>> => ListsAfter(S, E)[n] = <<>>
    BY ListsAfterProperties
  <2> QED
    BY <2>1, <2>2
<1>6. \A c \in Orphans : parent[c] \in E
  BY <1>0, <1>1, OneContainer
<1>7. /\ \A n \in E : Elements(multipartContents[n]) \subseteq Orphans
      /\ \A n \in E : bodyAsMessage[n] # Null => bodyAsMessage[n] \in Orphans
  BY <1>0, <1>1, OneContainer
<1>8. E \subseteq live /\ C \subseteq E /\ D \subseteq E
  BY <1>1
<1> HIDE DEF D, E, Orphans
<1> USE DEF PointersInv
<1>9. FreeIsBlank'
  BY <1>0, <1>2, <1>3, <1>4, <1>5, <1>8 DEF FreeIsBlank
<1>10. ChildrenAgree'
  <2>1. ASSUME NEW n \in Node, NEW c \in Elements(multipartContents'[n])
        PROVE  c \in live' /\ parent'[c] = n
    <3>1. n \notin E /\ c \in Elements(multipartContents[n]) /\ c \notin S
      BY <1>5, <2>1
    <3>2. c \in live /\ parent[c] = n
      BY <3>1 DEF ChildrenAgree
    <3>3. c \notin D /\ c \notin Orphans
      BY <1>1, <1>6, <3>1, <3>2 DEF E
    <3> QED
      BY <1>0, <1>2, <1>3, <3>2, <3>3
  <2>2. ASSUME NEW n \in Node, bodyAsMessage'[n] # Null
        PROVE  bodyAsMessage'[n] \in live' /\ parent'[bodyAsMessage'[n]] = n
    <3> DEFINE x == bodyAsMessage[n]
    <3>1. n \notin E /\ bodyAsMessage'[n] = x /\ x # Null
      BY <1>4, <2>2
    <3>2. x \in live /\ parent[x] = n /\ x \in Enclosed
      BY <3>1 DEF ChildrenAgree, Enclosed
    <3>3. x \notin D /\ x \notin Orphans
      BY <1>1, <1>6, <3>1, <3>2 DEF E
    <3> QED
      BY <1>0, <1>2, <1>3, <3>1, <3>2, <3>3
  <2> QED
    BY <2>1, <2>2 DEF ChildrenAgree
<1>11. ParentsAgree'
  <2> SUFFICES ASSUME NEW c \in live', parent'[c] # Null
               PROVE  /\ parent'[c] \in live'
                      /\ \/ c \in Elements(multipartContents'[parent'[c]])
                         \/ c = bodyAsMessage'[parent'[c]]
    BY DEF ParentsAgree
  <2> DEFINE q == parent[c]
  <2>1. c \in live /\ c \in Node /\ c \notin D /\ c \notin Orphans /\ parent'[c] = q /\ q # Null
    BY <1>0, <1>2, <1>3
  <2>2. q \in live /\ (c \in Elements(multipartContents[q]) \/ c = bodyAsMessage[q])
    BY <2>1 DEF ParentsAgree
  <2>3. q \notin E
    BY <1>0, <1>7, <2>1, <2>2
  <2>4. c \notin S
    BY <1>1, <2>1
  <2> QED
    BY <1>0, <1>2, <1>4, <1>5, <1>8, <2>1, <2>2, <2>3, <2>4
<1>12. NoDuplicates'
  BY <1>5 DEF NoDuplicates
<1>13. ContentsExclusive'
  BY <1>0, <1>2, <1>4, <1>5 DEF ContentsExclusive
<1>14. OwnersPartition'
  <2>1. Listed' = Listed \ D
    <3>1. ASSUME NEW c \in Listed' PROVE c \in Listed \ D
      <4>1. PICK n \in Node : c \in Elements(multipartContents'[n])
        BY DEF Listed
      <4>2. c \in live'
        BY <1>10, <4>1 DEF ChildrenAgree
      <4> QED
        BY <1>2, <1>5, <4>1, <4>2 DEF Listed
    <3>2. ASSUME NEW c \in Listed \ D PROVE c \in Listed'
      <4>1. PICK n \in Node : c \in Elements(multipartContents[n])
        BY DEF Listed
      <4>2. n \notin E /\ c \notin S
        BY <1>1, <3>2, <4>1 DEF E
      <4>3. c \in Elements(multipartContents'[n])
        BY <1>5, <4>1, <4>2
      <4> QED
        BY <4>1, <4>3 DEF Listed
    <3> QED
      BY <3>1, <3>2
  <2>2. Enclosed' \subseteq Enclosed \ D
    <3> SUFFICES ASSUME NEW m \in Enclosed' PROVE m \in Enclosed \ D
      OBVIOUS
    <3>1. PICK n \in Node : m = bodyAsMessage'[n] /\ m # Null
      BY DEF Enclosed
    <3>2. m \in live' /\ m = bodyAsMessage[n]
      BY <1>4, <1>10, <3>1 DEF ChildrenAgree
    <3> QED
      BY <1>2, <3>1, <3>2 DEF Enclosed
  <2>3. Enclosed \ (D \cup held) \subseteq Enclosed'
    <3> SUFFICES ASSUME NEW m \in Enclosed, m \notin D, m \notin held PROVE m \in Enclosed'
      OBVIOUS
    <3>1. parent[m] \in live /\ bodyAsMessage[parent[m]] = m /\ m # Null
      BY HoldersOf DEF Enclosed
    <3>2. parent[m] \notin E
      BY <1>1 DEF E
    <3> QED
      BY <1>0, <1>4, <3>1, <3>2 DEF Enclosed
  <2>4. held' = held \ D
    BY <1>1
  <2> QED
    BY <1>2, <2>1, <2>2, <2>3, <2>4 DEF OwnersPartition, Shared
<1>15. NoLoop'
  <2> SUFFICES ASSUME NEW n \in live'
               PROVE  \E X \in SUBSET live' : n \notin X /\ DownClosed(X, {n})'
    BY DEF NoLoop, DownClosed
  <2>1. PICK X \in SUBSET live : n \notin X /\ DownClosed(X, {n})
    BY <1>2 DEF NoLoop
  <2>2. \A c \in live' : parent'[c] # Null => parent'[c] = parent[c]
    BY <1>0, <1>2, <1>3
  <2>3. \A c \in live' : parent'[c] \in (X \cap live') \cup {n} => c \in X \cap live'
    BY <1>0, <1>2, <2>1, <2>2 DEF DownClosed
  <2> QED
    BY <2>1, <2>3 DEF DownClosed
<1> QED
  BY <1>9, <1>10, <1>11, <1>12, <1>13, <1>14, <1>15
-----------------------------------------------------------------------------
(* How the tree changes. *)

\* Nothing but who shares the messages may change.
LEMMA SamePointers ==
    ASSUME PointersInv, UNCHANGED <<live, owned, pointers>>,
           Shared' = Shared, Pending' = Pending
    PROVE  PointersInv'
<1> USE DEF pointers, PointersInv
<1>1. FreeIsBlank' /\ ChildrenAgree' /\ NoDuplicates' /\ ContentsExclusive'
  BY DEF FreeIsBlank, ChildrenAgree, NoDuplicates, ContentsExclusive
<1>2. ParentsAgree'
  BY DEF ParentsAgree
<1>3. NoLoop'
  BY DEF NoLoop, DownClosed
<1>4. Listed' = Listed
  BY DEF Listed
<1>5. OwnersPartition'
  BY <1>4 DEF OwnersPartition
<1> QED
  BY <1>1, <1>2, <1>3, <1>5

\* A new object, that nobody points to yet.
LEMMA NewKeeps ==
    ASSUME TypeOK, PointersInv, NEW c \in Node \ live, live' = live \cup {c},
           UNCHANGED <<held, pointers>>,
           \/ owned' = owned \cup {c} /\ Pending' = Pending
           \/ owned' = owned /\ Pending' = Pending \cup {c}
    PROVE  PointersInv'
<1> USE DEF pointers, PointersInv
<1>0. Null \notin Node /\ live \subseteq Node
  BY ConstantsAssumption DEF TypeOK
<1>1. parent[c] = Null /\ multipartContents[c] = <<>> /\ bodyAsMessage[c] = Null
  BY DEF FreeIsBlank
<1>2. \A d \in live : parent[d] # c
  BY <1>0 DEF ParentsAgree
<1>3. FreeIsBlank' /\ ChildrenAgree' /\ NoDuplicates' /\ ContentsExclusive'
  BY <1>1 DEF FreeIsBlank, ChildrenAgree, NoDuplicates, ContentsExclusive
<1>4. ParentsAgree'
  <2>1. \A d \in live' : parent'[d] # Null => d \in live /\ parent[d] \in live
    BY <1>1 DEF ParentsAgree
  <2> QED
    BY <2>1 DEF ParentsAgree
<1>5. OwnersPartition'
  <2>1. Listed' = Listed /\ Enclosed' = Enclosed
    BY DEF Listed, Enclosed
  <2> QED
    BY <2>1 DEF OwnersPartition, Shared
<1>6. NoLoop'
  <2>1. ASSUME NEW n \in live PROVE \E X \in SUBSET live' : n \notin X /\ DownClosed(X, {n})'
    <3>1. PICK X \in SUBSET live : n \notin X /\ DownClosed(X, {n})
      BY DEF NoLoop
    <3>2. Null \notin X \cup {n}
      BY <1>0
    <3>3. \A d \in live' : parent'[d] \in X \cup {n} => d \in X
      BY <1>1, <3>1, <3>2 DEF DownClosed
    <3> QED
      BY <3>1, <3>3 DEF DownClosed
  <2>2. {} \in SUBSET live' /\ DownClosed({}, {c})'
    <3>1. \A d \in live' : parent'[d] # c
      BY <1>0, <1>1, <1>2
    <3> QED
      BY <3>1 DEF DownClosed
  <2> QED
    BY <2>1, <2>2 DEF NoLoop, DownClosed
<1> QED
  BY <1>3, <1>4, <1>5, <1>6

\* c, with all that is below it, becomes a sub-content of p.
LEMMA AdoptKeeps ==
    ASSUME TypeOK, PointersInv, UNCHANGED <<live, held, bodyAsMessage>>,
           NEW c \in live, c \notin Shared, NEW p \in live, bodyAsMessage[p] = Null,
           \A n \in Node :
              /\ multipartContents'[n] \in Seq(Node) /\ IsInjective(multipartContents'[n])
              /\ Elements(multipartContents'[n]) =
                    (Elements(multipartContents[n]) \ {c}) \cup (IF n = p THEN {c} ELSE {}),
           parent' = [parent EXCEPT ![c] = p],
           owned' = owned \ {c}, Pending' = Pending \ {c},
           NEW T, T \subseteq live, c \in T, p \notin T, DownClosed(T, {c})
    PROVE  PointersInv'
<1> USE DEF PointersInv
<1>0. Null \notin Node /\ live \subseteq Node
  BY ConstantsAssumption DEF TypeOK
<1>1. \A n \in Node : parent'[n] = IF n = c THEN p ELSE parent[n]
  BY DEF TypeOK
<1>2. \A n \in Node : /\ Elements(multipartContents'[n]) = {} <=> multipartContents'[n] = <<>>
                      /\ Elements(multipartContents[n]) = {} <=> multipartContents[n] = <<>>
  BY InElements DEF TypeOK
<1>3. FreeIsBlank'
  BY <1>0, <1>1, <1>2 DEF FreeIsBlank
<1>4. ChildrenAgree'
  <2>1. ASSUME NEW n \in Node, NEW d \in Elements(multipartContents'[n])
        PROVE  d \in live /\ parent'[d] = n
    <3>1. (d = c /\ n = p) \/ (d # c /\ d \in Elements(multipartContents[n]))
      BY <2>1
    <3> QED
      BY <1>0, <1>1, <3>1 DEF ChildrenAgree
  <2>2. \A n \in Node : bodyAsMessage[n] # Null => bodyAsMessage[n] # c
    BY DEF Shared, Enclosed
  <2>3. \A n \in Node : bodyAsMessage'[n] # Null =>
           bodyAsMessage'[n] \in live' /\ parent'[bodyAsMessage'[n]] = n
    BY <1>0, <1>1, <2>2 DEF ChildrenAgree
  <2> QED
    BY <2>1, <2>3 DEF ChildrenAgree
<1>5. ParentsAgree'
  <2> SUFFICES ASSUME NEW d \in live, parent'[d] # Null
               PROVE  /\ parent'[d] \in live
                      /\ \/ d \in Elements(multipartContents'[parent'[d]])
                         \/ d = bodyAsMessage[parent'[d]]
                         \/ d \in Pending'
    BY DEF ParentsAgree
  <2>1. CASE d = c
    BY <1>0, <1>1, <2>1
  <2>2. CASE d # c
    <3>1. parent'[d] = parent[d]
      BY <1>0, <1>1, <2>2
    <3>2. /\ parent[d] \in live /\ parent[d] \in Node
          /\ \/ d \in Elements(multipartContents[parent[d]])
             \/ d = bodyAsMessage[parent[d]]
             \/ d \in Pending
      BY <1>0, <3>1 DEF ParentsAgree
    <3> QED
      BY <2>2, <3>1, <3>2
  <2> QED
    BY <2>1, <2>2
<1>6. NoDuplicates'
  BY DEF NoDuplicates
<1>7. ContentsExclusive'
  BY <1>0, <1>2 DEF ContentsExclusive
<1>8. OwnersPartition'
  <2>1. Enclosed' = Enclosed
    BY DEF Enclosed
  <2>2. Listed' = Listed \cup {c}
    <3>1. \A d : d \in Listed' <=> \E n \in Node : d \in Elements(multipartContents'[n])
      BY DEF Listed
    <3>2. \A d : d \in Listed <=> \E n \in Node : d \in Elements(multipartContents[n])
      BY DEF Listed
    <3>3. \A n \in Node : \A d : d \in Elements(multipartContents'[n]) <=>
             (d # c /\ d \in Elements(multipartContents[n])) \/ (d = c /\ n = p)
      OBVIOUS
    <3> QED
      BY <1>0, <3>1, <3>2, <3>3
  <2> QED
    BY <2>1, <2>2 DEF OwnersPartition, Shared
<1>9. NoLoop'
  <2> SUFFICES ASSUME NEW n \in live
               PROVE  \E X \in SUBSET live : n \notin X /\ DownClosed(X, {n})'
    BY DEF NoLoop, DownClosed
  <2>1. PICK X \in SUBSET live : n \notin X /\ DownClosed(X, {n})
    BY DEF NoLoop
  <2>2. \A Y : DownClosed(Y, {n})' <=>
           /\ \A d \in live \ {c} : parent[d] \in Y \cup {n} => d \in Y
           /\ p \in Y \cup {n} => c \in Y
    BY <1>0, <1>1 DEF DownClosed
  <2>3. CASE p \notin X \cup {n}
    BY <2>1, <2>2, <2>3 DEF DownClosed
  <2>4. CASE n \notin T
    <3>1. n \notin X \cup T /\ X \cup T \in SUBSET live /\ DownClosed(X \cup T, {n})'
      BY <2>1, <2>2, <2>4 DEF DownClosed
    <3> QED
      BY <3>1
  <2>5. CASE n \in T
    <3>1. n \notin X \cap T /\ X \cap T \in SUBSET live /\ DownClosed(X \cap T, {n})'
      BY <2>1, <2>2, <2>5 DEF DownClosed
    <3> QED
      BY <3>1
  <2> QED
    BY <2>3, <2>4, <2>5
<1> QED
  BY <1>3, <1>4, <1>5, <1>6, <1>7, <1>8, <1>9

\* The caller takes c out of its list.
LEMMA TakeKeeps ==
    ASSUME TypeOK, PointersInv, UNCHANGED <<live, held, bodyAsMessage>>,
           NEW c \in Node, c \in Listed \cup owned,
           \A n \in Node :
              /\ multipartContents'[n] \in Seq(Node) /\ IsInjective(multipartContents'[n])
              /\ Elements(multipartContents'[n]) = Elements(multipartContents[n]) \ {c},
           parent' = [parent EXCEPT ![c] = Null],
           owned' = owned \cup {c}, Pending' = Pending
    PROVE  PointersInv'
<1> USE DEF PointersInv
<1>0. Null \notin Node /\ live \subseteq Node
  BY ConstantsAssumption DEF TypeOK
<1>1. \A n \in Node : parent'[n] = IF n = c THEN Null ELSE parent[n]
  BY DEF TypeOK
<1>2. \A n \in Node : /\ Elements(multipartContents'[n]) = {} <=> multipartContents'[n] = <<>>
                      /\ Elements(multipartContents[n]) = {} <=> multipartContents[n] = <<>>
  BY InElements DEF TypeOK
<1>3. FreeIsBlank'
  BY <1>0, <1>1, <1>2 DEF FreeIsBlank
<1>4. ChildrenAgree'
  <2>1. \A n \in Node : bodyAsMessage[n] # Null => bodyAsMessage[n] # c
    BY DEF OwnersPartition, Shared, Enclosed
  <2>2. ASSUME NEW n \in Node, NEW d \in Elements(multipartContents'[n])
        PROVE  d \in live /\ parent'[d] = n
    <3>1. d # c /\ d \in Elements(multipartContents[n])
      BY <2>2
    <3> QED
      BY <1>0, <1>1, <3>1 DEF ChildrenAgree
  <2>3. ASSUME NEW n \in Node, bodyAsMessage'[n] # Null
        PROVE  bodyAsMessage'[n] \in live' /\ parent'[bodyAsMessage'[n]] = n
    BY <1>0, <1>1, <2>1, <2>3 DEF ChildrenAgree
  <2> QED
    BY <2>2, <2>3 DEF ChildrenAgree
<1>5. ParentsAgree'
  <2> SUFFICES ASSUME NEW d \in live, parent'[d] # Null
               PROVE  /\ parent'[d] \in live
                      /\ \/ d \in Elements(multipartContents'[parent'[d]])
                         \/ d = bodyAsMessage[parent'[d]]
                         \/ d \in Pending
    BY DEF ParentsAgree
  <2>1. d # c /\ parent'[d] = parent[d]
    BY <1>0, <1>1
  <2>2. /\ parent[d] \in live /\ parent[d] \in Node
        /\ \/ d \in Elements(multipartContents[parent[d]])
           \/ d = bodyAsMessage[parent[d]]
           \/ d \in Pending
    BY <1>0, <2>1 DEF ParentsAgree
  <2> QED
    BY <2>1, <2>2
<1>6. NoDuplicates'
  BY DEF NoDuplicates
<1>7. ContentsExclusive'
  BY <1>0, <1>2 DEF ContentsExclusive
<1>8. OwnersPartition'
  <2>1. Enclosed' = Enclosed
    BY DEF Enclosed
  <2>2. Listed' = Listed \ {c}
    <3>1. \A d : d \in Listed' <=> \E n \in Node : d \in Elements(multipartContents'[n])
      BY DEF Listed
    <3>2. \A d : d \in Listed <=> \E n \in Node : d \in Elements(multipartContents[n])
      BY DEF Listed
    <3>3. \A n \in Node : \A d : d \in Elements(multipartContents'[n]) <=>
             d # c /\ d \in Elements(multipartContents[n])
      OBVIOUS
    <3> QED
      BY <3>1, <3>2, <3>3
  <2> QED
    BY <2>1, <2>2 DEF OwnersPartition, Shared
<1>9. NoLoop'
  <2> SUFFICES ASSUME NEW n \in live
               PROVE  \E X \in SUBSET live : n \notin X /\ DownClosed(X, {n})'
    BY DEF NoLoop, DownClosed
  <2>1. PICK X \in SUBSET live : n \notin X /\ DownClosed(X, {n})
    BY DEF NoLoop
  <2>2. DownClosed(X, {n})'
    BY <1>0, <1>1, <2>1 DEF DownClosed
  <2> QED
    BY <2>1, <2>2
<1> QED
  BY <1>3, <1>4, <1>5, <1>6, <1>7, <1>8, <1>9
-----------------------------------------------------------------------------
(* clone() *)

\* Nothing that is copied has a parent below it that is copied.
LEMMA CopiedBelow ==
    ASSUME TypeOK, PointersInv, NEW n \in live
    PROVE  Copied(n) \subseteq live /\ parent[n] \notin Copied(n)
<1>0. live \subseteq Node /\ n \in Node
  BY DEF TypeOK
<1>1. \A X \in SUBSET Node :
         n \in X /\ (\A m \in X : Elements(multipartContents[m]) \subseteq X) => Copied(n) \subseteq X
  BY DEF Copied
<1>2. PICK X \in SUBSET live : n \notin X /\ DownClosed(X, {n})
  BY DEF PointersInv, NoLoop
<1>3. ASSUME NEW m \in X \cup {n}, NEW c \in Elements(multipartContents[m])
      PROVE  c \in X
  <2>1. c \in live /\ parent[c] = m
    BY <1>0 DEF PointersInv, ChildrenAgree
  <2> QED
    BY <1>2, <2>1 DEF DownClosed
<1>4. Copied(n) \subseteq X \cup {n}
  BY <1>0, <1>1, <1>3
<1>5. parent[n] \notin X \cup {n}
  BY <1>2 DEF DownClosed
<1> QED
  BY <1>4, <1>5

\* What clone() makes of the pointers: "new" maps each object to its copy, and
\* "Of" a copy to its original.
CopyMade(n, new, Of) ==
    LET image == {new[m] : m \in Copied(n)}
    IN  /\ \A m \in Copied(n) : Of[new[m]] = m
        /\ \A k \in image : Of[k] \in Copied(n) /\ new[Of[k]] = k
        /\ live' = live \cup image /\ owned' = owned \cup {new[n]}
        /\ UNCHANGED <<held, calls>>
        /\ \A k \in Node \ image :
              /\ parent'[k] = parent[k]
              /\ multipartContents'[k] = multipartContents[k]
              /\ bodyAsMessage'[k] = bodyAsMessage[k]
        /\ \A k \in image :
              /\ parent'[k] = IF k = new[n] THEN Null ELSE new[parent[Of[k]]]
              /\ k # new[n] => parent[Of[k]] \in Copied(n)
              /\ multipartContents'[k] =
                    [i \in DOMAIN multipartContents[Of[k]] |->
                        new[multipartContents[Of[k]][i]]]
              /\ bodyAsMessage'[k] = Null

LEMMA CloneShape ==
    ASSUME TypeOK, PointersInv, CarefulCaller, NEW n \in Node, Clone(n)
    PROVE  \E new \in [Copied(n) -> Node \ live], Of \in [Node -> Node] : CopyMade(n, new, Of)
<1>1. PICK new \in Copies(n) : CloneAs(n, new)
  BY DEF Clone
<1>2. n \in live /\ \A m \in Copied(n) : bodyAsMessage[m] = Null
  BY DEF Clone, CarefulCaller
<1>3. new \in [Copied(n) -> Node \ live] /\ \A m, k \in Copied(n) : new[m] = new[k] => m = k
  BY <1>1 DEF Copies
<1> DEFINE image == {new[m] : m \in Copied(n)}
           Orig(k) == CHOOSE m \in Copied(n) : new[m] = k
           Above(k) == CHOOSE m \in Copied(n) : k \in Elements(multipartContents[m])
           Of == [k \in Node |-> IF k \in image THEN Orig(k) ELSE k]
<1>4. \A k \in image : Orig(k) \in Copied(n) /\ new[Orig(k)] = k
  OBVIOUS
<1>5. Copied(n) \subseteq Node /\ n \in Copied(n) /\ image \subseteq Node
  BY <1>3, CopiedProperties
<1>6. \A k \in Copied(n) \ {n} : Above(k) \in Copied(n) /\ k \in Elements(multipartContents[Above(k)])
  BY CopiedProperties
<1>7. live' = live \cup image /\ owned' = owned \cup {new[n]} /\ UNCHANGED <<held, calls>>
  BY <1>1 DEF CloneAs
<1>8. multipartContents' =
         [k \in Node |-> IF k \notin image THEN multipartContents[k]
             ELSE [i \in DOMAIN multipartContents[Orig(k)] |->
                       new[multipartContents[Orig(k)][i]]]]
  BY <1>1 DEF CloneAs
<1>9. parent' = [k \in Node |-> IF k \notin image THEN parent[k]
                                ELSE IF k = new[n] THEN Null ELSE new[Above(Orig(k))]]
  BY <1>1 DEF CloneAs
<1>10. bodyAsMessage' = [k \in Node |-> IF k \notin image THEN bodyAsMessage[k]
                                        ELSE bodyAsMessage[Orig(k)]]
  BY <1>1 DEF CloneAs
<1> HIDE DEF Orig, Above
<1>11. Of \in [Node -> Node]
  BY <1>4, <1>5
<1>12. \A k \in image : Of[k] = Orig(k)
  BY <1>5
<1>13. \A m \in Copied(n) : new[m] \in image /\ Of[new[m]] = m
  BY <1>3, <1>4, <1>12
<1> HIDE DEF image, Of
<1>14. \A k \in image : Of[k] \in Copied(n) /\ new[Of[k]] = k
  BY <1>4, <1>12
<1>15. ASSUME NEW k \in image
       PROVE  /\ parent'[k] = IF k = new[n] THEN Null ELSE new[parent[Of[k]]]
              /\ k # new[n] => parent[Of[k]] \in Copied(n)
  <2>1. CASE k # new[n]
    <3>1. Of[k] \in Copied(n) \ {n}
      BY <1>14, <2>1
    <3>2. Above(Of[k]) \in Copied(n) /\ parent[Of[k]] = Above(Of[k])
      BY <1>5, <1>6, <3>1 DEF PointersInv, ChildrenAgree
    <3> QED
      BY <1>5, <1>9, <1>12, <2>1, <3>2
  <2>2. CASE k = new[n]
    BY <1>5, <1>9, <2>2
  <2> QED
    BY <2>1, <2>2
<1>16. \A k \in image :
          /\ multipartContents'[k] = [i \in DOMAIN multipartContents[Of[k]] |->
                                         new[multipartContents[Of[k]][i]]]
          /\ bodyAsMessage'[k] = Null
  BY <1>2, <1>5, <1>8, <1>10, <1>12, <1>14
<1>17. \A k \in Node \ image :
          /\ parent'[k] = parent[k]
          /\ multipartContents'[k] = multipartContents[k]
          /\ bodyAsMessage'[k] = bodyAsMessage[k]
  BY <1>8, <1>9, <1>10
<1>18. CopyMade(n, new, Of)
  BY <1>7, <1>13, <1>14, <1>15, <1>16, <1>17 DEF image, CopyMade
<1> QED
  BY <1>3, <1>11, <1>18

LEMMA CloneKeepsPointers ==
    ASSUME TypeOK, PointersInv, CarefulCaller, calls = <<>>, NEW n \in Node, Clone(n)
    PROVE  PointersInv'
<1>1. PICK new \in [Copied(n) -> Node \ live], Of \in [Node -> Node] : CopyMade(n, new, Of)
  BY CloneShape
<1> DEFINE image == {new[m] : m \in Copied(n)}
<1>0. /\ Null \notin Node /\ live \subseteq Node /\ n \in live
      /\ Copied(n) \subseteq live /\ n \in Copied(n) /\ parent[n] \notin Copied(n)
  BY ConstantsAssumption, CopiedProperties, CopiedBelow DEF TypeOK, Clone
<1>2. /\ \A m \in Copied(n) : new[m] \in image /\ Of[new[m]] = m
      /\ \A k \in image : Of[k] \in Copied(n) /\ new[Of[k]] = k /\ k \in Node /\ k \notin live
  BY <1>1 DEF CopyMade
<1>3. live' = live \cup image /\ owned' = owned \cup {new[n]} /\ UNCHANGED <<held, calls>>
  BY <1>1 DEF CopyMade
<1>4. \A k \in Node \ image :
         /\ parent'[k] = parent[k]
         /\ multipartContents'[k] = multipartContents[k]
         /\ bodyAsMessage'[k] = bodyAsMessage[k]
  BY <1>1 DEF CopyMade
<1>5. \A k \in image :
         /\ parent'[k] = IF k = new[n] THEN Null ELSE new[parent[Of[k]]]
         /\ k # new[n] => parent[Of[k]] \in Copied(n)
         /\ bodyAsMessage'[k] = Null
  BY <1>1 DEF CopyMade
<1>6. ASSUME NEW k \in image
      PROVE  /\ Elements(multipartContents'[k]) = {new[x] : x \in Elements(multipartContents[Of[k]])}
             /\ IsInjective(multipartContents'[k])
             /\ Elements(multipartContents[Of[k]]) \subseteq Copied(n)
  <2> DEFINE s == multipartContents[Of[k]]
             t == multipartContents'[k]
  <2>1. Of[k] \in Copied(n) /\ s \in Seq(Node) /\ IsInjective(s) /\ Elements(s) \subseteq Copied(n)
    BY <1>0, <1>2, CopiedProperties DEF TypeOK, PointersInv, NoDuplicates
  <2>2. t = [i \in DOMAIN s |-> new[s[i]]]
    BY <1>1 DEF CopyMade
  <2> HIDE DEF s, t, image
  <2>3. \A i \in DOMAIN s : s[i] \in Copied(n)
    BY <2>1 DEF Elements
  <2>4. IsInjective(t)
    BY <1>2, <2>1, <2>2, <2>3 DEF IsInjective
  <2>5. Elements(t) = {new[x] : x \in Elements(s)}
    BY <2>2 DEF Elements
  <2> QED
    BY <2>1, <2>4, <2>5 DEF s, t
<1> HIDE DEF image
<1>7. Pending = {} /\ Pending' = {}
  BY <1>3 DEF Pending
<1> USE DEF PointersInv
<1>8. FreeIsBlank'
  BY <1>3, <1>4 DEF FreeIsBlank
<1>9. ChildrenAgree'
  <2>1. ASSUME NEW k \in Node, NEW c \in Elements(multipartContents'[k])
        PROVE  c \in live' /\ parent'[c] = k
    <3>1. CASE k \notin image
      BY <1>0, <1>2, <1>3, <1>4, <3>1 DEF ChildrenAgree
    <3>2. CASE k \in image
      <4>1. PICK x \in Elements(multipartContents[Of[k]]) : c = new[x]
        BY <1>6, <3>2
      <4>2. x \in Copied(n) /\ parent[x] = Of[k] /\ Of[k] \in Copied(n)
        BY <1>0, <1>2, <1>6, <3>2, <4>1 DEF ChildrenAgree
      <4>3. c \in image /\ Of[c] = x /\ c # new[n]
        BY <1>0, <1>2, <4>1, <4>2
      <4> QED
        BY <1>2, <1>3, <1>5, <3>2, <4>2, <4>3
    <3> QED
      BY <3>1, <3>2
  <2>2. ASSUME NEW k \in Node, bodyAsMessage'[k] # Null
        PROVE  bodyAsMessage'[k] \in live' /\ parent'[bodyAsMessage'[k]] = k
    <3>1. k \notin image /\ bodyAsMessage'[k] = bodyAsMessage[k]
      BY <1>4, <1>5, <2>2
    <3>2. bodyAsMessage[k] \in live /\ parent[bodyAsMessage[k]] = k
      BY <2>2, <3>1 DEF ChildrenAgree
    <3> QED
      BY <1>0, <1>2, <1>3, <1>4, <3>1, <3>2
  <2> QED
    BY <2>1, <2>2 DEF ChildrenAgree
<1>10. ParentsAgree'
  <2> SUFFICES ASSUME NEW c \in live', parent'[c] # Null
               PROVE  /\ parent'[c] \in live'
                      /\ \/ c \in Elements(multipartContents'[parent'[c]])
                         \/ c = bodyAsMessage'[parent'[c]]
    BY DEF ParentsAgree
  <2>1. CASE c \notin image
    <3>1. c \in live /\ parent'[c] = parent[c]
      BY <1>0, <1>3, <1>4, <2>1
    <3>2. parent[c] \in live
          /\ (c \in Elements(multipartContents[parent[c]]) \/ c = bodyAsMessage[parent[c]])
      BY <1>7, <3>1 DEF ParentsAgree
    <3> QED
      BY <1>0, <1>2, <1>3, <1>4, <3>1, <3>2
  <2>2. CASE c \in image
    <3>1. /\ c # new[n] /\ parent'[c] = new[parent[Of[c]]] /\ parent[Of[c]] \in Copied(n)
          /\ Of[c] \in Copied(n) \ {n} /\ new[Of[c]] = c
      BY <1>2, <1>5, <2>2
    <3>2. PICK q \in Copied(n) : Of[c] \in Elements(multipartContents[q])
      BY <3>1, CopiedProperties
    <3>3. q = parent[Of[c]]
      BY <1>0, <3>2 DEF ChildrenAgree
    <3>4. new[q] \in image /\ Of[new[q]] = q
      BY <1>2
    <3>5. c \in Elements(multipartContents'[new[q]])
      BY <1>6, <3>1, <3>2, <3>4
    <3> QED
      BY <1>3, <3>1, <3>3, <3>4, <3>5
  <2> QED
    BY <2>1, <2>2
<1>11. NoDuplicates'
  BY <1>4, <1>6 DEF NoDuplicates
<1>12. ContentsExclusive'
  BY <1>0, <1>2, <1>3, <1>4, <1>5 DEF ContentsExclusive
<1>13. OwnersPartition'
  <2>1. Enclosed' = Enclosed
    <3>1. \A k \in image : bodyAsMessage[k] = Null
      BY <1>2 DEF FreeIsBlank
    <3>2. \A k \in Node : bodyAsMessage'[k] = bodyAsMessage[k]
      BY <1>4, <1>5, <3>1
    <3> QED
      BY <3>2 DEF Enclosed
  <2>2. Listed' = Listed \cup (image \ {new[n]})
    <3>0. /\ \A d : d \in Listed' <=> \E k \in Node : d \in Elements(multipartContents'[k])
          /\ \A d : d \in Listed <=> \E k \in Node : d \in Elements(multipartContents[k])
      BY DEF Listed
    <3>1. ASSUME NEW d \in Listed' PROVE d \in Listed \cup (image \ {new[n]})
      <4>1. PICK k \in Node : d \in Elements(multipartContents'[k])
        BY <3>0
      <4>2. CASE k \in image
        <5>1. PICK x \in Elements(multipartContents[Of[k]]) : d = new[x]
          BY <1>6, <4>1, <4>2
        <5>2. x \in Copied(n) /\ parent[x] \in Copied(n)
          BY <1>0, <1>2, <1>6, <4>2, <5>1 DEF ChildrenAgree
        <5> QED
          BY <1>0, <1>2, <5>1, <5>2
      <4> QED
        BY <1>4, <3>0, <4>1, <4>2
    <3>2. ASSUME NEW d \in Listed PROVE d \in Listed'
      <4>1. PICK k \in Node : d \in Elements(multipartContents[k])
        BY <3>0
      <4>2. k \notin image
        <5>1. multipartContents[k] # <<>>
          BY <4>1 DEF Elements
        <5> QED
          BY <1>2, <5>1 DEF FreeIsBlank
      <4> QED
        BY <1>4, <3>0, <4>1, <4>2
    <3>3. ASSUME NEW d \in image \ {new[n]} PROVE d \in Listed'
      <4>1. Of[d] \in Copied(n) \ {n} /\ new[Of[d]] = d
        BY <1>2
      <4>2. PICK q \in Copied(n) : Of[d] \in Elements(multipartContents[q])
        BY <4>1, CopiedProperties
      <4>3. new[q] \in image /\ Of[new[q]] = q /\ new[q] \in Node
        BY <1>2
      <4> QED
        BY <1>6, <3>0, <4>1, <4>2, <4>3
    <3> QED
      BY <3>1, <3>2, <3>3
  <2>3. new[n] \in image /\ image \cap live = {}
    BY <1>0, <1>2
  <2> QED
    BY <1>3, <1>7, <2>1, <2>2, <2>3 DEF OwnersPartition, Shared
<1>14. NoLoop'
  <2>0. \A d \in live : parent'[d] = parent[d] /\ (parent[d] = Null \/ parent[d] \in live)
    BY <1>0, <1>2, <1>4 DEF ParentsAgree
  <2>1. ASSUME NEW a \in live
        PROVE  \E X \in SUBSET live' : a \notin X /\ DownClosed(X, {a})'
    <3>1. PICK X \in SUBSET live : a \notin X /\ DownClosed(X, {a})
      BY DEF NoLoop
    <3>2. \A d \in image : parent'[d] \notin live
      BY <1>0, <1>2, <1>5
    <3>3. \A d \in live' : parent'[d] \in X \cup {a} => d \in X
      BY <1>3, <2>0, <3>1, <3>2 DEF DownClosed
    <3> QED
      BY <1>3, <3>1, <3>3 DEF DownClosed
  <2>2. ASSUME NEW a \in image
        PROVE  \E X \in SUBSET live' : a \notin X /\ DownClosed(X, {a})'
    <3>1. PICK Y \in SUBSET live : Of[a] \notin Y /\ DownClosed(Y, {Of[a]})
      BY <1>0, <1>2 DEF NoLoop
    <3> DEFINE X == {x \in image : Of[x] \in Y}
    <3>2. X \in SUBSET live' /\ a \notin X
      BY <1>3, <3>1
    <3>3. ASSUME NEW d \in live', parent'[d] \in X \cup {a}
          PROVE  d \in X
      <4>1. parent'[d] \in image
        BY <3>3
      <4>2. d \in image
        BY <1>0, <1>2, <1>3, <2>0, <4>1
      <4>3. d # new[n] /\ parent'[d] = new[parent[Of[d]]] /\ parent[Of[d]] \in Copied(n)
        BY <1>0, <1>2, <1>5, <4>1, <4>2
      <4>4. Of[parent'[d]] = parent[Of[d]]
        BY <1>2, <4>3
      <4>5. parent[Of[d]] \in Y \cup {Of[a]} /\ Of[d] \in live
        BY <1>0, <1>2, <3>3, <4>2, <4>4
      <4> QED
        BY <3>1, <4>2, <4>5 DEF DownClosed
    <3> HIDE DEF X
    <3> QED
      BY <3>2, <3>3 DEF DownClosed
  <2> QED
    BY <1>3, <2>1, <2>2 DEF NoLoop, DownClosed
<1> QED
  BY <1>8, <1>9, <1>10, <1>11, <1>12, <1>13, <1>14
-----------------------------------------------------------------------------
(* The caller's operations. *)

LEMMA NoCalls == calls = <<>> => Pending = {} /\ CallsOK
BY DEF Pending, CallsOK

\* An object that is not below c has a set that separates it from c.
LEMMA NotBelow ==
    ASSUME TypeOK, PointersInv, Pending = {}, NEW c \in live, NEW p \in live, p \notin Below(c)
    PROVE  \E T \in SUBSET live : c \in T /\ p \notin T /\ DownClosed(T, {c})
<1>1. PICK X \in SUBSET live :
         c \in X /\ p \notin X /\ \A m \in X : Children(m) \cap live \subseteq X
  BY DEF Below, Least
<1>2. ASSUME NEW d \in live, parent[d] \in X \cup {c} PROVE d \in X
  <2>1. parent[d] \in live /\ parent[d] \in X /\ parent[d] \in Node /\ parent[d] # Null
    BY <1>1, <1>2, ConstantsAssumption DEF TypeOK
  <2>2. d \in Elements(multipartContents[parent[d]]) \/ d = bodyAsMessage[parent[d]]
    BY <2>1 DEF PointersInv, ParentsAgree
  <2>3. d \in Children(parent[d])
    BY <2>1, <2>2, OneContainer, ConstantsAssumption DEF TypeOK
  <2> QED
    BY <1>1, <2>1, <2>3
<1> QED
  BY <1>1, <1>2 DEF DownClosed

\* A list with one object more.
LEMMA OneMore ==
    ASSUME NEW S, NEW s \in Seq(S), NEW c \in S, c \notin Elements(s), IsInjective(s),
           NEW t, t \in {Append(s, c), <<c>> \o s}
    PROVE  t \in Seq(S) /\ Elements(t) = Elements(s) \cup {c} /\ IsInjective(t)
<1>1. \A u : FP!Members(u) = Elements(u) /\ (FP!IsInjective(u) <=> IsInjective(u))
  BY DEF Elements, FP!Members, IsInjective, FP!IsInjective
<1>2. c \notin FP!Members(s) /\ FP!IsInjective(s)
  BY <1>1
<1>3. t \in Seq(S) /\ FP!Members(t) = FP!Members(s) \cup {c} /\ FP!IsInjective(t)
  BY <1>2, FP!OneMore
<1> QED
  BY <1>1, <1>3

\* What belongs to the caller has no parent.
LEMMA OwnedIsRoot ==
    ASSUME TypeOK, PointersInv, NEW c \in owned
    PROVE  c \in live /\ c \notin Listed /\ c \notin Shared /\ parent[c] = Null
<1>1. c \in live /\ c \notin Listed /\ c \notin Shared /\ c \notin Pending
  BY DEF PointersInv, OwnersPartition
<1>2. parent[c] # Null =>
         \/ c \in Elements(multipartContents[parent[c]])
         \/ c = bodyAsMessage[parent[c]]
  BY <1>1 DEF PointersInv, ParentsAgree
<1>3. parent[c] # Null => parent[c] \in Node
  BY <1>1 DEF TypeOK
<1>4. c # Null
  BY <1>1, ConstantsAssumption DEF TypeOK
<1> QED
  BY <1>1, <1>2, <1>3, <1>4 DEF Listed, Shared, Enclosed

LEMMA AdoptCall ==
    ASSUME TypeOK, PointersInv, calls = <<>>, NEW p \in Node, NEW c \in Node, NEW s,
           s \in {Append(multipartContents[p], c), <<c>> \o multipartContents[p]},
           Adopt(p, c, [multipartContents EXCEPT ![p] = s])
    PROVE  PointersInv'
<1> DEFINE lists == [multipartContents EXCEPT ![p] = s]
<1>0. /\ p \in live /\ c \in owned /\ p \notin Below(c) /\ bodyAsMessage[p] = Null
      /\ multipartContents' = IF parent[c] # p THEN Relisted(lists, c, p) ELSE lists
      /\ parent' = [parent EXCEPT ![c] = p]
      /\ owned' = owned \ {c}
      /\ UNCHANGED <<live, held, bodyAsMessage, data, calls>>
  BY DEF Adopt, BodyIsMessage
<1>1. c \in live /\ c \notin Listed /\ c \notin Shared /\ parent[c] = Null
  BY <1>0, OwnedIsRoot
<1>2. multipartContents[p] \in Seq(Node) /\ IsInjective(multipartContents[p])
  BY DEF TypeOK, PointersInv, NoDuplicates
<1>3. c \notin Elements(multipartContents[p])
  BY <1>1 DEF Listed
<1>4. s \in Seq(Node) /\ Elements(s) = Elements(multipartContents[p]) \cup {c} /\ IsInjective(s)
  <2> DEFINE q == multipartContents[p]
  <2>1. /\ q \in Seq(Node) /\ IsInjective(q) /\ c \notin Elements(q)
        /\ s \in {Append(q, c), <<c>> \o q}
    BY <1>2, <1>3
  <2> HIDE DEF q
  <2>2. s \in Seq(Node) /\ Elements(s) = Elements(q) \cup {c} /\ IsInjective(s)
    BY <2>1, OneMore
  <2> QED
    BY <2>2 DEF q
<1>5. \A n \in Node : lists[n] = IF n = p THEN s ELSE multipartContents[n]
  <2>1. multipartContents \in [Node -> Seq(Node)]
    BY DEF TypeOK
  <2> QED
    BY <2>1
<1> HIDE DEF lists
<1>6. multipartContents' = lists
  BY <1>0, <1>1, <1>4, <1>5 DEF Relisted
<1>7. ASSUME NEW n \in Node
      PROVE  /\ multipartContents'[n] \in Seq(Node) /\ IsInjective(multipartContents'[n])
             /\ Elements(multipartContents'[n]) =
                   (Elements(multipartContents[n]) \ {c}) \cup (IF n = p THEN {c} ELSE {})
  <2>1. c \notin Elements(multipartContents[n])
    BY <1>1 DEF Listed
  <2>2. multipartContents[n] \in Seq(Node) /\ IsInjective(multipartContents[n])
    BY DEF TypeOK, PointersInv, NoDuplicates
  <2> QED
    BY <1>4, <1>5, <1>6, <2>1, <2>2
<1>8. Pending = {} /\ Pending' = Pending \ {c}
  BY <1>0, NoCalls DEF Pending
<1>9. PICK T \in SUBSET live : c \in T /\ p \notin T /\ DownClosed(T, {c})
  BY <1>0, <1>1, <1>8, NotBelow
<1> QED
  BY <1>0, <1>1, <1>7, <1>8, <1>9, AdoptKeeps

\* The lists without c.
LEMMA Unlisted ==
    ASSUME TypeOK, PointersInv, NEW c, NEW q \in Node,
           \A n \in Node \ {q} : c \notin Elements(multipartContents[n])
    PROVE  LET lists == [multipartContents EXCEPT ![q] = RemoveAll(@, c)]
           IN  \A n \in Node :
                  /\ lists[n] \in Seq(Node) /\ IsInjective(lists[n])
                  /\ Elements(lists[n]) = Elements(multipartContents[n]) \ {c}
<1> DEFINE lists == [multipartContents EXCEPT ![q] = RemoveAll(@, c)]
<1>1. \A n \in Node : multipartContents[n] \in Seq(Node) /\ IsInjective(multipartContents[n])
  BY DEF TypeOK, PointersInv, NoDuplicates
<1>2. \A n \in Node : lists[n] = IF n = q THEN RemoveAll(multipartContents[n], c)
                                 ELSE multipartContents[n]
  BY DEF TypeOK
<1>3. /\ RemoveAll(multipartContents[q], c) \in Seq(Node)
      /\ Elements(RemoveAll(multipartContents[q], c)) = Elements(multipartContents[q]) \ {c}
      /\ IsInjective(RemoveAll(multipartContents[q], c))
  BY <1>1, RemoveAllOne
<1> QED
  BY <1>1, <1>2, <1>3

LEMMA TakeCall ==
    ASSUME TypeOK, PointersInv, calls = <<>>, NEW p \in Node, NEW c \in Node, TakeContent(p, c)
    PROVE  PointersInv'
<1>1. \A n \in Node \ {p} : c \notin Elements(multipartContents[n])
  BY DEF TakeContent, PointersInv, ChildrenAgree
<1>2. \A n \in Node :
         /\ multipartContents'[n] \in Seq(Node) /\ IsInjective(multipartContents'[n])
         /\ Elements(multipartContents'[n]) = Elements(multipartContents[n]) \ {c}
  <2>1. multipartContents' = [multipartContents EXCEPT ![p] = RemoveAll(@, c)]
    BY DEF TakeContent
  <2> QED
    BY <1>1, <2>1, Unlisted
<1>3. c \in Listed
  BY DEF TakeContent, Listed
<1>4. Pending' = Pending
  BY DEF Pending, TakeContent
<1> QED
  BY <1>2, <1>3, <1>4, TakeKeeps DEF TakeContent

LEMMA SetParentCall ==
    ASSUME TypeOK, PointersInv, calls = <<>>,
           NEW c \in Node, NEW p \in Node \cup {Null}, SetParent(c, p)
    PROVE  PointersInv'
<1> DEFINE old == parent[c]
           taken == IF old # Null /\ c \in Children(old)
                    THEN [multipartContents EXCEPT ![old] = RemoveAll(@, c)]
                    ELSE multipartContents
           lists == Relisted(multipartContents, c, p)
           listed == p # Null /\ c \in Elements(lists[p])
<1>0. Null \notin Node /\ live \subseteq Node
  BY ConstantsAssumption DEF TypeOK
<1>1. /\ c \in owned \/ \E q \in live : c \in Elements(multipartContents[q])
      /\ p \in live \cup {Null}
      /\ p # Null => p \notin Below(c) /\ listed /\ bodyAsMessage[p] = Null
      /\ multipartContents' = lists
      /\ parent' = [parent EXCEPT ![c] = p]
      /\ owned' = IF listed THEN owned \ {c} ELSE owned \cup {c}
      /\ UNCHANGED <<live, held, bodyAsMessage, data, calls>>
  BY DEF SetParent
<1>2. c \in owned \cup Listed /\ c \in live /\ c \notin Shared
  BY <1>0, <1>1 DEF Listed, PointersInv, OwnersPartition
<1>3. \A n \in Node \ {old} : c \notin Elements(multipartContents[n])
  BY DEF PointersInv, ChildrenAgree
<1>4. \A n \in Node :
         /\ taken[n] \in Seq(Node) /\ IsInjective(taken[n])
         /\ Elements(taken[n]) = Elements(multipartContents[n]) \ {c}
  <2>1. CASE old # Null /\ c \in Children(old)
    <3>1. old \in Node
      BY <2>1 DEF TypeOK
    <3>2. taken = [multipartContents EXCEPT ![old] = RemoveAll(@, c)]
      BY <2>1
    <3> HIDE DEF taken, old
    <3> QED
      BY <1>3, <3>1, <3>2, Unlisted
  <2>2. CASE ~(old # Null /\ c \in Children(old))
    <3>1. \A n \in Node : c \notin Elements(multipartContents[n])
      BY <1>0, <1>3, <2>2, OneContainer
    <3> QED
      BY <2>2, <3>1 DEF TypeOK, PointersInv, NoDuplicates
  <2> QED
    BY <2>1, <2>2
<1>5. lists = IF /\ p # Null
                 /\ bodyAsMessage[p] # Null \/ taken[p] # <<>>
                 /\ c \notin Elements(taken[p]) \cup {bodyAsMessage[p]}
              THEN [taken EXCEPT ![p] = Append(@, c)] ELSE taken
  BY DEF Relisted
<1>6. Pending = {} /\ Pending' = {}
  BY <1>1, NoCalls DEF Pending
<1>7. taken \in [Node -> Seq(Node)]
  BY <1>4 DEF TypeOK
<1> HIDE DEF taken, lists
<1>8. CASE p = Null
  <2>1. multipartContents' = taken /\ owned' = owned \cup {c}
    BY <1>1, <1>5, <1>8
  <2> QED
    BY <1>1, <1>2, <1>4, <1>6, <1>8, <2>1, TakeKeeps
<1>9. CASE p # Null
  <2>0. p \in live /\ p \in Node /\ bodyAsMessage[p] = Null
    BY <1>0, <1>1, <1>9
  <2>1. c \notin Elements(taken[p])
    BY <1>4, <2>0
  <2>2. multipartContents' = [taken EXCEPT ![p] = Append(@, c)] /\ owned' = owned \ {c}
    BY <1>1, <1>5, <1>9, <2>0, <2>1
  <2>3. /\ Append(taken[p], c) \in Seq(Node) /\ IsInjective(Append(taken[p], c))
        /\ Elements(Append(taken[p], c)) = Elements(taken[p]) \cup {c}
    <3>1. taken[p] \in Seq(Node) /\ IsInjective(taken[p])
      BY <1>4, <2>0
    <3> DEFINE s == taken[p]
               t == Append(s, c)
    <3>2. /\ s \in Seq(Node) /\ IsInjective(s) /\ c \notin Elements(s)
          /\ t \in {Append(s, c), <<c>> \o s}
      BY <2>1, <3>1
    <3> HIDE DEF t, s
    <3>3. t \in Seq(Node) /\ Elements(t) = Elements(s) \cup {c} /\ IsInjective(t)
      BY <3>2, OneMore
    <3> QED
      BY <3>3 DEF s, t
  <2>4. \A n \in Node : multipartContents'[n] = IF n = p THEN Append(taken[p], c) ELSE taken[n]
    BY <1>7, <2>0, <2>2
  <2>5. \A n \in Node :
           /\ multipartContents'[n] \in Seq(Node) /\ IsInjective(multipartContents'[n])
           /\ Elements(multipartContents'[n]) =
                 (Elements(multipartContents[n]) \ {c}) \cup (IF n = p THEN {c} ELSE {})
    BY <1>4, <2>0, <2>3, <2>4
  <2>6. PICK T \in SUBSET live : c \in T /\ p \notin T /\ DownClosed(T, {c})
    BY <1>1, <1>2, <1>6, <1>9, <2>0, NotBelow
  <2>7. Pending' = Pending \ {c}
    BY <1>6
  <2> QED
    BY <1>1, <1>2, <2>0, <2>2, <2>5, <2>6, <2>7, AdoptKeeps
<1> QED
  BY <1>8, <1>9

LEMMA EditKeeps ==
    ASSUME OwnInv, CarefulCaller, Edit \/ Share
    PROVE  PointersInv' /\ CallsOK'
<1> USE DEF OwnInv
<1>0. calls = <<>> /\ UNCHANGED calls
  BY DEF Edit, Share, New, Delete, Clear, Assemble, Clone, CloneAs, AppendContent, PrependContent,
     Adopt, TakeContent, SetParent, SetContent, SetMimeType, SetFrozen, HoldMessage,
     DropMessage, May
<1>1. Pending = {} /\ Pending' = {} /\ CallsOK'
  BY <1>0 DEF Pending, CallsOK
<1>2. ASSUME NEW n \in Node, New(n) PROVE PointersInv'
  BY <1>1, <1>2, NewKeeps DEF New
<1>3. ASSUME NEW n \in Node, Delete(n) PROVE PointersInv'
  <2>1. n \in owned \cup Listed
    BY <1>3 DEF Delete, Listed, TypeOK
  <2>2. n \in live /\ n \notin Enclosed /\ n \notin held
    BY <2>1 DEF PointersInv, OwnersPartition, Shared
  <2>3. ReleasePointers({n}, {}) /\ held' = held \ {n}
    BY <1>3, <2>2 DEF Delete, Release
  <2> QED
    BY <1>1, <2>2, <2>3, ReleaseKeeps
<1>4. ASSUME NEW n \in Node, Clear(n) PROVE PointersInv'
  <2>1. n \in live /\ ReleasePointers({}, {n}) /\ held' = held \ {}
    BY <1>4 DEF Clear, Release
  <2> QED
    BY <1>1, <2>1, ReleaseKeeps
<1>5. ASSUME UNCHANGED <<live, owned, held, pointers>> PROVE PointersInv'
  BY <1>1, <1>5, SamePointers DEF Shared, Enclosed, pointers
<1>6. ASSUME NEW n \in Node, Clone(n) PROVE PointersInv'
  BY <1>0, <1>6, CloneKeepsPointers
<1>7. ASSUME NEW p \in Node, NEW c \in Node, AppendContent(p, c) PROVE PointersInv'
  BY <1>0, <1>7, AdoptCall DEF AppendContent
<1>8. ASSUME NEW p \in Node, NEW c \in Node, PrependContent(p, c) PROVE PointersInv'
  BY <1>0, <1>8, AdoptCall DEF PrependContent
<1>9. ASSUME NEW p \in Node, NEW c \in Node, TakeContent(p, c) PROVE PointersInv'
  BY <1>0, <1>9, TakeCall
<1>10. ASSUME NEW c \in Node, NEW p \in Node \cup {Null}, SetParent(c, p) PROVE PointersInv'
  BY <1>0, <1>10, SetParentCall
<1>11. ASSUME NEW n \in Node, HoldMessage(n) PROVE PointersInv'
  <2>1. /\ bodyAsMessage[n] \in Enclosed /\ held' = held \cup {bodyAsMessage[n]}
        /\ UNCHANGED <<live, owned, pointers>>
    BY <1>11 DEF HoldMessage, Enclosed
  <2>2. Shared' = Shared
    BY <2>1 DEF Shared, Enclosed, pointers
  <2> QED
    BY <1>1, <2>1, <2>2, SamePointers
<1>12. ASSUME NEW m \in Node, DropMessage(m) PROVE PointersInv'
  <2>1. m \in held /\ held' = held \ {m} /\ m \in live
    BY <1>12 DEF DropMessage, PointersInv, OwnersPartition, Shared
  <2>2. CASE Holders(m) # {}
    <3>1. m \in Enclosed
      BY <2>2, HoldersOf
    <3>2. UNCHANGED <<live, owned, pointers>>
      BY <1>12, <2>2 DEF DropMessage
    <3>3. Shared' = Shared
      BY <2>1, <3>1, <3>2 DEF Shared, Enclosed, pointers
    <3> QED
      BY <1>1, <3>2, <3>3, SamePointers
  <2>3. CASE Holders(m) = {}
    <3>1. m \notin Enclosed
      BY <2>3, HoldersOf
    <3>2. ReleasePointers({m}, {})
      BY <1>12, <2>3 DEF DropMessage
    <3> QED
      BY <1>1, <2>1, <3>1, <3>2, ReleaseKeeps
  <2> QED
    BY <2>2, <2>3
<1>13. CASE Edit
  <2>1. ASSUME NEW n \in Node,
               \/ Assemble(n) \/ \E t \in Inputs : SetContent(n, t)
               \/ \E type \in MimeTypes : SetMimeType(n, type)
               \/ \E f \in BOOLEAN : SetFrozen(n, f)
        PROVE  PointersInv'
    BY <1>5, <2>1 DEF Assemble, SetContent, SetMimeType, SetFrozen
  <2> QED
    BY <1>1, <1>2, <1>3, <1>4, <1>6, <1>7, <1>8, <1>9, <1>10, <1>13, <2>1 DEF Edit
<1> QED
  BY <1>1, <1>11, <1>12, <1>13 DEF Share
-----------------------------------------------------------------------------
(* The call stack of parse(). *)

\* The call on top goes on as "frame".
GoesOn(frame) ==
    /\ calls' \in Seq(Frame)
    /\ \A i \in 1 .. Len(calls) - 1 : calls'[i] = calls[i]
    /\ calls'[Len(calls)] = frame

\* Without a further call, or with a call of parse() of c.
Alone == Len(calls') = Len(calls)
Calling(c) == Len(calls') = Len(calls) + 1 /\ calls'[Len(calls) + 1] = Call(c)

LEMMA ContinueAlone ==
    ASSUME TypeOK, calls # <<>>, NEW frame \in Frame, Continue(frame)
    PROVE  GoesOn(frame) /\ Alone
<1>1. Len(calls) \in 1 .. Len(calls)
  BY TopType
<1>2. calls' \in Seq(Frame)
  BY ContinueType DEF Continue
<1> QED
  BY <1>1, <1>2 DEF Continue, GoesOn, Alone, TypeOK

LEMMA CallsInv ==
    ASSUME TypeOK, CallsOK, calls # <<>>
    PROVE  /\ Len(calls) \in Nat \ {0} /\ DOMAIN calls = 1 .. Len(calls)
           /\ CallOK(Len(calls)) /\ Top = calls[Len(calls)] /\ Top \in Frame
           /\ \A i \in 1 .. Len(calls) : calls[i] \in Frame
           /\ \A k : k \in Pending <=> k # Null /\ \E i \in 1 .. Len(calls) : calls[i].kid = k
BY TopType DEF TypeOK, CallsOK, Top, Pending

\* The positions of the new stack: a lower call, the one that went on, and the
\* one it makes.
LEMMA StackAfter ==
    ASSUME TypeOK, calls # <<>>, NEW frame \in Frame, GoesOn(frame), NEW c, Alone \/ Calling(c)
    PROVE  /\ DOMAIN calls' = 1 .. Len(calls') /\ Len(calls') \in Nat
           /\ \A i \in 1 .. Len(calls) : i \in DOMAIN calls'
           /\ \A i \in 1 .. Len(calls) - 1 : i \in 1 .. Len(calls) /\ i # Len(calls)
           /\ \A i \in 1 .. Len(calls) : i \in 1 .. Len(calls) - 1 \/ i = Len(calls)
           /\ \A i \in DOMAIN calls' :
                 \/ i \in 1 .. Len(calls) - 1 /\ calls'[i] = calls[i]
                 \/ i = Len(calls) /\ calls'[i] = frame /\ (i < Len(calls') => ~Alone /\ Calling(c))
                 \/ i = Len(calls) + 1 /\ Calling(c) /\ calls'[i] = Call(c)
                    /\ i \notin 1 .. Len(calls) /\ ~(i < Len(calls'))
<1> DEFINE N == Len(calls)
           M == Len(calls')
<1>1. N \in Nat \ {0} /\ M \in Nat /\ DOMAIN calls' = 1 .. M
  BY TopType DEF GoesOn, TypeOK
<1>2. (Alone /\ M = N) \/ (~Alone /\ M = N + 1 /\ Calling(c) /\ calls'[N + 1] = Call(c))
  BY <1>1 DEF Alone, Calling
<1>3. (\A i \in 1 .. N - 1 : calls'[i] = calls[i]) /\ calls'[N] = frame
  BY DEF GoesOn
<1> HIDE DEF N, M
<1>4. /\ \A i \in 1 .. N : i \in 1 .. M
      /\ \A i \in 1 .. N - 1 : i \in 1 .. N /\ i # N
      /\ \A i \in 1 .. N : i \in 1 .. N - 1 \/ i = N
  BY <1>1, <1>2
<1>5. \A i \in 1 .. M :
         \/ i \in 1 .. N - 1
         \/ i = N /\ (i < M => M = N + 1)
         \/ i = N + 1 /\ M = N + 1 /\ i \notin 1 .. N /\ ~(i < M)
  BY <1>1, <1>2
<1>6. M = N + 1 => ~Alone /\ Calling(c) /\ calls'[N + 1] = Call(c)
  BY <1>1, <1>2
<1>7. \A i \in 1 .. M :
         \/ i \in 1 .. N - 1 /\ calls'[i] = calls[i]
         \/ i = N /\ calls'[i] = frame /\ (i < M => ~Alone /\ Calling(c))
         \/ i = N + 1 /\ Calling(c) /\ calls'[i] = Call(c) /\ i \notin 1 .. N /\ ~(i < M)
  BY <1>3, <1>5, <1>6
<1> QED
  BY <1>1, <1>4, <1>7 DEF N, M

LEMMA PendingAfter ==
    ASSUME TypeOK, CallsOK, calls # <<>>, NEW frame \in Frame, GoesOn(frame),
           NEW c, Alone \/ Calling(c)
    PROVE  Pending' = (Pending \ {Top.kid}) \cup ({frame.kid} \ {Null})
<1> DEFINE N == Len(calls)
<1>1. /\ N \in 1 .. N /\ Top = calls[N]
      /\ \A k : k \in Pending <=> k # Null /\ \E i \in 1 .. N : calls[i].kid = k
      /\ \A i, j \in 1 .. N : calls[i].kid = calls[j].kid /\ calls[i].kid # Null => i = j
  BY CallsInv DEF CallsOK
<1>2. /\ \A i \in 1 .. N : i \in DOMAIN calls'
      /\ \A i \in 1 .. N - 1 : i \in 1 .. N /\ i # N
      /\ \A i \in 1 .. N : i \in 1 .. N - 1 \/ i = N
      /\ \A i \in DOMAIN calls' :
            \/ i \in 1 .. N - 1 /\ calls'[i] = calls[i]
            \/ i = N /\ calls'[i] = frame
            \/ calls'[i] = Call(c)
  BY StackAfter
<1>3. calls'[N] = frame /\ \A i \in 1 .. N - 1 : calls'[i] = calls[i]
  BY DEF GoesOn
<1>4. Call(c).kid = Null
  BY DEF Call
<1>5. \A k : k \in Pending' <=> k # Null /\ \E i \in DOMAIN calls' : calls'[i].kid = k
  BY DEF Pending
<1> HIDE DEF N
<1>6. ASSUME NEW k, k # Null
      PROVE  k \in Pending' <=> k = frame.kid \/ \E i \in 1 .. N - 1 : calls[i].kid = k
  <2>1. ASSUME k \in Pending' PROVE k = frame.kid \/ \E i \in 1 .. N - 1 : calls[i].kid = k
    BY <1>2, <1>4, <1>5, <1>6, <2>1
  <2>2. ASSUME k = frame.kid PROVE k \in Pending'
    BY <1>1, <1>2, <1>3, <1>5, <1>6, <2>2
  <2>3. ASSUME NEW i \in 1 .. N - 1, calls[i].kid = k PROVE k \in Pending'
    BY <1>2, <1>3, <1>5, <1>6, <2>3
  <2> QED
    BY <2>1, <2>2, <2>3
<1>7. ASSUME NEW k, k # Null
      PROVE  k \in Pending \ {Top.kid} <=> \E i \in 1 .. N - 1 : calls[i].kid = k
  BY <1>1, <1>2, <1>7
<1>8. ASSUME NEW k PROVE k \in Pending' <=> k \in (Pending \ {Top.kid}) \cup ({frame.kid} \ {Null})
  <2>1. CASE k = Null
    BY <1>1, <1>5, <2>1
  <2>2. CASE k # Null
    BY <1>6, <1>7, <2>2
  <2> QED
    BY <2>1, <2>2
<1> QED
  BY <1>8

\* The new frame of the call on top is in order: its object is the same as
\* before, and the sub-content it is working on is its own.
FrameFits(frame) ==
    /\ frame.node = Top.node
    /\ frame.pc # "parts" =>
          /\ frame.kid = Null /\ frame.todo = <<>>
          /\ frame.pc = "read" \/ Len(calls) > 1 =>
                multipartContents'[Top.node] = <<>> /\ bodyAsMessage'[Top.node] = Null
    /\ frame.kid # Null \/ frame.todo # <<>> => bodyAsMessage'[Top.node] = Null
    /\ frame.kid # Null =>
          /\ frame.kid \in live' /\ frame.kid # Top.node /\ frame.kid \notin Pending \ {Top.kid}
          /\ \/ parent'[frame.kid] = Top.node
             \/ /\ Alone /\ parent'[frame.kid] = Null
                /\ \A d \in live' : parent'[d] # frame.kid

\* The calls below it do not notice, and a call it makes is of a new object.
LowerFit ==
    /\ \A i \in 1 .. Len(calls) : calls[i].node \in live'
    /\ \A i \in 1 .. Len(calls) - 1 :
          bodyAsMessage[calls[i].node] = Null => bodyAsMessage'[calls[i].node] = Null
    /\ \A k \in Pending \ {Top.kid} : k \in live' /\ parent'[k] = parent[k]

NewFits(frame, c) ==
    \/ Alone
    \/ /\ Calling(c) /\ frame.pc = "parts"
       /\ c \in live' \ live /\ multipartContents'[c] = <<>> /\ bodyAsMessage'[c] = Null

LEMMA CallsKeep ==
    ASSUME TypeOK, CallsOK, calls # <<>>, NEW frame \in Frame, GoesOn(frame), NEW c,
           FrameFits(frame), LowerFit, NewFits(frame, c)
    PROVE  CallsOK'
<1> DEFINE N == Len(calls)
<1>1. /\ N \in Nat /\ N \in 1 .. N /\ Top = calls[N]
      /\ \A k : k \in Pending <=> k # Null /\ \E i \in 1 .. N : calls[i].kid = k
      /\ \A i \in 1 .. N : CallOK(i)
  BY CallsInv DEF CallsOK
<1>0. \A i, j \in 1 .. N :
         /\ calls[i].node = calls[j].node => i = j
         /\ calls[i].kid = calls[j].kid /\ calls[i].kid # Null => i = j
  BY CallsInv DEF CallsOK
<1>2. /\ \A i \in 1 .. N : i \in DOMAIN calls'
      /\ \A i \in 1 .. N - 1 : i \in 1 .. N /\ i # N
      /\ \A i \in 1 .. N : i \in 1 .. N - 1 \/ i = N
      /\ \A i \in DOMAIN calls' :
            \/ i \in 1 .. N - 1 /\ calls'[i] = calls[i]
            \/ i = N /\ calls'[i] = frame /\ (i < Len(calls') => ~Alone /\ Calling(c))
            \/ i = N + 1 /\ Calling(c) /\ calls'[i] = Call(c)
               /\ i \notin 1 .. N /\ ~(i < Len(calls'))
  BY StackAfter DEF NewFits
<1>3. calls'[N] = frame /\ \A i \in 1 .. N - 1 : calls'[i] = calls[i]
  BY DEF GoesOn
<1>4. Call(c).node = c /\ Call(c).pc = "clear" /\ Call(c).todo = <<>> /\ Call(c).kid = Null
  BY DEF Call
<1>5. ASSUME NEW i \in 1 .. N - 1 PROVE CallOK(i)'
  <2> DEFINE f == calls[i]
  <2>0. i \in 1 .. N /\ i < N /\ CallOK(i)
    BY <1>1, <1>2
  <2>1. /\ f.pc = "parts"
        /\ f.kid # Null \/ f.todo # <<>> => bodyAsMessage[f.node] = Null
        /\ f.kid # Null => f.kid # f.node /\ parent[f.kid] = f.node
    BY <1>1, <2>0 DEF CallOK
  <2>2. f.kid # Null => f.kid \in Pending \ {Top.kid}
    BY <1>0, <1>1, <1>2, <2>0
  <2>3. f.node \in live' /\ (f.kid # Null => f.kid \in live' /\ parent'[f.kid] = f.node)
    BY <2>0, <2>1, <2>2 DEF LowerFit
  <2>4. f.kid # Null \/ f.todo # <<>> => bodyAsMessage'[f.node] = Null
    BY <2>1 DEF LowerFit
  <2>5. calls'[i] = f
    BY <1>3
  <2> HIDE DEF f, N
  <2> QED
    BY <2>1, <2>3, <2>4, <2>5 DEF CallOK
<1>6. ASSUME NEW i, i = N PROVE CallOK(i)'
  <2>1. Top.node \in live' /\ frame.node = Top.node
    BY <1>1 DEF LowerFit, FrameFits
  <2>2. (N < Len(calls') => frame.pc = "parts") /\ (Alone => N = Len(calls'))
    BY <1>1, <1>2 DEF NewFits, Alone
  <2>3. /\ frame.pc # "parts" =>
              /\ frame.kid = Null /\ frame.todo = <<>>
              /\ frame.pc = "read" \/ N > 1 =>
                    multipartContents'[frame.node] = <<>> /\ bodyAsMessage'[frame.node] = Null
        /\ frame.kid # Null \/ frame.todo # <<>> => bodyAsMessage'[frame.node] = Null
    BY <2>1 DEF FrameFits
  <2>4. frame.kid # Null =>
           /\ frame.kid \in live' /\ frame.kid # frame.node
           /\ \/ parent'[frame.kid] = frame.node
              \/ /\ N = Len(calls') /\ parent'[frame.kid] = Null
                 /\ \A d \in live' : parent'[d] # frame.kid
    BY <2>1, <2>2 DEF FrameFits
  <2>5. calls'[N] = frame /\ N \in Nat
    BY <1>1, <1>3
  <2> HIDE DEF N
  <2> QED
    BY <1>6, <2>1, <2>2, <2>3, <2>4, <2>5 DEF CallOK
<1>7. ASSUME NEW i \in DOMAIN calls', i = N + 1, Calling(c), calls'[i] = Call(c), ~(i < Len(calls')),
             i \notin 1 .. N
      PROVE  CallOK(i)'
  <2>1. ~Alone
    BY <1>1, <1>7 DEF Calling, Alone
  <2>2. c \in live' /\ multipartContents'[c] = <<>> /\ bodyAsMessage'[c] = Null
    BY <2>1 DEF NewFits
  <2> HIDE DEF N
  <2> QED
    BY <1>4, <1>7, <2>2 DEF CallOK
<1>8. ASSUME NEW i \in DOMAIN calls' PROVE CallOK(i)'
  <2> HIDE DEF N
  <2>1. CASE i \in 1 .. N - 1
    BY <1>5, <2>1
  <2>2. CASE i = N
    BY <1>6, <2>2
  <2>3. CASE ~(i \in 1 .. N - 1) /\ i # N
    BY <1>2, <1>7, <2>3
  <2> QED
    BY <2>1, <2>2, <2>3
<1>9. \A i \in 1 .. N : calls'[i].node = calls[i].node /\ calls[i].node \in live
  <2>1. \A i \in 1 .. N : calls[i].node \in live
    BY <1>1 DEF CallOK
  <2>2. frame.node = calls[N].node
    BY <1>1 DEF FrameFits
  <2> HIDE DEF N
  <2> QED
    BY <1>2, <1>3, <2>1, <2>2
<1>10. \A i \in DOMAIN calls' : i \in 1 .. N \/ (i = N + 1 /\ calls'[i] = Call(c) /\ c \notin live)
  <2>1. Calling(c) => c \notin live
    BY <1>1 DEF NewFits, Calling, Alone
  <2> HIDE DEF N
  <2> QED
    BY <1>1, <1>2, <2>1
<1> HIDE DEF N
<1>11. ASSUME NEW i \in DOMAIN calls', NEW j \in DOMAIN calls', calls'[i].node = calls'[j].node
       PROVE  i = j
  BY <1>0, <1>4, <1>9, <1>10, <1>11
<1>12. ASSUME NEW i \in DOMAIN calls', NEW j \in DOMAIN calls',
              calls'[i].kid = calls'[j].kid, calls'[i].kid # Null
       PROVE  i = j
  <2>1. (i \in 1 .. N - 1 \/ i = N) /\ (j \in 1 .. N - 1 \/ j = N)
    BY <1>2, <1>4, <1>12
  <2>2. ASSUME NEW l \in 1 .. N - 1, calls[l].kid # Null
        PROVE  calls[l].kid # frame.kid
    <3>1. calls[l].kid \in Pending \ {Top.kid}
      BY <1>0, <1>1, <1>2, <2>2
    <3> QED
      BY <2>2, <3>1 DEF FrameFits
  <2> QED
    BY <1>0, <1>2, <1>3, <1>12, <2>1, <2>2
<1> QED
  BY <1>8, <1>11, <1>12 DEF CallsOK
-----------------------------------------------------------------------------
(* The steps of parse(). *)

\* How the call on top goes on, in each of its steps.
LEMMA ReadFrame ==
    ASSUME OwnInv, ParseText \/ ParseMultipart \/ ParseOther
    PROVE  \E frame \in Frame : /\ GoesOn(frame) /\ Alone /\ frame.node = Top.node
                                /\ frame.kid = Null /\ frame.pc = "parts"
<1> USE DEF OwnInv
<1>0. calls # <<>> /\ Top.pc = "read"
  BY DEF ParseText, ParseMultipart, ParseOther
<1>1. Top \in Frame /\ Top.kid = Null /\ data[Top.node].body \in Body
  BY <1>0, CallsInv, TopType DEF CallOK, Data
<1>2. \E frame \in Frame : Continue(frame) /\ frame.node = Top.node /\ frame.kid = Null
                           /\ frame.pc = "parts"
  <2>1. ASSUME NEW todo \in Seq(Item), Continue([Top EXCEPT !.pc = "parts", !.todo = todo])
        PROVE  \E frame \in Frame : Continue(frame) /\ frame.node = Top.node /\ frame.kid = Null
                                    /\ frame.pc = "parts"
    <3> DEFINE frame == [Top EXCEPT !.pc = "parts", !.todo = todo]
    <3>1. frame \in Frame /\ frame.node = Top.node /\ frame.kid = Null /\ frame.pc = "parts"
      BY <1>1 DEF Frame
    <3> QED
      BY <2>1, <3>1
  <2>2. ASSUME Continue([Top EXCEPT !.pc = "parts"])
        PROVE  \E frame \in Frame : Continue(frame) /\ frame.node = Top.node /\ frame.kid = Null
                                    /\ frame.pc = "parts"
    <3> DEFINE frame == [Top EXCEPT !.pc = "parts"]
    <3>1. frame \in Frame /\ frame.node = Top.node /\ frame.kid = Null /\ frame.pc = "parts"
      BY <1>1 DEF Frame
    <3> QED
      BY <2>2, <3>1
  <2> QED
    BY <1>1, <2>1, <2>2, AsItemsType, AsPartsType DEF ParseText, ParseMultipart, ParseOther
<1> QED
  BY <1>0, <1>2, ContinueAlone

LEMMA MessageFrame ==
    ASSUME OwnInv, NEW m \in Node, ParseMessage(m)
    PROVE  \E frame \in Frame : /\ GoesOn(frame) /\ Calling(m) /\ frame.node = Top.node
                                /\ frame.kid = Null /\ frame.pc = "parts" /\ frame.todo = <<>>
<1> USE DEF OwnInv
<1> DEFINE n == Top.node
           frame == [Top EXCEPT !.pc = "parts"]
<1>0. /\ calls # <<>> /\ Top.pc = "read" /\ m \in Node \ live /\ live' = live \cup {m}
      /\ bodyAsMessage' = [bodyAsMessage EXCEPT ![n] = m]
      /\ parent' = [parent EXCEPT ![m] = n]
      /\ calls' = Append([calls EXCEPT ![Len(calls)].pc = "parts"], Call(m))
      /\ UNCHANGED <<owned, held, multipartContents>>
  BY DEF ParseMessage
<1>1. /\ n \in live /\ Top.kid = Null /\ Top.todo = <<>>
      /\ multipartContents[n] = <<>> /\ bodyAsMessage[n] = Null
  BY <1>0, CallsInv DEF CallOK
<1>2. frame \in Frame /\ frame.node = n /\ frame.pc = "parts" /\ frame.kid = Null /\ frame.todo = <<>>
  <2>1. Top \in Frame
    BY <1>0, CallsInv
  <2> QED
    BY <1>1, <2>1 DEF Frame
<1>3. GoesOn(frame) /\ Calling(m)
  <2>1. [calls EXCEPT ![Len(calls)].pc = "parts"] = [calls EXCEPT ![Len(calls)] = frame]
    BY DEF Top
  <2> DEFINE cs == [calls EXCEPT ![Len(calls)] = frame]
  <2>2. /\ cs \in Seq(Frame) /\ Len(cs) = Len(calls)
        /\ \A i \in 1 .. Len(calls) : cs[i] = IF i = Len(calls) THEN frame ELSE calls[i]
        /\ Len(calls) \in Nat \ {0}
    BY <1>0, <1>2, ContinueType, CallsInv DEF TypeOK
  <2> HIDE DEF cs, frame
  <2>3. calls' = Append(cs, Call(m)) /\ Call(m) \in Frame
    BY <1>0, <2>1, CallType DEF cs
  <2>4. /\ calls' \in Seq(Frame) /\ Len(calls') = Len(cs) + 1 /\ calls'[Len(cs) + 1] = Call(m)
        /\ \A i \in 1 .. Len(cs) : calls'[i] = cs[i]
    BY <2>2, <2>3, AppendProperties
  <2> QED
    BY <2>2, <2>4 DEF GoesOn, Calling
<1> QED
  BY <1>2, <1>3

\* Whether the part that is created next is parsed.
Recurses == Head(Top.todo).body # Leaf /\ Depth(Top.node) < DepthLimit

LEMMA PartFrame ==
    ASSUME OwnInv, NEW c \in Node, ParsePart(c)
    PROVE  \E frame \in Frame : /\ GoesOn(frame) /\ frame.node = Top.node
                                /\ frame.kid = c /\ frame.pc = "parts"
                                /\ (Recurses => Calling(c)) /\ (~Recurses => Alone)
<1> USE DEF OwnInv
<1> DEFINE n == Top.node
           frame == [Top EXCEPT !.todo = Tail(@), !.kid = c]
<1>0. /\ calls # <<>> /\ Top.pc = "parts" /\ Top.kid = Null /\ Top.todo # <<>>
      /\ c \in Node \ live /\ live' = live \cup {c}
      /\ parent' = IF Recurses THEN [parent EXCEPT ![c] = n] ELSE parent
      /\ calls' = [calls EXCEPT ![Len(calls)] = frame] \o (IF Recurses THEN <<Call(c)>> ELSE <<>>)
      /\ UNCHANGED <<owned, held, multipartContents, bodyAsMessage>>
  BY DEF ParsePart, EarlyParent, Recurses
<1>1. n \in live /\ bodyAsMessage[n] = Null
  BY <1>0, CallsInv DEF CallOK
<1>2. frame \in Frame /\ frame.node = n /\ frame.pc = "parts" /\ frame.kid = c
  <2>1. Top \in Frame
    BY <1>0, CallsInv
  <2>2. Tail(Top.todo) \in Seq(Item)
    BY <1>0, <2>1, HeadTailProperties DEF Frame
  <2>3. frame \in Frame
    BY <2>1, <2>2, FrameUpdates
  <2> QED
    BY <1>0, <2>1, <2>3 DEF Frame
<1>3. GoesOn(frame) /\ (Recurses => Calling(c)) /\ (~Recurses => Alone)
  <2> DEFINE cs == [calls EXCEPT ![Len(calls)] = frame]
  <2>2. /\ cs \in Seq(Frame) /\ Len(cs) = Len(calls)
        /\ \A i \in 1 .. Len(calls) : cs[i] = IF i = Len(calls) THEN frame ELSE calls[i]
        /\ Len(calls) \in Nat \ {0}
    BY <1>0, <1>2, ContinueType, CallsInv DEF TypeOK
  <2>3. calls' = IF Recurses THEN Append(cs, Call(c)) ELSE cs
    <3>1. cs \in Seq(Frame) /\ Call(c) \in Frame
      BY <2>2, CallType
    <3>2. calls' = cs \o (IF Recurses THEN <<Call(c)>> ELSE <<>>)
      BY <1>0
    <3> HIDE DEF cs
    <3>3. cs \o <<Call(c)>> = Append(cs, Call(c)) /\ cs \o <<>> = cs
      BY <3>1, AppendIsConcat, ConcatEmptySeq
    <3> QED
      BY <3>2, <3>3
  <2> HIDE DEF cs, frame
  <2>4. CASE Recurses
    <3>1. Call(c) \in Frame /\ calls' = Append(cs, Call(c))
      BY <2>3, <2>4, CallType
    <3>2. /\ calls' \in Seq(Frame) /\ Len(calls') = Len(cs) + 1 /\ calls'[Len(cs) + 1] = Call(c)
          /\ \A i \in 1 .. Len(cs) : calls'[i] = cs[i]
      BY <2>2, <3>1, AppendProperties
    <3> QED
      BY <2>2, <2>4, <3>2 DEF GoesOn, Calling
  <2>5. CASE ~Recurses
    BY <2>2, <2>3, <2>5 DEF GoesOn, Alone
  <2> QED
    BY <2>4, <2>5
<1> QED
  BY <1>2, <1>3

LEMMA AppendFrame ==
    ASSUME OwnInv, AppendPart
    PROVE  \E frame \in Frame : /\ GoesOn(frame) /\ Alone /\ frame.node = Top.node
                                /\ frame.kid = Null /\ frame.pc = "parts"
<1> USE DEF OwnInv
<1> DEFINE frame == [Top EXCEPT !.kid = Null]
<1>1. calls # <<>> /\ Top.pc = "parts" /\ Continue(frame)
  BY DEF AppendPart
<1>2. Top \in Frame
  BY <1>1, CallsInv
<1>3. frame \in Frame
  BY <1>2, FrameUpdates DEF Frame
<1>4. frame.node = Top.node /\ frame.pc = "parts" /\ frame.kid = Null
  BY <1>1, <1>2 DEF Frame
<1> HIDE DEF frame
<1> QED
  BY <1>1, <1>3, <1>4, ContinueAlone

LEMMA ClearFrame ==
    ASSUME OwnInv, ParseClear
    PROVE  \E frame \in Frame : /\ GoesOn(frame) /\ Alone /\ frame.node = Top.node
                                /\ frame.kid = Null /\ frame.pc = "read" /\ frame.todo = <<>>
<1> USE DEF OwnInv
<1> DEFINE frame == [Top EXCEPT !.pc = "read"]
<1>1. calls # <<>> /\ Top.pc = "clear" /\ Continue(frame)
  BY DEF ParseClear
<1>2. Top \in Frame /\ Top.kid = Null /\ Top.todo = <<>>
  BY <1>1, CallsInv DEF CallOK
<1>3. /\ frame \in Frame /\ frame.node = Top.node /\ frame.pc = "read" /\ frame.kid = Null
      /\ frame.todo = <<>>
  BY <1>2 DEF Frame
<1> HIDE DEF frame
<1> QED
  BY <1>1, <1>3, ContinueAlone

\* A new object below n: a part whose parent is set before it is parsed, or
\* the encapsulated message of an object that has no children.
LEMMA NewBelow ==
    ASSUME TypeOK, PointersInv, NEW c \in Node \ live, NEW n \in live, live' = live \cup {c},
           UNCHANGED <<owned, held, multipartContents>>, parent' = [parent EXCEPT ![c] = n],
           \/ UNCHANGED bodyAsMessage /\ Pending' = Pending \cup {c}
           \/ /\ bodyAsMessage' = [bodyAsMessage EXCEPT ![n] = c] /\ Pending' = Pending
              /\ multipartContents[n] = <<>> /\ bodyAsMessage[n] = Null
    PROVE  PointersInv'
<1> USE DEF PointersInv
<1>0. Null \notin Node /\ live \subseteq Node /\ c # n
  BY ConstantsAssumption DEF TypeOK
<1>1. parent[c] = Null /\ multipartContents[c] = <<>> /\ bodyAsMessage[c] = Null
  BY DEF FreeIsBlank
<1>2. \A k \in Node : parent'[k] = IF k = c THEN n ELSE parent[k]
  BY DEF TypeOK
<1>3. \A k \in Node : bodyAsMessage'[k] = bodyAsMessage[k] \/ (k = n /\ bodyAsMessage'[k] = c)
  BY DEF TypeOK
<1>4. \A d \in live : parent[d] # c /\ d # c
  BY <1>0 DEF ParentsAgree
<1>5. FreeIsBlank' /\ NoDuplicates'
  BY <1>0, <1>2, <1>3 DEF FreeIsBlank, NoDuplicates
<1>6. ChildrenAgree'
  <2>1. ASSUME NEW k \in Node, NEW d \in Elements(multipartContents[k])
        PROVE  d \in live' /\ parent'[d] = k
    BY <1>0, <1>2, <2>1 DEF ChildrenAgree
  <2>2. ASSUME NEW k \in Node, bodyAsMessage'[k] # Null
        PROVE  bodyAsMessage'[k] \in live' /\ parent'[bodyAsMessage'[k]] = k
    BY <1>0, <1>2, <1>3, <2>2 DEF ChildrenAgree
  <2> QED
    BY <2>1, <2>2 DEF ChildrenAgree
<1>7. ParentsAgree'
  <2> SUFFICES ASSUME NEW d \in live', parent'[d] # Null
               PROVE  /\ parent'[d] \in live'
                      /\ \/ d \in Elements(multipartContents[parent'[d]])
                         \/ d = bodyAsMessage'[parent'[d]]
                         \/ d \in Pending'
    BY DEF ParentsAgree
  <2>1. CASE d = c
    BY <1>0, <1>2, <2>1 DEF TypeOK
  <2>2. CASE d # c
    <3>1. parent'[d] = parent[d] /\ d \in live
      BY <1>0, <1>2, <2>2
    <3>2. /\ parent[d] \in live /\ parent[d] \in Node
          /\ \/ d \in Elements(multipartContents[parent[d]])
             \/ d = bodyAsMessage[parent[d]]
             \/ d \in Pending
      BY <1>0, <3>1 DEF ParentsAgree
    <3>3. d = bodyAsMessage[parent[d]] => d = bodyAsMessage'[parent[d]]
      BY <1>0, <3>1, <3>2 DEF TypeOK
    <3> QED
      BY <3>1, <3>2, <3>3
  <2> QED
    BY <2>1, <2>2
<1>8. ContentsExclusive'
  <2> SUFFICES ASSUME NEW k \in live'
               PROVE  multipartContents[k] = <<>> \/ bodyAsMessage'[k] = Null
    BY DEF ContentsExclusive
  <2>1. CASE bodyAsMessage'[k] = bodyAsMessage[k]
    BY <1>1, <2>1 DEF ContentsExclusive
  <2>2. CASE bodyAsMessage'[k] # bodyAsMessage[k]
    BY <1>0, <1>3, <2>2
  <2> QED
    BY <2>1, <2>2
<1>9. OwnersPartition'
  <2>1. Listed' = Listed
    BY DEF Listed
  <2>2. c \notin owned \cup Listed \cup Shared \cup Pending
    BY DEF OwnersPartition
  <2>3. CASE UNCHANGED bodyAsMessage /\ Pending' = Pending \cup {c}
    <3>1. Shared' = Shared
      BY <2>3 DEF Shared, Enclosed
    <3> QED
      BY <2>1, <2>2, <2>3, <3>1 DEF OwnersPartition
  <2>4. CASE /\ bodyAsMessage' = [bodyAsMessage EXCEPT ![n] = c] /\ Pending' = Pending
             /\ bodyAsMessage[n] = Null
    <3>1. \A k \in Node : bodyAsMessage'[k] = IF k = n THEN c ELSE bodyAsMessage[k]
      BY <2>4 DEF TypeOK
    <3>2. Enclosed' = Enclosed \cup {c}
      BY <1>0, <2>4, <3>1 DEF Enclosed
    <3> QED
      BY <2>1, <2>2, <2>4, <3>2 DEF OwnersPartition, Shared
  <2> QED
    BY <2>3, <2>4
<1>10. NoLoop'
  <2>1. ASSUME NEW a \in live PROVE \E X \in SUBSET live' : a \notin X /\ DownClosed(X, {a})'
    <3>1. PICK X \in SUBSET live : a \notin X /\ DownClosed(X, {a})
      BY DEF NoLoop
    <3> DEFINE Y == IF n \in X \cup {a} THEN X \cup {c} ELSE X
    <3>2. Y \in SUBSET live' /\ a \notin Y /\ Y \subseteq X \cup {c}
      BY <1>4, <3>1
    <3>3. \A d \in live' : parent'[d] \in Y \cup {a} => d \in Y
      <4>1. ASSUME NEW d \in live, parent'[d] \in Y \cup {a} PROVE d \in Y
        BY <1>0, <1>2, <1>4, <3>1, <3>2, <4>1 DEF DownClosed
      <4>2. parent'[c] \in Y \cup {a} => c \in Y
        BY <1>0, <1>2
      <4> QED
        BY <4>1, <4>2
    <3> HIDE DEF Y
    <3> QED
      BY <3>2, <3>3 DEF DownClosed
  <2>2. {} \in SUBSET live' /\ DownClosed({}, {c})'
    <3>1. \A d \in live' : parent'[d] # c
      BY <1>0, <1>2, <1>4
    <3> QED
      BY <3>1 DEF DownClosed
  <2> QED
    BY <2>1, <2>2 DEF NoLoop, DownClosed
<1> QED
  BY <1>5, <1>6, <1>7, <1>8, <1>9, <1>10

\* A step of the call on top that touches no object: it has no children, and
\* has made no part yet.
LEMMA QuietCall ==
    ASSUME OwnInv, calls # <<>>, UNCHANGED <<live, owned, held, pointers>>,
           NEW frame \in Frame, GoesOn(frame), Alone, frame.node = Top.node, frame.kid = Null,
           Top.pc = "read" \/ (Top.pc = "clear" /\ Len(calls) > 1),
           frame.pc = "parts" \/ (frame.pc = "read" /\ frame.todo = <<>>)
    PROVE  PointersInv' /\ CallsOK'
<1> USE DEF OwnInv, pointers
<1>1. Top.kid = Null /\ multipartContents[Top.node] = <<>> /\ bodyAsMessage[Top.node] = Null
  BY CallsInv DEF CallOK
<1>2. \A i \in 1 .. Len(calls) : calls[i].node \in live
  BY CallsInv DEF CallsOK, CallOK
<1>3. Pending \subseteq live
  BY DEF PointersInv, OwnersPartition
<1>4. Pending' = Pending
  <2>1. Pending' = (Pending \ {Top.kid}) \cup ({frame.kid} \ {Null})
    BY PendingAfter
  <2>2. Null \notin Pending
    BY DEF Pending
  <2> QED
    BY <1>1, <2>1, <2>2
<1>5. PointersInv'
  BY <1>4, SamePointers DEF Shared, Enclosed
<1>6. FrameFits(frame)
  BY <1>1 DEF FrameFits
<1>7. LowerFit
  BY <1>2, <1>3 DEF LowerFit
<1> QED
  BY <1>5, <1>6, <1>7, CallsKeep DEF NewFits
\* A call of parse() that another one made finds no old children to delete.
LEMMA NestedClear ==
    ASSUME OwnInv, ParseClear, Len(calls) > 1
    PROVE  UNCHANGED <<live, owned, held, pointers>> /\ Doomed({}, {Top.node}) = {}
<1> USE DEF OwnInv
<1> DEFINE n == Top.node
           S == {}
           C == {n}
<1>0. /\ calls # <<>> /\ Top.pc = "clear" /\ ReleasePointers({}, {n}) /\ UNCHANGED held
  BY DEF ParseClear, Release
<1>1. n \in live /\ multipartContents[n] = <<>> /\ bodyAsMessage[n] = Null
  BY <1>0, CallsInv DEF CallOK
<1>2. live \subseteq Node /\ Null \notin Node
  BY ConstantsAssumption DEF TypeOK
<1>3. Children(n) = {} /\ Elements(multipartContents[n]) = {}
  BY <1>1 DEF Children, Contents, Elements
<1>4. Closed({}, C)
  <2>1. \A m \in live : Holders(m) \cap {n} = {}
    BY <1>1, <1>2 DEF Holders
  <2> QED
    BY <1>3, <2>1 DEF Closed
<1>5. S \subseteq live /\ C \subseteq live /\ {} \in SUBSET live /\ S \subseteq {}
  BY <1>1
<1> HIDE DEF S, C
<1>6. \A X \in SUBSET live : S \subseteq X /\ Closed(X, C) => Doomed(S, C) \subseteq X
  BY <1>5, DoomedProperties
<1>7. Doomed(S, C) = {}
  BY <1>4, <1>5, <1>6
<1>8. Doomed({}, {n}) = {}
  BY <1>7 DEF S, C
<1>9. live' = live /\ owned' = owned
  BY <1>0, <1>8 DEF ReleasePointers
<1>10. parent' = parent
  BY <1>0, <1>3, <1>8 DEF ReleasePointers, ParentsAfter, TypeOK
<1>11. multipartContents' = multipartContents
  BY <1>0, <1>1, <1>8 DEF ReleasePointers, ListsAfter, TypeOK
<1>12. bodyAsMessage' = bodyAsMessage
  BY <1>0, <1>1, <1>8 DEF ReleasePointers, TypeOK
<1> QED
  BY <1>0, <1>8, <1>9, <1>10, <1>11, <1>12 DEF pointers

\* The outermost call deletes the old children of its object, and the object
\* itself stays.
LEMMA ClearStep ==
    ASSUME OwnInv, ParseClear
    PROVE  PointersInv' /\ CallsOK'
<1> USE DEF OwnInv
<1> DEFINE n == Top.node
<1>0. /\ calls # <<>> /\ Top.pc = "clear" /\ ReleasePointers({}, {n}) /\ UNCHANGED held
  BY DEF ParseClear, Release
<1>1. /\ n \in live /\ Top.kid = Null /\ Top.todo = <<>>
      /\ Len(calls) > 1 => multipartContents[n] = <<>> /\ bodyAsMessage[n] = Null
  BY <1>0, CallsInv DEF CallOK
<1>2. PICK frame \in Frame : /\ GoesOn(frame) /\ Alone /\ frame.node = n
                             /\ frame.kid = Null /\ frame.pc = "read" /\ frame.todo = <<>>
  BY ClearFrame
<1>3. GoesOn(frame) /\ Alone
  BY <1>2
<1>7. \A X \in SUBSET live : Closed(X, {n}) => Doomed({}, {n}) \subseteq X
  <2> DEFINE S == {}
             C == {n}
  <2>1. S \subseteq live /\ C \subseteq live /\ \A X : S \subseteq X
    BY <1>1
  <2> HIDE DEF S, C
  <2>2. \A X \in SUBSET live : S \subseteq X /\ Closed(X, C) => Doomed(S, C) \subseteq X
    BY <2>1, DoomedProperties
  <2> QED
    BY <2>1, <2>2 DEF S, C
<1>4. live \subseteq Node /\ Null \notin Node
  BY ConstantsAssumption DEF TypeOK
<1>5. CASE Len(calls) > 1
  BY <1>0, <1>2, <1>3, <1>5, NestedClear, QuietCall
<1>6. CASE ~(Len(calls) > 1)
  <2>1. Len(calls) = 1
    BY <1>0, <1>6, CallsInv
  <2>2. Pending = {}
    BY <1>0, <1>1, <2>1, CallsInv
  <2>3. Pending' = {}
    BY <1>0, <1>2, <1>3, <2>2, PendingAfter
  <2>4. PointersInv'
    <3>1. {} \subseteq live /\ {n} \subseteq live /\ {} \cap Enclosed = {} /\ held' = held \ {}
      BY <1>0, <1>1
    <3> QED
      BY <1>0, <2>2, <2>3, <3>1, ReleaseKeeps
  <2>5. n \notin Doomed({}, {n})
    <3>1. PICK X \in SUBSET live : n \notin X /\ DownClosed(X, {n})
      BY <1>1 DEF PointersInv, NoLoop
    <3>2. Closed(X, {n})
      <4>1. ASSUME NEW k \in X \cup {n}, NEW c \in Elements(multipartContents[k]) PROVE c \in X
        BY <1>1, <1>4, <3>1, <4>1 DEF PointersInv, ChildrenAgree, DownClosed
      <4>2. ASSUME NEW m \in live \ X PROVE Holders(m) \cap (X \cup {n}) = {}
        BY <1>4, <3>1, <4>2 DEF PointersInv, ChildrenAgree, DownClosed, Holders
      <4> QED
        BY <4>1, <4>2 DEF Closed
    <3> QED
      BY <1>7, <3>1, <3>2
  <2>6. /\ n \in live' /\ multipartContents'[n] = <<>> /\ bodyAsMessage'[n] = Null
    BY <1>0, <1>1, <1>4, <2>5 DEF ReleasePointers, ListsAfter
  <2>7. FrameFits(frame)
    BY <1>2, <2>6 DEF FrameFits
  <2>8. LowerFit
    BY <1>0, <2>1, <2>2, <2>6, CallsInv DEF LowerFit
  <2> QED
    BY <1>0, <1>2, <1>3, <2>4, <2>7, <2>8, CallsKeep DEF NewFits
<1> QED
  BY <1>5, <1>6

LEMMA ReadStep ==
    ASSUME OwnInv, ParseText \/ ParseMultipart \/ ParseOther
    PROVE  PointersInv' /\ CallsOK'
<1>1. calls # <<>> /\ Top.pc = "read" /\ UNCHANGED <<live, owned, held, pointers>>
  BY DEF ParseText, ParseMultipart, ParseOther
<1>2. PICK frame \in Frame : /\ GoesOn(frame) /\ Alone /\ frame.node = Top.node
                             /\ frame.kid = Null /\ frame.pc = "parts"
  BY ReadFrame
<1> QED
  BY <1>1, <1>2, QuietCall

LEMMA MessageStep ==
    ASSUME OwnInv, NEW m \in Node, ParseMessage(m)
    PROVE  PointersInv' /\ CallsOK'
<1> USE DEF OwnInv
<1> DEFINE n == Top.node
<1>0. /\ calls # <<>> /\ Top.pc = "read" /\ m \in Node \ live /\ live' = live \cup {m}
      /\ bodyAsMessage' = [bodyAsMessage EXCEPT ![n] = m]
      /\ parent' = [parent EXCEPT ![m] = n]
      /\ UNCHANGED <<owned, held, multipartContents>>
  BY DEF ParseMessage
<1>1. /\ n \in live /\ Top.kid = Null /\ Top.todo = <<>>
      /\ multipartContents[n] = <<>> /\ bodyAsMessage[n] = Null
  BY <1>0, CallsInv DEF CallOK
<1>2. PICK frame \in Frame : /\ GoesOn(frame) /\ Calling(m) /\ frame.node = n
                             /\ frame.kid = Null /\ frame.pc = "parts" /\ frame.todo = <<>>
  BY MessageFrame
<1>3. GoesOn(frame) /\ Calling(m)
  BY <1>2
<1>4. live \subseteq Node /\ Null \notin Node
  BY ConstantsAssumption DEF TypeOK
<1>5. Pending' = Pending
  <2>1. Pending' = (Pending \ {Top.kid}) \cup ({frame.kid} \ {Null})
    BY <1>0, <1>2, <1>3, PendingAfter
  <2>2. Null \notin Pending
    BY DEF Pending
  <2> QED
    BY <1>1, <1>2, <2>1, <2>2
<1>6. PointersInv'
  BY <1>0, <1>1, <1>5, NewBelow
<1>7. FrameFits(frame)
  BY <1>2 DEF FrameFits
<1>8. LowerFit
  <2>1. \A i \in 1 .. Len(calls) : calls[i].node \in live /\ (i # Len(calls) => calls[i].node # n)
    BY <1>0, CallsInv DEF CallsOK, CallOK
  <2>2. \A i \in 1 .. Len(calls) - 1 : i \in 1 .. Len(calls) /\ i # Len(calls)
    BY <1>0, <1>2, <1>3, StackAfter
  <2>3. \A k \in live \ {n} : bodyAsMessage'[k] = bodyAsMessage[k]
    BY <1>0, <1>4 DEF TypeOK
  <2>4. \A k \in live : k \in live' /\ parent'[k] = parent[k]
    BY <1>0, <1>4 DEF TypeOK
  <2>5. Pending \subseteq live
    BY DEF PointersInv, OwnersPartition
  <2> QED
    BY <1>0, <2>1, <2>2, <2>3, <2>4, <2>5 DEF LowerFit
<1>9. m \in live' \ live /\ multipartContents'[m] = <<>> /\ bodyAsMessage'[m] = Null
  BY <1>0, <1>1, <1>4 DEF PointersInv, FreeIsBlank, TypeOK
<1>10. NewFits(frame, m)
  BY <1>2, <1>3, <1>9 DEF NewFits
<1> QED
  BY <1>0, <1>2, <1>3, <1>6, <1>7, <1>8, <1>10, CallsKeep

LEMMA PartStep ==
    ASSUME OwnInv, NEW c \in Node, ParsePart(c)
    PROVE  PointersInv' /\ CallsOK'
<1> USE DEF OwnInv
<1> DEFINE n == Top.node
<1>0. /\ calls # <<>> /\ Top.pc = "parts" /\ Top.kid = Null /\ Top.todo # <<>>
      /\ c \in Node \ live /\ live' = live \cup {c}
      /\ parent' = IF Recurses THEN [parent EXCEPT ![c] = n] ELSE parent
      /\ UNCHANGED <<owned, held, multipartContents, bodyAsMessage>>
  BY DEF ParsePart, EarlyParent, Recurses
<1>1. n \in live /\ bodyAsMessage[n] = Null
  BY <1>0, CallsInv DEF CallOK
<1>2. PICK frame \in Frame : /\ GoesOn(frame) /\ frame.node = n
                             /\ frame.kid = c /\ frame.pc = "parts"
                             /\ (Recurses => Calling(c)) /\ (~Recurses => Alone)
  BY PartFrame
<1>3. GoesOn(frame) /\ (Recurses => Calling(c)) /\ (~Recurses => Alone)
  BY <1>2
<1>4. live \subseteq Node /\ Null \notin Node
  BY ConstantsAssumption DEF TypeOK
<1>5. Pending \subseteq live /\ Null \notin Pending
  BY DEF Pending, PointersInv, OwnersPartition
<1>6. Pending' = Pending \cup {c}
  <2>1. Pending' = (Pending \ {Top.kid}) \cup ({frame.kid} \ {Null})
    BY <1>0, <1>2, <1>3, PendingAfter
  <2> QED
    BY <1>0, <1>2, <1>4, <1>5, <2>1
<1>7. PointersInv'
  <2>1. CASE Recurses
    BY <1>0, <1>1, <1>6, <2>1, NewBelow
  <2>2. CASE ~Recurses
    BY <1>0, <1>6, <2>2, NewKeeps DEF pointers
  <2> QED
    BY <2>1, <2>2
<1>8. FrameFits(frame)
  <2>1. c \in live' /\ c # n /\ c \notin Pending /\ bodyAsMessage'[n] = Null
    BY <1>0, <1>1, <1>5
  <2>2. Recurses => parent'[c] = n
    BY <1>0 DEF TypeOK
  <2>3. ~Recurses => parent'[c] = Null /\ \A d \in live' : parent'[d] # c
    BY <1>0, <1>4 DEF PointersInv, FreeIsBlank, ParentsAgree
  <2> QED
    BY <1>2, <1>3, <2>1, <2>2, <2>3 DEF FrameFits
<1>9. LowerFit
  <2>1. \A i \in 1 .. Len(calls) : calls[i].node \in live
    BY <1>0, CallsInv DEF CallsOK, CallOK
  <2>2. \A k \in live : k \in live' /\ parent'[k] = parent[k]
    BY <1>0, <1>4 DEF TypeOK
  <2> QED
    BY <1>0, <1>5, <2>1, <2>2 DEF LowerFit
<1>10. c \in live' \ live /\ multipartContents'[c] = <<>> /\ bodyAsMessage'[c] = Null
  BY <1>0 DEF PointersInv, FreeIsBlank
<1>11. NewFits(frame, c)
  BY <1>2, <1>3, <1>10 DEF NewFits
<1> QED
  BY <1>0, <1>2, <1>3, <1>7, <1>8, <1>9, <1>11, CallsKeep

LEMMA AppendStep ==
    ASSUME OwnInv, AppendPart
    PROVE  PointersInv' /\ CallsOK'
<1> USE DEF OwnInv
<1> DEFINE n == Top.node
           c == Top.kid
           lists == [multipartContents EXCEPT ![n] = Append(@, c)]
<1>0. /\ calls # <<>> /\ Top.pc = "parts" /\ c # Null
      /\ multipartContents' = IF parent[c] # n THEN Relisted(lists, c, n) ELSE lists
      /\ parent' = [parent EXCEPT ![c] = n]
      /\ UNCHANGED <<live, owned, held, bodyAsMessage, data>>
  BY DEF AppendPart
<1>1. /\ n \in live /\ bodyAsMessage[n] = Null /\ c \in live /\ c # n
      /\ \/ parent[c] = n
         \/ parent[c] = Null /\ \A d \in live : parent[d] # c
  BY <1>0, CallsInv DEF CallOK
<1>2. PICK frame \in Frame : /\ GoesOn(frame) /\ Alone /\ frame.node = n
                             /\ frame.kid = Null /\ frame.pc = "parts"
  BY AppendFrame
<1>3. GoesOn(frame) /\ Alone
  BY <1>2
<1>4. live \subseteq Node /\ Null \notin Node
  BY ConstantsAssumption DEF TypeOK
<1>5. c \in Pending /\ c \notin Listed /\ c \notin Shared /\ c \notin owned
  BY <1>0, CallsInv DEF PointersInv, OwnersPartition
<1>6. Pending' = Pending \ {c}
  BY <1>0, <1>2, <1>3, PendingAfter
<1>7. \A k \in Node : /\ multipartContents[k] \in Seq(Node) /\ IsInjective(multipartContents[k])
                      /\ c \notin Elements(multipartContents[k])
  BY <1>5 DEF TypeOK, PointersInv, NoDuplicates, Listed
<1>8. \A k \in Node : lists[k] = IF k = n THEN Append(multipartContents[n], c)
                                 ELSE multipartContents[k]
  BY <1>1, <1>4 DEF TypeOK
<1>9. /\ lists[n] \in Seq(Node) /\ Elements(lists[n]) = Elements(multipartContents[n]) \cup {c}
      /\ IsInjective(lists[n])
  <2> DEFINE s == multipartContents[n]
             t == Append(s, c)
  <2>1. c \in Node /\ n \in Node /\ lists[n] = t
    BY <1>1, <1>4, <1>8
  <2>2. s \in Seq(Node) /\ IsInjective(s) /\ c \notin Elements(s) /\ t \in {Append(s, c), <<c>> \o s}
    BY <1>7, <2>1
  <2> HIDE DEF s, t
  <2>3. t \in Seq(Node) /\ Elements(t) = Elements(s) \cup {c} /\ IsInjective(t)
    BY <2>1, <2>2, OneMore
  <2> QED
    BY <2>1, <2>3 DEF s
<1> HIDE DEF lists
<1>10. multipartContents' = lists
  BY <1>0, <1>1, <1>4, <1>9 DEF Relisted
<1>11. \A k \in Node :
          /\ multipartContents'[k] \in Seq(Node) /\ IsInjective(multipartContents'[k])
          /\ Elements(multipartContents'[k]) =
                (Elements(multipartContents[k]) \ {c}) \cup (IF k = n THEN {c} ELSE {})
  BY <1>7, <1>8, <1>9, <1>10
<1>12. \E T \in SUBSET live : c \in T /\ n \notin T /\ DownClosed(T, {c})
  <2>1. CASE parent[c] = n
    <3>1. PICK X \in SUBSET live : n \notin X /\ DownClosed(X, {n})
      BY <1>1 DEF PointersInv, NoLoop
    <3>2. c \in X
      BY <1>1, <2>1, <3>1 DEF DownClosed
    <3> QED
      BY <3>1, <3>2 DEF DownClosed
  <2>2. CASE \A d \in live : parent[d] # c
    <3>1. {c} \in SUBSET live /\ n \notin {c} /\ DownClosed({c}, {c})
      BY <1>1, <2>2 DEF DownClosed
    <3> QED
      BY <3>1
  <2> QED
    BY <1>1, <2>1, <2>2
<1>13. owned' = owned \ {c}
  BY <1>0, <1>5
<1>14. PointersInv'
  <2>1. PICK T \in SUBSET live : c \in T /\ n \notin T /\ DownClosed(T, {c})
    BY <1>12
  <2> HIDE DEF c, n
  <2> QED
    BY <1>0, <1>1, <1>5, <1>6, <1>11, <1>13, <2>1, AdoptKeeps
<1>15. FrameFits(frame)
  BY <1>0, <1>1, <1>2 DEF FrameFits
<1>16. LowerFit
  <2>1. \A i \in 1 .. Len(calls) : calls[i].node \in live
    BY <1>0, CallsInv DEF CallsOK, CallOK
  <2>2. \A k \in live \ {c} : parent'[k] = parent[k]
    BY <1>0, <1>4 DEF TypeOK
  <2>3. Pending \subseteq live
    BY DEF PointersInv, OwnersPartition
  <2> QED
    BY <1>0, <2>1, <2>2, <2>3 DEF LowerFit
<1> QED
  BY <1>0, <1>2, <1>3, <1>14, <1>15, <1>16, CallsKeep DEF NewFits

LEMMA ReturnStep ==
    ASSUME OwnInv, ParseReturn
    PROVE  PointersInv' /\ CallsOK'
<1> USE DEF OwnInv
<1> DEFINE N == Len(calls)
<1>0. /\ calls # <<>> /\ Top.kid = Null /\ calls' = SubSeq(calls, 1, N - 1)
      /\ UNCHANGED <<live, owned, held, pointers, data>>
  BY DEF ParseReturn
<1>1. /\ N \in Nat \ {0} /\ Top = calls[N]
      /\ \A k : k \in Pending <=> k # Null /\ \E i \in 1 .. N : calls[i].kid = k
      /\ \A i \in 1 .. N : CallOK(i)
      /\ \A i, j \in 1 .. N :
            /\ calls[i].node = calls[j].node => i = j
            /\ calls[i].kid = calls[j].kid /\ calls[i].kid # Null => i = j
  BY <1>0, CallsInv DEF CallsOK
<1>2. /\ DOMAIN calls' = 1 .. N - 1 /\ Len(calls') = N - 1
      /\ \A i \in 1 .. N - 1 : calls'[i] = calls[i]
  <2>1. N \in Nat /\ calls \in Seq(Frame) /\ N - 1 \in Int
    BY <1>1 DEF TypeOK
  <2> DEFINE M == N - 1
  <2>2. \A i \in 1 .. M : calls[i] \in Frame
    BY <2>1
  <2>3. /\ SubSeq(calls, 1, M) \in Seq(Frame)
        /\ Len(SubSeq(calls, 1, M)) = IF 1 <= M THEN M - 1 + 1 ELSE 0
        /\ \A i \in 1 .. M - 1 + 1 : SubSeq(calls, 1, M)[i] = calls[1 + i - 1]
    BY <2>1, <2>2, SubSeqProperties
  <2>4. calls' = SubSeq(calls, 1, M)
    BY <1>0
  <2>5. M \in Nat /\ M - 1 + 1 = M /\ (1 <= M \/ M = 0) /\ \A i \in 1 .. M : 1 + i - 1 = i
    BY <1>1
  <2> HIDE DEF M, N
  <2>6. calls' \in Seq(Frame) /\ Len(calls') = M /\ \A i \in 1 .. M : calls'[i] = calls[i]
    BY <2>3, <2>4, <2>5
  <2> QED
    BY <2>6 DEF M
<1>3. \A k : k \in Pending' <=> k # Null /\ \E i \in 1 .. N - 1 : calls'[i].kid = k
  BY <1>2 DEF Pending
<1>4. \A i \in 1 .. N : (i \in 1 .. N - 1 /\ i < N /\ i # N) \/ (i = N /\ i \notin 1 .. N - 1)
  BY <1>1
<1>5. \A i \in 1 .. N - 1 : i \in 1 .. N
  BY <1>1
<1>6. Len(calls) = N
  OBVIOUS
<1> HIDE DEF N
<1>7. Pending' = Pending
  <2>1. ASSUME NEW k PROVE k \in Pending' <=> k \in Pending
    BY <1>0, <1>1, <1>2, <1>3, <1>4, <1>5
  <2> QED
    BY <2>1
<1>8. PointersInv'
  BY <1>0, <1>7, SamePointers DEF Shared, Enclosed, pointers
<1>9. ASSUME NEW i \in DOMAIN calls' PROVE CallOK(i)'
  <2> DEFINE f == calls[i]
  <2>1. i \in 1 .. N /\ i < N /\ i # N /\ calls'[i] = f
    BY <1>2, <1>4, <1>5
  <2>2. /\ f.pc = "parts" /\ f.node \in live
        /\ f.kid # Null \/ f.todo # <<>> => bodyAsMessage[f.node] = Null
        /\ f.kid # Null => f.kid \in live /\ f.kid # f.node /\ parent[f.kid] = f.node
    BY <1>1, <1>6, <2>1 DEF CallOK
  <2> HIDE DEF f
  <2> QED
    BY <1>0, <2>1, <2>2 DEF CallOK, pointers
<1> QED
  BY <1>1, <1>2, <1>5, <1>8, <1>9 DEF CallsOK

LEMMA FirstCall ==
    ASSUME OwnInv, NEW n \in Node, Parse(n)
    PROVE  PointersInv' /\ CallsOK'
<1> USE DEF OwnInv
<1>0. /\ calls = <<>> /\ n \in live /\ calls' = <<Call(n)>>
      /\ UNCHANGED <<live, owned, held, pointers>>
  BY DEF Parse, May
<1>1. /\ DOMAIN calls' = {1} /\ Len(calls') = 1 /\ calls'[1].node = n /\ calls'[1].pc = "clear"
      /\ calls'[1].todo = <<>> /\ calls'[1].kid = Null
  BY <1>0 DEF Call
<1>2. Pending = {} /\ Pending' = {}
  BY <1>0, <1>1, NoCalls DEF Pending
<1>3. PointersInv'
  BY <1>0, <1>2, SamePointers DEF Shared, Enclosed, pointers
<1>4. ASSUME NEW i, i = 1 PROVE CallOK(i)'
  BY <1>0, <1>1, <1>4 DEF CallOK
<1> QED
  BY <1>1, <1>3, <1>4 DEF CallsOK
-----------------------------------------------------------------------------
(* What holds in every state. *)

LEMMA OwnInit == Init => OwnInv
<1> SUFFICES ASSUME Init PROVE OwnInv
  OBVIOUS
<1>1. TypeOK /\ calls = <<>>
  BY TypeInit DEF Init
<1>2. Pending = {} /\ CallsOK
  BY <1>1, NoCalls
<1>3. /\ \A n \in Node : /\ parent[n] = Null /\ bodyAsMessage[n] = Null
                         /\ multipartContents[n] = <<>> /\ Elements(multipartContents[n]) = {}
      /\ live = {} /\ owned = {} /\ held = {}
  BY DEF Init, Elements
<1>4. FreeIsBlank /\ ChildrenAgree /\ ParentsAgree /\ ContentsExclusive /\ NoLoop
  BY <1>3 DEF FreeIsBlank, ChildrenAgree, ParentsAgree, ContentsExclusive, NoLoop
<1>5. NoDuplicates
  BY <1>3 DEF NoDuplicates, IsInjective
<1>6. OwnersPartition
  BY <1>2, <1>3 DEF OwnersPartition, Listed, Shared, Enclosed
<1> QED
  BY <1>1, <1>2, <1>4, <1>5, <1>6 DEF OwnInv, PointersInv

LEMMA ParseKeeps ==
    ASSUME OwnInv, ParseStep
    PROVE  PointersInv' /\ CallsOK'
BY ClearStep, ReadStep, MessageStep, PartStep, AppendStep, ReturnStep DEF ParseStep

LEMMA OwnNext ==
    ASSUME OwnInv, CarefulCaller, [Next]_vars
    PROVE  OwnInv'
<1>1. CASE Edit \/ Share
  BY <1>1, EditKeeps, EditType DEF OwnInv
<1>2. ASSUME NEW n \in Node, Parse(n) PROVE OwnInv'
  <2>1. TypeOK'
    BY <1>2, CallType DEF OwnInv, Parse, TypeOK, pointers
  <2> QED
    BY <1>2, <2>1, FirstCall DEF OwnInv
<1>3. CASE ParseStep
  BY <1>3, ParseKeeps, ParseType DEF OwnInv
<1>4. CASE UNCHANGED vars
  <2> USE <1>4 DEF vars, pointers
  <2>1. TypeOK'
    BY DEF OwnInv, TypeOK
  <2>2. Pending' = Pending /\ Shared' = Shared
    BY DEF Pending, Shared, Enclosed
  <2>3. PointersInv'
    BY <2>2, SamePointers DEF OwnInv
  <2>4. \A i : CallOK(i)' <=> CallOK(i)
    BY DEF CallOK
  <2>5. CallsOK'
    BY <2>4 DEF OwnInv, CallsOK
  <2> QED
    BY <2>1, <2>3, <2>5 DEF OwnInv
<1> QED
  BY <1>1, <1>2, <1>3, <1>4 DEF Next

\* The inductive invariant holds in every reachable state.
THEOREM OwnershipInvariant ==
    ASSUME CarefulCaller
    PROVE  Spec => []OwnInv
<1>1. OwnInv /\ [Next]_vars => OwnInv'
  BY OwnNext
<1> QED
  BY <1>1, OwnInit, PTL DEF Spec

\* No child pointer dangles and a child knows the object that contains it; no
\* parent pointer dangles and a parent knows its child, but for the part that
\* parse() is working on.
THEOREM PointersAlwaysAgree ==
    ASSUME CarefulCaller
    PROVE  Spec => []PointersAgree
<1>1. OwnInv => PointersAgree
  <2> SUFFICES ASSUME OwnInv PROVE PointersAgree
    OBVIOUS
  <2> USE DEF OwnInv
  <2>0. live \subseteq Node /\ Null \notin Node
    BY ConstantsAssumption DEF TypeOK
  <2>1. \A n \in live : \A c \in Children(n) : c \in live /\ parent[c] = n
    BY <2>0, OneContainer
  <2>2. ASSUME NEW c \in live, parent[c] # Null
        PROVE  parent[c] \in live /\ c \in Children(parent[c]) \cup Pending
    <3>1. /\ parent[c] \in live
          /\ \/ c \in Elements(multipartContents[parent[c]])
             \/ c = bodyAsMessage[parent[c]]
             \/ c \in Pending
      BY <2>2 DEF PointersInv, ParentsAgree
    <3> QED
      BY <2>0, <3>1, OneContainer
  <2> QED
    BY <2>1, <2>2 DEF PointersAgree
<1> QED
  BY <1>1, OwnershipInvariant, PTL

\* Every object has exactly one owner: the caller, one list, the shared_ptrs
\* of an encapsulated message, or the unique_ptr inside parse().
THEOREM AlwaysOneOwner ==
    ASSUME CarefulCaller
    PROVE  Spec => []OneOwner
<1>1. OwnInv => OneOwner
  <2> SUFFICES ASSUME OwnInv, NEW n \in live
               PROVE  Cardinality({<<"unique", p>> : p \in {q \in {n} : q \in owned}}
                        \cup {<<"list", p>> : p \in {q \in live :
                                              n \in Elements(multipartContents[q])}}
                        \cup {<<"shared", p>> : p \in {q \in {n} :
                                              Holders(q) # {} \/ q \in held}}
                        \cup {<<"parse", p>> : p \in {q \in {n} : q \in Pending}}) = 1
    BY DEF OneOwner
  <2> USE DEF OwnInv
  <2> DEFINE U == {q \in {n} : q \in owned}
             L == {q \in live : n \in Elements(multipartContents[q])}
             S == {q \in {n} : Holders(q) # {} \/ q \in held}
             P == {q \in {n} : q \in Pending}
             owners == {<<"unique", p>> : p \in U} \cup {<<"list", p>> : p \in L}
                       \cup {<<"shared", p>> : p \in S} \cup {<<"parse", p>> : p \in P}
  <2>0. live \subseteq Node /\ Null \notin Node
    BY ConstantsAssumption DEF TypeOK
  <2>1. /\ n \in owned \cup Listed \cup Shared \cup Pending
        /\ n \notin owned \cap Listed /\ n \notin owned \cap Shared /\ n \notin owned \cap Pending
        /\ n \notin Listed \cap Shared /\ n \notin Listed \cap Pending /\ n \notin Shared \cap Pending
    BY DEF PointersInv, OwnersPartition
  <2>2. U = (IF n \in owned THEN {n} ELSE {}) /\ P = (IF n \in Pending THEN {n} ELSE {})
    OBVIOUS
  <2>3. S = IF n \in Shared THEN {n} ELSE {}
    <3>1. n \in Enclosed <=> Holders(n) # {}
      BY <2>0, HoldersOf
    <3> QED
      BY <3>1 DEF Shared
  <2>4. L = IF n \in Listed THEN {parent[n]} ELSE {}
    <3>1. \A q \in Node : n \in Elements(multipartContents[q]) => q = parent[n] /\ q \in live
      <4>1. \A q \in Node : multipartContents[q] # <<>> => q \in live
        BY DEF PointersInv, FreeIsBlank
      <4>2. Elements(<<>>) = {}
        BY DEF Elements
      <4> QED
        BY <4>1, <4>2 DEF PointersInv, ChildrenAgree
    <3>2. n \in Listed <=> \E q \in Node : n \in Elements(multipartContents[q])
      BY DEF Listed
    <3> QED
      BY <2>0, <3>1, <3>2
  <2>5. \E x : owners = {x}
    <3> HIDE DEF U, L, S, P
    <3>1. CASE n \in owned
      <4>1. owners = {<<"unique", n>>}
        BY <2>1, <2>2, <2>3, <2>4, <3>1
      <4> QED
        BY <4>1
    <3>2. CASE n \in Listed
      <4>1. owners = {<<"list", parent[n]>>}
        BY <2>1, <2>2, <2>3, <2>4, <3>2
      <4> QED
        BY <4>1
    <3>3. CASE n \in Shared
      <4>1. owners = {<<"shared", n>>}
        BY <2>1, <2>2, <2>3, <2>4, <3>3
      <4> QED
        BY <4>1
    <3>4. CASE n \in Pending
      <4>1. owners = {<<"parse", n>>}
        BY <2>1, <2>2, <2>3, <2>4, <3>4
      <4> QED
        BY <4>1
    <3> QED
      BY <2>1, <3>1, <3>2, <3>3, <3>4
  <2>6. Cardinality(owners) = 1
    <3> HIDE DEF owners
    <3> QED
      BY <2>5, FS_Singleton
  <2> QED
    BY <2>6
<1> QED
  BY <1>1, OwnershipInvariant, PTL

\* A message the caller holds is alive, also when the content it was found in
\* is not, and then it has no parent; what the caller owns is alive.
THEOREM HeldAlwaysAlive ==
    ASSUME CarefulCaller
    PROVE  Spec => []HeldStaysAlive
<1>1. OwnInv => HeldStaysAlive
  <2> SUFFICES ASSUME OwnInv PROVE HeldStaysAlive
    OBVIOUS
  <2> USE DEF OwnInv
  <2>1. owned \cup held \subseteq live
    BY DEF PointersInv, OwnersPartition, Shared
  <2>2. ASSUME NEW m \in held, Holders(m) = {} PROVE parent[m] = Null
    <3>0. m \in live /\ m \in Node /\ Null \notin Node
      BY <2>1, ConstantsAssumption DEF TypeOK
    <3>1. m \notin Enclosed
      BY <2>2, HoldersOf
    <3>2. m \notin Listed /\ m \notin Pending
      BY DEF PointersInv, OwnersPartition, Shared
    <3>3. parent[m] # Null =>
             /\ parent[m] \in Node
             /\ m \in Elements(multipartContents[parent[m]]) \/ m = bodyAsMessage[parent[m]]
      BY <3>0, <3>2 DEF PointersInv, ParentsAgree, TypeOK
    <3> QED
      BY <3>0, <3>1, <3>2, <3>3 DEF Listed, Enclosed
  <2> QED
    BY <2>1, <2>2 DEF HeldStaysAlive
<1> QED
  BY <1>1, OwnershipInvariant, PTL

\* No object has both parts and an encapsulated message, as the assertion of
\* ContentPrivate::contents() says.
THEOREM ContentsAlwaysExclusive ==
    ASSUME CarefulCaller
    PROVE  Spec => []ContentsExclusive
<1>1. OwnInv => ContentsExclusive
  BY DEF OwnInv, PointersInv
<1> QED
  BY <1>1, OwnershipInvariant, PTL

-----------------------------------------------------------------------------
(* What parse() may touch. *)

\* An object is below itself, and the children of what is below n are below n.
LEMMA BelowProperties ==
    ASSUME OwnInv, NEW n \in live
    PROVE  /\ n \in Below(n) /\ Below(n) \subseteq live
           /\ \A m \in Below(n) : Children(m) \subseteq Below(n)
           /\ \A X \in SUBSET live : n \in X /\ (\A m \in X : Children(m) \subseteq X)
                                     => Below(n) \subseteq X
<1> USE DEF OwnInv
<1> DEFINE closed == {X \in SUBSET live : n \in X /\ \A m \in X : Children(m) \cap live \subseteq X}
<1>1. Below(n) = {k \in live : \A X \in closed : k \in X}
  BY DEF Below, Least
<1>2. \A m \in live : Children(m) \subseteq live
  BY OneContainer DEF TypeOK
<1>3. n \in Below(n) /\ Below(n) \subseteq live
  BY <1>1
<1>4. ASSUME NEW m \in Below(n), NEW c \in Children(m) PROVE c \in Below(n)
  <2>1. m \in live /\ c \in live
    BY <1>1, <1>2, <1>4
  <2>2. \A X \in closed : c \in X
    BY <1>1, <1>4, <2>1
  <2> HIDE DEF closed
  <2> QED
    BY <1>1, <2>1, <2>2
<1>5. ASSUME NEW X \in SUBSET live, n \in X, \A m \in X : Children(m) \subseteq X
      PROVE  Below(n) \subseteq X
  <2>1. X \in closed
    BY <1>5
  <2> HIDE DEF closed
  <2> QED
    BY <1>1, <2>1
<1> QED
  BY <1>3, <1>4, <1>5

\* Clearing n destroys only what is below n.
LEMMA DoomedBelow ==
    ASSUME OwnInv, NEW n \in live
    PROVE  Doomed({}, {n}) \subseteq Below(n)
<1> USE DEF OwnInv
<1> DEFINE S == {}
           C == {n}
<1>1. live \subseteq Node /\ Null \notin Node /\ Below(n) \in SUBSET live /\ n \in Below(n)
  BY ConstantsAssumption, BelowProperties DEF TypeOK
<1>2. Closed(Below(n), C)
  <2>1. ASSUME NEW k \in Below(n), NEW c \in Elements(multipartContents[k]) PROVE c \in Below(n)
    <3>1. c \in Children(k)
      BY <1>1, OneContainer
    <3> QED
      BY <3>1, BelowProperties
  <2>2. ASSUME NEW m \in live, NEW h \in Holders(m), h \in Below(n) PROVE m \in Below(n)
    <3>1. m \in Children(h)
      BY <1>1, <2>2, OneContainer DEF Holders
    <3> QED
      BY <2>2, <3>1, BelowProperties
  <2> QED
    BY <1>1, <2>1, <2>2 DEF Closed
<1>3. S \subseteq live /\ C \subseteq live /\ S \subseteq Below(n)
  BY <1>1
<1> HIDE DEF S, C
<1>4. \A X \in SUBSET live : S \subseteq X /\ Closed(X, C) => Doomed(S, C) \subseteq X
  BY <1>3, DoomedProperties
<1>5. Doomed(S, C) \subseteq Below(n)
  BY <1>1, <1>2, <1>3, <1>4
<1> QED
  BY <1>5 DEF S, C

\* The object parse() adds to a list is in no other list.
LEMMA AppendedOnly ==
    ASSUME OwnInv, AppendPart
    PROVE  /\ Top.node \in live /\ Top.kid \in Pending /\ Top.kid \in live
           /\ multipartContents' = [multipartContents EXCEPT ![Top.node] = Append(@, Top.kid)]
<1> USE DEF OwnInv
<1> DEFINE n == Top.node
           c == Top.kid
           lists == [multipartContents EXCEPT ![n] = Append(@, c)]
<1>0. /\ calls # <<>> /\ c # Null
      /\ multipartContents' = IF parent[c] # n THEN Relisted(lists, c, n) ELSE lists
  BY DEF AppendPart
<1>1. n \in live /\ c \in live /\ (parent[c] = n \/ parent[c] = Null)
  BY <1>0, CallsInv DEF CallOK
<1>2. c \in Pending
  BY <1>0, CallsInv
<1>3. multipartContents[n] \in Seq(Node) /\ c \in Node /\ n \in Node
  BY <1>1 DEF TypeOK
<1>4. lists[n] = Append(multipartContents[n], c)
  BY <1>3 DEF TypeOK
<1>5. c \in Elements(lists[n])
  <2>1. Len(multipartContents[n]) + 1 \in DOMAIN lists[n]
        /\ lists[n][Len(multipartContents[n]) + 1] = c
    BY <1>3, <1>4
  <2> QED
    BY <2>1 DEF Elements
<1> HIDE DEF lists
<1>6. multipartContents' = lists
  BY <1>0, <1>1, <1>5 DEF Relisted
<1> QED
  BY <1>1, <1>2, <1>6 DEF lists

\* One step: n is neither below a call of parse() nor still in its hands.
LEMMA LocalStep ==
    ASSUME OwnInv, [Next]_vars, calls # <<>>, NEW n \in live, n \notin Pending,
           \A i \in DOMAIN calls : n \notin Below(calls[i].node)
    PROVE  /\ n \in live' /\ data'[n] = data[n]
           /\ multipartContents'[n] = multipartContents[n]
           /\ bodyAsMessage'[n] = bodyAsMessage[n] /\ parent'[n] = parent[n]
<1> USE DEF OwnInv
<1> DEFINE Same == /\ n \in live' /\ data'[n] = data[n]
                   /\ multipartContents'[n] = multipartContents[n]
                   /\ bodyAsMessage'[n] = bodyAsMessage[n] /\ parent'[n] = parent[n]
<1>0. n \in Node
  BY DEF TypeOK
<1>1. /\ Top.node \in live /\ Top.node \in Node
      /\ n \notin Below(Top.node) /\ n # Top.node
  <2>1. Len(calls) \in DOMAIN calls /\ Top = calls[Len(calls)] /\ Top.node \in live
    BY CallsInv DEF CallOK
  <2>2. n \notin Below(Top.node)
    BY <2>1
  <2> QED
    BY <2>1, <2>2, BelowProperties DEF TypeOK
<1>2. CASE UNCHANGED vars
  BY <1>2 DEF vars, pointers
<1>3. CASE ParseClear
  <2> DEFINE r == Top.node
             B == Below(r)
             D == Doomed({}, {r})
  <2>0. /\ ReleasePointers({}, {r})
        /\ data' = [Forget(D) EXCEPT ![r] = [data[r] EXCEPT !.type = data[r].head]]
    BY <1>3 DEF ParseClear, Release
  <2>1. /\ D \subseteq B /\ r \in B /\ n \notin B /\ n # r
        /\ \A k \in B : Children(k) \subseteq B
    BY <1>1, DoomedBelow, BelowProperties
  <2>2. /\ live' = live \ D
        /\ parent' = ParentsAfter(D, D \cup {r})
        /\ multipartContents' = ListsAfter({}, D \cup {r})
        /\ bodyAsMessage' = [k \in Node |-> IF k \in D \cup {r} THEN Null ELSE bodyAsMessage[k]]
    BY <2>0 DEF ReleasePointers
  <2>3. n \notin UNION {Children(k) : k \in D \cup {r}} /\ n \notin D \cup {r}
    BY <2>1
  <2>4. data'[n] = data[n]
    BY <1>0, <2>0, <2>3 DEF Forget
  <2> HIDE DEF r, B, D
  <2>5. parent'[n] = parent[n]
    BY <1>0, <2>2, <2>3 DEF ParentsAfter
  <2>6. multipartContents'[n] = multipartContents[n] /\ bodyAsMessage'[n] = bodyAsMessage[n]
    BY <1>0, <2>2, <2>3 DEF ListsAfter
  <2> QED
    BY <2>2, <2>3, <2>4, <2>5, <2>6
<1>4. CASE ParseText \/ ParseMultipart \/ ParseOther \/ ParseReturn
  <2>1. UNCHANGED <<live, pointers>>
    BY <1>4 DEF ParseText, ParseMultipart, ParseOther, ParseReturn
  <2>2. data'[n] = data[n]
    BY <1>0, <1>1, <1>4 DEF ParseText, ParseMultipart, ParseOther, ParseReturn, TypeOK
  <2> QED
    BY <2>1, <2>2 DEF pointers
<1>5. ASSUME NEW m \in Node, ParseMessage(m) PROVE Same
  BY <1>0, <1>1, <1>5 DEF ParseMessage, TypeOK
<1>6. ASSUME NEW c \in Node, ParsePart(c) PROVE Same
  BY <1>0, <1>1, <1>6 DEF ParsePart, EarlyParent, TypeOK
<1>7. CASE AppendPart
  <2>1. /\ parent' = [parent EXCEPT ![Top.kid] = Top.node] /\ Top.kid # n
        /\ multipartContents' = [multipartContents EXCEPT ![Top.node] = Append(@, Top.kid)]
        /\ UNCHANGED <<live, bodyAsMessage, data>>
    BY <1>0, <1>7, AppendedOnly DEF AppendPart
  <2> QED
    BY <1>0, <1>1, <2>1 DEF TypeOK
<1>8. ~Edit /\ ~Share /\ \A k \in Node : ~Parse(k)
  BY DEF Edit, Share, New, Delete, Clear, Assemble, Clone, AppendContent, PrependContent,
     TakeContent, SetParent, SetContent, SetMimeType, SetFrozen, HoldMessage,
     DropMessage, Parse, May
<1> QED
  BY <1>2, <1>3, <1>4, <1>5, <1>6, <1>7, <1>8 DEF Next, ParseStep

\* While parse() runs, an object that is neither below one of its calls nor
\* still in its hands keeps its text, its children and its parent.
THEOREM ParseAlwaysLocal ==
    ASSUME CarefulCaller
    PROVE  Spec => ParseIsLocal
<1>1. OwnInv /\ [Next]_vars =>
        [calls # <<>> =>
           \A n \in live \ (Pending \cup UNION {Below(calls[i].node) : i \in DOMAIN calls}) :
              /\ n \in live'
              /\ data'[n] = data[n]
              /\ multipartContents'[n] = multipartContents[n]
              /\ bodyAsMessage'[n] = bodyAsMessage[n]
              /\ parent'[n] = parent[n]]_vars
  <2> SUFFICES ASSUME OwnInv, [Next]_vars, calls # <<>>,
                      NEW n \in live \ (Pending \cup UNION {Below(calls[i].node) :
                                                            i \in DOMAIN calls})
               PROVE  /\ n \in live'
                      /\ data'[n] = data[n]
                      /\ multipartContents'[n] = multipartContents[n]
                      /\ bodyAsMessage'[n] = bodyAsMessage[n]
                      /\ parent'[n] = parent[n]
    OBVIOUS
  <2>1. n \notin Pending /\ \A i \in DOMAIN calls : n \notin Below(calls[i].node)
    OBVIOUS
  <2> QED
    BY <2>1, LocalStep
<1> QED
  BY <1>1, OwnershipInvariant, PTL DEF Spec, ParseIsLocal
-----------------------------------------------------------------------------
(* What a frozen object seals. *)

\* Nothing is a child from outside: what is below f, but for f itself, has its
\* container below f.
LEMMA ContainerBelow ==
    ASSUME OwnInv, NEW f \in live, NEW d \in Below(f) \ {f}, NEW m \in live, d \in Children(m)
    PROVE  m \in Below(f)
<1> USE DEF OwnInv
<1> SUFFICES ASSUME m \notin Below(f) PROVE FALSE
  OBVIOUS
<1>1. \A k \in live : d \in Children(k) => k = m
  BY OneContainer DEF TypeOK
<1> DEFINE X == Below(f) \ {d}
<1>2. X \in SUBSET live /\ f \in X /\ \A k \in X : Children(k) \subseteq X
  BY <1>1, BelowProperties
<1> HIDE DEF X
<1>3. Below(f) \subseteq X
  BY <1>2, BelowProperties
<1> QED
  BY <1>3 DEF X

\* assemble() called from outside of a frozen object rewrites nothing below it.
LEMMA AssembledOutside ==
    ASSUME OwnInv, NEW f \in live, data[f].frozen, NEW r \in live, r \notin Below(f) \ {f}
    PROVE  Assembled(r) \cap Below(f) = {}
<1> USE DEF OwnInv
<1> DEFINE thawed == {m \in live : ~data[m].frozen}
           X == thawed \ Below(f)
<1>1. CASE r \notin thawed
  BY <1>1 DEF Assembled
<1>2. CASE r \in thawed
  <2>1. r \in X
    BY <1>2
  <2>2. ASSUME NEW m \in X, NEW d \in Children(m) \cap thawed PROVE d \in X
    <3>1. m \in live /\ m \notin Below(f) /\ d # f
      OBVIOUS
    <3> QED
      BY <3>1, ContainerBelow
  <2>3. X \in SUBSET thawed
    OBVIOUS
  <2> DEFINE closed == {Y \in SUBSET thawed : r \in Y /\ \A m \in Y : Children(m) \cap thawed \subseteq Y}
  <2>4. X \in closed
    BY <2>1, <2>2, <2>3
  <2>5. Assembled(r) = Least(closed)
    BY <1>2 DEF Assembled
  <2> HIDE DEF closed
  <2>6. Assembled(r) \subseteq X
    BY <2>4, <2>5 DEF Least
  <2> QED
    BY <2>6
<1> QED
  BY <1>1, <1>2

\* When parse() was called on a frozen object, so is every object that it
\* parses, and what it has built so far is frozen or made up from attachments.
FrozenInv ==
    calls # <<>> /\ data[calls[1].node].frozen =>
        /\ \A i \in DOMAIN calls : data[calls[i].node].frozen
        /\ calls[1].pc # "clear" =>
              \E X \in SUBSET live :
                  /\ Pending \subseteq X /\ \A i \in DOMAIN calls : calls[i].node \in X
                  /\ \A m \in X : Children(m) \subseteq X
                                  /\ (data[m].frozen \/ data[m].body = Leaf)

\* The objects of the calls after a step of the one on top.
LEMMA NodesAfter ==
    ASSUME OwnInv, calls # <<>>, NEW frame \in Frame, GoesOn(frame), NEW c, Alone \/ Calling(c),
           frame.node = Top.node
    PROVE  /\ 1 \in DOMAIN calls /\ 1 \in DOMAIN calls' /\ calls' # <<>>
           /\ calls'[1].node = calls[1].node
           /\ \A i \in DOMAIN calls' : \/ \E j \in DOMAIN calls : calls'[i].node = calls[j].node
                                       \/ Calling(c) /\ calls'[i].node = c
<1> USE DEF OwnInv
<1>1. /\ Len(calls) \in Nat \ {0} /\ DOMAIN calls = 1 .. Len(calls) /\ Top = calls[Len(calls)]
  BY CallsInv
<1>2. /\ DOMAIN calls' = 1 .. Len(calls') /\ Len(calls') \in Nat
      /\ \A i \in 1 .. Len(calls) : i \in DOMAIN calls'
      /\ \A i \in 1 .. Len(calls) - 1 : i \in 1 .. Len(calls)
      /\ \A i \in 1 .. Len(calls) : i \in 1 .. Len(calls) - 1 \/ i = Len(calls)
      /\ \A i \in DOMAIN calls' :
            \/ i \in 1 .. Len(calls) - 1 /\ calls'[i] = calls[i]
            \/ i = Len(calls) /\ calls'[i] = frame
            \/ Calling(c) /\ calls'[i] = Call(c)
  BY StackAfter
<1>3. (\A i \in 1 .. Len(calls) - 1 : calls'[i] = calls[i]) /\ calls'[Len(calls)] = frame
  BY DEF GoesOn
<1>4. 1 \in 1 .. Len(calls) /\ Len(calls) \in 1 .. Len(calls)
  BY <1>1
<1>5. 1 \in DOMAIN calls' /\ calls' # <<>>
  BY <1>2, <1>4
<1>6. calls'[1].node = calls[1].node
  BY <1>1, <1>2, <1>3, <1>4
<1>7. Call(c).node = c
  BY DEF Call
<1> QED
  BY <1>1, <1>2, <1>4, <1>5, <1>6, <1>7

\* A step that makes the objects of W, none or one.
LEMMA FrozenKept ==
    ASSUME OwnInv, FrozenInv, calls # <<>>, NEW frame \in Frame, GoesOn(frame), NEW c,
           Alone \/ Calling(c), frame.node = Top.node, Top.pc # "clear" \/ Len(calls) > 1,
           NEW W, live' = live \cup W, W \cap live = {},
           \A k \in live \ {Top.node} : data'[k] = data[k],
           data'[Top.node].frozen = data[Top.node].frozen,
           \A k \in W : /\ Children(k)' = {}
                        /\ data[Top.node].frozen => data'[k].frozen \/ data'[k].body = Leaf,
           \A k \in live : Children(k)' \subseteq Children(k) \cup W \cup Pending,
           Pending' \subseteq Pending \cup W,
           Calling(c) => c \in W /\ (data[Top.node].frozen => data'[c].frozen)
    PROVE  FrozenInv'
<1> USE DEF OwnInv
<1> SUFFICES ASSUME data'[calls'[1].node].frozen
             PROVE  /\ \A i \in DOMAIN calls' : data'[calls'[i].node].frozen
                    /\ \E X \in SUBSET live' :
                          /\ Pending' \subseteq X /\ \A i \in DOMAIN calls' : calls'[i].node \in X
                          /\ \A m \in X : Children(m)' \subseteq X
                                          /\ (data'[m].frozen \/ data'[m].body = Leaf)
  BY DEF FrozenInv
<1>1. /\ 1 \in DOMAIN calls /\ calls'[1].node = calls[1].node
      /\ \A i \in DOMAIN calls' : \/ \E j \in DOMAIN calls : calls'[i].node = calls[j].node
                                  \/ Calling(c) /\ calls'[i].node = c
  BY NodesAfter
<1>2. /\ \A i \in DOMAIN calls : calls[i].node \in live
      /\ \E i \in DOMAIN calls : Top = calls[i]
      /\ calls[1].pc # "clear"
  <2>1. /\ Len(calls) \in Nat \ {0} /\ DOMAIN calls = 1 .. Len(calls) /\ Top = calls[Len(calls)]
    BY CallsInv
  <2>2. \A i \in DOMAIN calls : CallOK(i)
    BY DEF CallsOK
  <2>3. 1 < Len(calls) => calls[1].pc = "parts"
    BY <1>1, <2>2 DEF CallOK
  <2>4. 1 < Len(calls) \/ 1 = Len(calls)
    BY <2>1
  <2>5. Len(calls) \in DOMAIN calls
    BY <2>1
  <2> QED
    BY <2>1, <2>2, <2>3, <2>4, <2>5 DEF CallOK
<1>3. \A k \in live : data'[k].frozen = data[k].frozen
  OBVIOUS
<1>4. data[calls[1].node].frozen
  BY <1>1, <1>2, <1>3
<1>5. \A i \in DOMAIN calls : data[calls[i].node].frozen
  BY <1>4 DEF FrozenInv
<1>6. data[Top.node].frozen
  BY <1>2, <1>5
<1>7. \A i \in DOMAIN calls' : data'[calls'[i].node].frozen
  BY <1>1, <1>2, <1>3, <1>5, <1>6
<1>8. PICK X \in SUBSET live :
         /\ Pending \subseteq X /\ \A i \in DOMAIN calls : calls[i].node \in X
         /\ \A m \in X : Children(m) \subseteq X /\ (data[m].frozen \/ data[m].body = Leaf)
  BY <1>2, <1>4 DEF FrozenInv
<1>9. X \cup W \in SUBSET live' /\ Pending' \subseteq X \cup W
  BY <1>8
<1>10. \A i \in DOMAIN calls' : calls'[i].node \in X \cup W
  BY <1>1, <1>8
<1>11. \A m \in X \cup W : Children(m)' \subseteq X \cup W
  BY <1>8
<1>12. ASSUME NEW m \in X \cup W PROVE data'[m].frozen \/ data'[m].body = Leaf
  <2>1. CASE m \in W
    BY <1>6, <2>1
  <2>2. CASE m \in X /\ m # Top.node
    BY <1>8, <2>2
  <2>3. CASE m = Top.node
    BY <1>6, <2>3
  <2> QED
    BY <2>1, <2>2, <2>3
<1> QED
  BY <1>7, <1>9, <1>10, <1>11, <1>12
LEMMA NoChildren ==
    \A n : multipartContents[n] = <<>> /\ bodyAsMessage[n] = Null => Children(n) = {}
BY DEF Children, Contents, Elements

LEMMA FrozenStep ==
    ASSUME OwnInv, FrozenInv, ParseStep
    PROVE  FrozenInv'
<1> USE DEF OwnInv
<1> SUFFICES ASSUME NEW n, n = Top.node PROVE FrozenInv'
  OBVIOUS
<1>0. calls # <<>> /\ n \in live /\ n \in Node
  <2>1. calls # <<>>
    BY DEF ParseStep, ParseClear, ParseText, ParseMultipart, ParseOther, ParseMessage, ParsePart,
       AppendPart, ParseReturn
  <2> QED
    BY <2>1, CallsInv DEF CallOK, TypeOK
<1>1. live \subseteq Node /\ Null \notin Node /\ data \in [Node -> Data]
  BY ConstantsAssumption DEF TypeOK
<1>2. \A frame \in Frame : GoesOn(frame) /\ Alone /\ frame.kid = Null => Pending' \subseteq Pending
  BY <1>0, PendingAfter
<1>3. ASSUME UNCHANGED <<live, pointers>>, NEW frame \in Frame, GoesOn(frame), Alone,
             frame.node = n, frame.kid = Null, Top.pc # "clear" \/ Len(calls) > 1,
             \A k \in live \ {n} : data'[k] = data[k], data'[n].frozen = data[n].frozen
      PROVE  FrozenInv'
  <2> DEFINE W == {}
  <2>1. /\ live' = live \cup W /\ W \cap live = {}
        /\ \A k \in live : Children(k)' \subseteq Children(k) \cup W \cup Pending
    BY <1>3 DEF Children, Contents, pointers
  <2>2. ~Calling(n)
    <3>1. Len(calls) \in Nat
      BY <1>0, CallsInv
    <3> QED
      BY <1>3, <3>1 DEF Alone, Calling
  <2>3. Pending' \subseteq Pending \cup W
    BY <1>2, <1>3
  <2>4. \A k \in W : /\ Children(k)' = {}
                     /\ data[n].frozen => data'[k].frozen \/ data'[k].body = Leaf
    OBVIOUS
  <2> HIDE DEF W
  <2> QED
    BY <1>0, <1>3, <2>1, <2>2, <2>3, <2>4, FrozenKept
<1>4. CASE ParseClear /\ Len(calls) > 1
  <2>1. UNCHANGED <<live, pointers>> /\ Doomed({}, {n}) = {}
    BY <1>4, NestedClear
  <2>2. data' = [Forget({}) EXCEPT ![n] = [data[n] EXCEPT !.type = data[n].head]]
    BY <1>4, <2>1 DEF ParseClear
  <2>3. Forget({}) = data
    BY <1>1 DEF Forget
  <2>4. (\A k \in live \ {n} : data'[k] = data[k]) /\ data'[n].frozen = data[n].frozen
    BY <1>0, <1>1, <2>2, <2>3 DEF Data
  <2>5. PICK frame \in Frame : GoesOn(frame) /\ Alone /\ frame.node = n /\ frame.kid = Null
    BY <1>4, ClearFrame
  <2> QED
    BY <1>3, <1>4, <2>1, <2>4, <2>5
<1>5. CASE ParseClear /\ ~(Len(calls) > 1)
  <2>1. PICK frame \in Frame : /\ GoesOn(frame) /\ Alone /\ frame.node = n
                               /\ frame.kid = Null /\ frame.pc = "read"
    BY <1>5, ClearFrame
  <2>2. Len(calls) = 1 /\ DOMAIN calls' = {1} /\ calls'[1] = frame /\ Top.kid = Null
    <3>1. Len(calls) \in Nat \ {0} /\ Top.kid = Null
      BY <1>0, <1>5, CallsInv DEF CallOK, ParseClear
    <3>2. Len(calls) = 1
      BY <1>5, <3>1
    <3> QED
      BY <2>1, <3>1, <3>2 DEF GoesOn, Alone
  <2>3. Pending' = {}
    BY <2>1, <2>2 DEF Pending
  <2>4. CallOK(1)'
    BY <1>5, <2>2, ClearStep DEF CallsOK
  <2>5. n \in live' /\ multipartContents'[n] = <<>> /\ bodyAsMessage'[n] = Null
    BY <2>1, <2>2, <2>4 DEF CallOK
  <2>6. Children(n)' = {}
    BY <2>5 DEF Children, Contents, Elements
  <2> SUFFICES ASSUME data'[n].frozen PROVE FrozenInv'
    BY <2>1, <2>2 DEF FrozenInv
  <2>7. /\ {n} \in SUBSET live' /\ Pending' \subseteq {n}
        /\ \A i \in DOMAIN calls' : calls'[i].node \in {n} /\ data'[calls'[i].node].frozen
        /\ \A m \in {n} : Children(m)' \subseteq {n} /\ (data'[m].frozen \/ data'[m].body = Leaf)
    BY <2>1, <2>2, <2>3, <2>5, <2>6
  <2> QED
    BY <2>7 DEF FrozenInv
<1>6. CASE ParseText \/ ParseMultipart \/ ParseOther
  <2>1. UNCHANGED <<live, pointers>> /\ Top.pc = "read"
    BY <1>6 DEF ParseText, ParseMultipart, ParseOther
  <2>2. (\A k \in live \ {n} : data'[k] = data[k]) /\ data'[n].frozen = data[n].frozen
    BY <1>0, <1>1, <1>6 DEF ParseText, ParseMultipart, ParseOther, Data
  <2>3. PICK frame \in Frame : GoesOn(frame) /\ Alone /\ frame.node = n /\ frame.kid = Null
    BY <1>6, ReadFrame
  <2> QED
    BY <1>3, <2>1, <2>2, <2>3
<1>7. ASSUME NEW m \in Node, ParseMessage(m) PROVE FrozenInv'
  <2> DEFINE W == {m}
  <2>1. PICK frame \in Frame : GoesOn(frame) /\ Calling(m) /\ frame.node = n /\ frame.kid = Null
    BY <1>7, MessageFrame
  <2>2. /\ live' = live \cup W /\ W \cap live = {} /\ m # n /\ Top.pc = "read"
        /\ bodyAsMessage' = [bodyAsMessage EXCEPT ![n] = m] /\ UNCHANGED multipartContents
    BY <1>0, <1>7 DEF ParseMessage
  <2>3. /\ \A k \in live \ {n} : data'[k] = data[k]
        /\ data'[n].frozen = data[n].frozen /\ data'[m].frozen = data[n].frozen
    BY <1>0, <1>1, <1>7 DEF ParseMessage, Data
  <2>4. Children(m)' = {}
    <3>1. multipartContents'[m] = <<>> /\ bodyAsMessage'[m] = Null
      BY <1>7, <2>2 DEF ParseMessage, PointersInv, FreeIsBlank, TypeOK
    <3> QED
      BY <3>1 DEF Children, Contents, Elements
  <2>5. \A k \in live : Children(k)' \subseteq Children(k) \cup W \cup Pending
    <3>1. \A k \in live \ {n} : Children(k)' = Children(k)
      BY <1>1, <2>2 DEF Children, Contents, TypeOK
    <3>2. Contents(n)' = <<m>>
      BY <1>0, <1>1, <2>2 DEF Contents, TypeOK
    <3>3. Children(n)' = W
      BY <3>2 DEF Children, Elements
    <3> QED
      BY <3>1, <3>3
  <2>6. Pending' \subseteq Pending \cup W
    BY <1>0, <2>1, PendingAfter
  <2>7. \A k \in W : /\ Children(k)' = {}
                     /\ data[n].frozen => data'[k].frozen \/ data'[k].body = Leaf
    BY <2>3, <2>4
  <2>8. m \in W /\ (data[n].frozen => data'[m].frozen)
    BY <2>3
  <2> HIDE DEF W
  <2> QED
    BY <1>0, <2>1, <2>2, <2>3, <2>5, <2>6, <2>7, <2>8, FrozenKept
<1>8. ASSUME NEW c \in Node, ParsePart(c) PROVE FrozenInv'
  <2> DEFINE W == {c}
  <2>1. PICK frame \in Frame : /\ GoesOn(frame) /\ frame.node = n /\ frame.kid = c
                               /\ (Recurses => Calling(c)) /\ (~Recurses => Alone)
    BY <1>8, PartFrame
  <2>2. /\ live' = live \cup W /\ W \cap live = {} /\ c # n /\ Top.pc = "parts" /\ Top.kid = Null
        /\ UNCHANGED <<bodyAsMessage, multipartContents>>
    BY <1>0, <1>8 DEF ParsePart
  <2>3. /\ \A k \in live \cup {n} : data'[k] = data[k]
        /\ data'[c] = NewPart(n, Head(Top.todo))
    BY <1>0, <1>1, <1>8 DEF ParsePart
  <2>4. data[n].frozen => data'[c].frozen \/ data'[c].body = Leaf
    BY <1>1, <1>0, <2>3 DEF NewPart, Data
  <2>5. Recurses /\ data[n].frozen => data'[c].frozen
    BY <1>1, <1>0, <2>3 DEF NewPart, Recurses, Data
  <2>6. Children(c)' = {}
    <3>1. multipartContents'[c] = <<>> /\ bodyAsMessage'[c] = Null
      BY <1>8, <2>2 DEF ParsePart, PointersInv, FreeIsBlank
    <3> QED
      BY <3>1 DEF Children, Contents, Elements
  <2>7. \A k \in live : Children(k)' \subseteq Children(k) \cup W \cup Pending
    BY <2>2 DEF Children, Contents
  <2>8. Pending' \subseteq Pending \cup W
    BY <1>0, <2>1, PendingAfter
  <2>9. Calling(c) => Recurses
    <3>1. Len(calls) \in Nat
      BY <1>0, CallsInv
    <3> QED
      BY <2>1, <3>1 DEF Alone, Calling
  <2>10. \A k \in W : /\ Children(k)' = {}
                      /\ data[n].frozen => data'[k].frozen \/ data'[k].body = Leaf
    BY <2>4, <2>6
  <2>11. Calling(c) => c \in W /\ (data[n].frozen => data'[c].frozen)
    BY <2>5, <2>9
  <2>12. Alone \/ Calling(c)
    BY <2>1
  <2> HIDE DEF W
  <2> QED
    BY <1>0, <2>1, <2>2, <2>3, <2>7, <2>8, <2>10, <2>11, <2>12, FrozenKept
<1>9. CASE AppendPart
  <2> DEFINE W == {}
             c == Top.kid
  <2>1. PICK frame \in Frame : GoesOn(frame) /\ Alone /\ frame.node = n /\ frame.kid = Null
    BY <1>9, AppendFrame
  <2>2. /\ UNCHANGED <<live, bodyAsMessage, data>> /\ Top.pc = "parts"
        /\ multipartContents' = [multipartContents EXCEPT ![n] = Append(@, c)] /\ c \in Pending
    BY <1>9, AppendedOnly DEF AppendPart
  <2>3. \A k \in live \ {n} : Contents(k)' = Contents(k)
    BY <1>1, <2>2 DEF Contents, TypeOK
  <2>4. Children(n)' \subseteq Children(n) \cup {c}
    <3>1. multipartContents[n] \in Seq(Node)
      BY <1>0 DEF TypeOK
    <3>2. Elements(Append(multipartContents[n], c)) \subseteq Elements(multipartContents[n]) \cup {c}
      BY <3>1 DEF Elements
    <3>3. multipartContents'[n] = Append(multipartContents[n], c)
      BY <1>0, <2>2 DEF TypeOK
    <3> QED
      BY <2>2, <3>2, <3>3 DEF Children, Contents
  <2>5. \A k \in live : Children(k)' \subseteq Children(k) \cup W \cup Pending
    BY <2>2, <2>3, <2>4 DEF Children
  <2>6. ~Calling(n)
    <3>1. Len(calls) \in Nat
      BY <1>0, CallsInv
    <3> QED
      BY <2>1, <3>1 DEF Alone, Calling
  <2>7. Pending' \subseteq Pending \cup W
    BY <1>2, <2>1
  <2>8. live' = live \cup W /\ W \cap live = {}
    BY <2>2
  <2>9. \A k \in W : /\ Children(k)' = {}
                     /\ data[n].frozen => data'[k].frozen \/ data'[k].body = Leaf
    OBVIOUS
  <2> HIDE DEF W
  <2> QED
    BY <1>0, <2>1, <2>2, <2>5, <2>6, <2>7, <2>8, <2>9, FrozenKept
<1>10. CASE ParseReturn
  <2>1. /\ UNCHANGED <<live, pointers, data>> /\ calls' = SubSeq(calls, 1, Len(calls) - 1)
    BY <1>10 DEF ParseReturn
  <2>2. /\ \A i \in DOMAIN calls' : i \in DOMAIN calls /\ calls'[i] = calls[i]
        /\ calls' # <<>> => 1 \in DOMAIN calls'
    <3>1. Len(calls) \in Nat \ {0} /\ DOMAIN calls = 1 .. Len(calls) /\ calls \in Seq(Frame)
      BY <1>0, CallsInv DEF TypeOK
    <3> DEFINE M == Len(calls) - 1
    <3>2. M \in Nat /\ 1 .. M \subseteq 1 .. Len(calls)
      BY <3>1
    <3>3. calls' \in Seq(Frame) /\ Len(calls') = M /\ \A i \in 1 .. M : calls'[i] = calls[i]
      BY <2>1, <3>1, <3>2
    <3>4. calls' # <<>> => 1 \in 1 .. M
      BY <3>2, <3>3
    <3> QED
      BY <3>1, <3>2, <3>3, <3>4
  <2>3. Pending' \subseteq Pending
    BY <2>2 DEF Pending
  <2>4. \A m : Children(m)' = Children(m)
    BY <2>1 DEF Children, Contents, pointers
  <2> QED
    BY <2>1, <2>2, <2>3, <2>4, <1>0 DEF FrozenInv
<1> QED
  BY <1>4, <1>5, <1>6, <1>7, <1>8, <1>9, <1>10 DEF ParseStep
LEMMA FrozenNext ==
    ASSUME OwnInv, FrozenInv, [Next]_vars
    PROVE  FrozenInv'
<1>1. CASE Edit \/ Share
  <2>1. calls' = <<>>
    BY <1>1 DEF Edit, Share, New, Delete, Clear, Assemble, Clone, CloneAs, AppendContent,
       PrependContent, Adopt, TakeContent, SetParent, SetContent, SetMimeType, SetFrozen,
       HoldMessage, DropMessage, May
  <2> QED
    BY <2>1 DEF FrozenInv
<1>2. ASSUME NEW n \in Node, Parse(n) PROVE FrozenInv'
  <2>1. /\ DOMAIN calls' = {1} /\ calls'[1].node = n /\ calls'[1].pc = "clear"
    BY <1>2 DEF Parse, Call
  <2> QED
    BY <2>1 DEF FrozenInv
<1>3. CASE ParseStep
  BY <1>3, FrozenStep
<1>4. CASE UNCHANGED vars
  <2>1. UNCHANGED <<live, data, calls>> /\ Pending' = Pending /\ \A m : Children(m)' = Children(m)
    BY <1>4 DEF vars, pointers, Pending, Children, Contents
  <2> QED
    BY <2>1 DEF FrozenInv
<1> QED
  BY <1>1, <1>2, <1>3, <1>4 DEF Next

\* A frozen object seals what is below it: assemble() from outside rewrites no
\* head there, and what parse() of a frozen object has built when it returns
\* is frozen too, but for the parts made up from uuencoded or yEnc text.
THEOREM FrozenAlwaysSeals ==
    ASSUME CarefulCaller
    PROVE  Spec => FrozenSeals
<1>1. Init => FrozenInv
  BY DEF Init, FrozenInv
<1>2. OwnInv /\ FrozenInv /\ [Next]_vars => FrozenInv'
  BY FrozenNext
<1>3. ASSUME OwnInv, NEW r \in live, Assemble(r), NEW f \in live, data[f].frozen,
             r \notin Below(f) \ {f}, NEW n \in Below(f)
      PROVE  data'[n] = data[n]
  <2>1. n \notin Assembled(r) /\ n \in Node
    BY <1>3, AssembledOutside, BelowProperties DEF OwnInv, TypeOK
  <2> QED
    BY <1>3, <2>1 DEF Assemble
<1>4. ASSUME OwnInv, FrozenInv, Next, calls # <<>>, calls' = <<>>, data[calls[1].node].frozen,
             NEW n \in Below(calls[1].node)
      PROVE  data[n].frozen \/ data[n].body = Leaf
  <2>1. /\ Len(calls) \in Nat \ {0} /\ DOMAIN calls = 1 .. Len(calls) /\ Top = calls[Len(calls)]
        /\ \A i \in DOMAIN calls : CallOK(i)
    BY <1>4, CallsInv DEF OwnInv, CallsOK
  <2>2. 1 \in DOMAIN calls /\ (1 < Len(calls) \/ 1 = Len(calls))
    BY <2>1
  <2>3. calls[1].node \in live
    BY <2>1, <2>2 DEF CallOK
  <2>4. calls[1].pc # "clear"
    <3>1. Top.pc # "clear"
      <4> SUFFICES ASSUME Top.pc = "clear" PROVE FALSE
        OBVIOUS
      <4>1. ParseClear
        BY <1>4 DEF Next, Edit, Share, New, Delete, Clear, Assemble, Clone, AppendContent,
           PrependContent, TakeContent, SetParent, SetContent, SetMimeType, SetFrozen,
           HoldMessage, DropMessage, Parse, May, ParseStep, ParseText, ParseMultipart, ParseOther,
           ParseMessage, ParsePart, AppendPart, ParseReturn
      <4>2. Len(calls') = Len(calls)
        BY <1>4, <4>1, ClearFrame DEF Alone
      <4> QED
        BY <1>4, <2>1, <4>2
    <3>2. 1 < Len(calls) => calls[1].pc = "parts"
      BY <2>1, <2>2 DEF CallOK
    <3> QED
      BY <2>1, <2>2, <3>1, <3>2
  <2>5. PICK X \in SUBSET live :
           /\ Pending \subseteq X /\ \A i \in DOMAIN calls : calls[i].node \in X
           /\ \A m \in X : Children(m) \subseteq X /\ (data[m].frozen \/ data[m].body = Leaf)
    BY <1>4, <2>4 DEF FrozenInv
  <2>6. calls[1].node \in X
    BY <2>2, <2>5
  <2>7. Below(calls[1].node) \subseteq X
    BY <1>4, <2>3, <2>5, <2>6, BelowProperties
  <2> QED
    BY <1>4, <2>5, <2>7
<1>5. OwnInv /\ FrozenInv /\ [Next]_vars =>
        [/\ \A r \in live : UNCHANGED pointers /\ Assemble(r) =>
              \A f \in {m \in live : data[m].frozen} :
                  r \notin Below(f) \ {f} => \A n \in Below(f) : data'[n] = data[n]
         /\ calls # <<>> /\ calls' = <<>> /\ data[calls[1].node].frozen =>
              \A n \in Below(calls[1].node) : data[n].frozen \/ data[n].body = Leaf]_vars
  BY <1>3, <1>4
<1> QED
  BY <1>1, <1>2, <1>5, OwnershipInvariant, PTL DEF Spec, FrozenSeals
-----------------------------------------------------------------------------
(* How deep parse() nests.  Depth() is defined by recursion, and what is    *)
(* said of it needs induction over the number of steps towards the root.    *)

LEMMA LeastNat ==
    ASSUME NEW T \in SUBSET Nat, T # {}
    PROVE  \E x \in T : \A y \in T : x <= y
<1> DEFINE R == OpToRel(<, Nat)
<1>1. IsWellFoundedOn(R, Nat)
  BY NatLessThanWellFounded
<1>2. \A y, x \in Nat : y < x => <<y, x>> \in R
  BY DEF OpToRel
<1> HIDE DEF R
<1>3. PICK x \in T : \A y \in T : ~ (<<y, x>> \in R)
  BY <1>1, WFMin
<1>4. ASSUME NEW y \in T PROVE x <= y
  <2>1. x \in Nat /\ y \in Nat /\ ~(y < x)
    BY <1>2, <1>3
  <2> QED
    BY <2>1
<1> QED
  BY <1>4

\* Induction over a set of numbers.
LEMMA SetInduction ==
    ASSUME NEW S \in SUBSET Nat, 0 \in S, \A n \in S : n + 1 \in S
    PROVE  S = Nat
<1> SUFFICES ASSUME Nat \ S # {} PROVE FALSE
  OBVIOUS
<1>1. PICK x \in Nat \ S : \A y \in Nat \ S : x <= y
  <2>1. Nat \ S \in SUBSET Nat
    OBVIOUS
  <2> QED
    BY <2>1, LeastNat
<1>2. x # 0 /\ x - 1 \in Nat /\ x - 1 \in S
  BY <1>1
<1> QED
  BY <1>1, <1>2

\* One step towards the root when p gives the parents, and the way there from n,
\* as Depth() counts it.
Up(p, n) == IF n = Null THEN Null ELSE p[n]

IsPath(p, f, n) ==
    f = [i \in 0 .. DepthLimit |-> IF i = 0 THEN n
                                   ELSE IF f[i - 1] = Null THEN Null ELSE p[f[i - 1]]]

\* Depth(n) when p gives the parents.
DepthIn(p, n) ==
    LET up[i \in 0 .. DepthLimit] ==
            IF i = 0 THEN n
            ELSE IF up[i - 1] = Null THEN Null ELSE p[up[i - 1]]
    IN  Cardinality({i \in 1 .. DepthLimit : up[i] # Null})

\* There is a way of every length.
LEMMA PathPrefix ==
    ASSUME NEW p \in [Node -> Node \cup {Null}], NEW n \in Node, NEW k \in Nat
    PROVE  \E f \in [0 .. k -> Node \cup {Null}] :
               f[0] = n /\ \A i \in 1 .. k : f[i] = Up(p, f[i - 1])
<1> DEFINE Ok(f, j) == f[0] = n /\ \A i \in 1 .. j : f[i] = Up(p, f[i - 1])
           S == {j \in Nat : \E f \in [0 .. j -> Node \cup {Null}] : Ok(f, j)}
<1>1. 0 \in S
  <2> DEFINE f == [i \in 0 .. 0 |-> n]
  <2>1. f \in [0 .. 0 -> Node \cup {Null}] /\ Ok(f, 0)
    OBVIOUS
  <2> HIDE DEF f
  <2> QED
    BY <2>1
<1>2. ASSUME NEW j \in S PROVE j + 1 \in S
  <2>1. j \in Nat
    OBVIOUS
  <2>2. PICK f \in [0 .. j -> Node \cup {Null}] : Ok(f, j)
    OBVIOUS
  <2> DEFINE g == [i \in 0 .. j + 1 |-> IF i = j + 1 THEN Up(p, f[j]) ELSE f[i]]
  <2>3. \A m \in Node \cup {Null} : Up(p, m) \in Node \cup {Null}
    BY DEF Up
  <2>4. g \in [0 .. j + 1 -> Node \cup {Null}]
    BY <2>1, <2>3
  <2>5. g[0] = n
    BY <2>1, <2>2
  <2>6. ASSUME NEW i \in 1 .. j + 1 PROVE g[i] = Up(p, g[i - 1])
    <3>1. i - 1 \in 0 .. j /\ i - 1 # j + 1 /\ (i = j + 1 \/ (i \in 1 .. j /\ i \in 0 .. j + 1 /\ i # j + 1))
      BY <2>1
    <3>2. g[i - 1] = f[i - 1]
      BY <2>1, <3>1
    <3> QED
      BY <2>1, <2>2, <3>1, <3>2
  <2> HIDE DEF g
  <2> QED
    BY <2>1, <2>4, <2>5, <2>6
<1> HIDE DEF S
<1>3. S = Nat
  <2>1. S \in SUBSET Nat
    BY DEF S
  <2> QED
    BY <1>1, <1>2, <2>1, SetInduction
<1> QED
  BY <1>3 DEF S

\* Depth counts the objects on the way; there is only one way.
LEMMA PathOfDepth ==
    ASSUME NEW p \in [Node -> Node \cup {Null}], NEW n \in Node
    PROVE  \E f \in [0 .. DepthLimit -> Node \cup {Null}] :
              /\ f[0] = n /\ \A i \in 1 .. DepthLimit : f[i] = Up(p, f[i - 1])
              /\ DepthIn(p, n) = Cardinality({i \in 1 .. DepthLimit : f[i] # Null})
<1>0. DepthLimit \in Nat
  BY ConstantsAssumption
<1>1. PICK f \in [0 .. DepthLimit -> Node \cup {Null}] :
         f[0] = n /\ \A i \in 1 .. DepthLimit : f[i] = Up(p, f[i - 1])
  BY <1>0, PathPrefix
<1>2. IsPath(p, f, n)
  <2> DEFINE e == [i \in 0 .. DepthLimit |-> IF i = 0 THEN n
                      ELSE IF f[i - 1] = Null THEN Null ELSE p[f[i - 1]]]
  <2>1. ASSUME NEW i \in 0 .. DepthLimit PROVE f[i] = e[i]
    <3>1. i = 0 \/ i \in 1 .. DepthLimit
      BY <1>0
    <3> QED
      BY <1>1, <3>1 DEF Up
  <2>2. f = e
    BY <2>1
  <2> QED
    BY <2>2 DEF IsPath
<1> DEFINE u == CHOOSE g : IsPath(p, g, n)
<1>3. IsPath(p, u, n)
  BY <1>2
<1>4. DepthIn(p, n) = Cardinality({i \in 1 .. DepthLimit : u[i] # Null})
  BY DEF DepthIn, IsPath
<1> HIDE DEF u
<1>5. u[0] = n /\ \A i \in 1 .. DepthLimit : u[i] = Up(p, u[i - 1])
  <2>1. \A i \in 0 .. DepthLimit :
           u[i] = IF i = 0 THEN n ELSE IF u[i - 1] = Null THEN Null ELSE p[u[i - 1]]
    BY <1>3 DEF IsPath
  <2>2. 0 \in 0 .. DepthLimit /\ \A i \in 1 .. DepthLimit : i \in 0 .. DepthLimit /\ i # 0
    BY <1>0
  <2> QED
    BY <2>1, <2>2 DEF Up
<1>6. \A i \in 1 .. DepthLimit : u[i] = f[i]
  <2> DEFINE S == {i \in Nat : i <= DepthLimit => u[i] = f[i]}
  <2>1. 0 \in S
    BY <1>1, <1>5
  <2>2. ASSUME NEW i \in S PROVE i + 1 \in S
    <3>1. i \in Nat /\ (i <= DepthLimit => u[i] = f[i])
      OBVIOUS
    <3> SUFFICES ASSUME i + 1 <= DepthLimit PROVE u[i + 1] = f[i + 1]
      OBVIOUS
    <3>2. i + 1 \in 1 .. DepthLimit /\ i + 1 - 1 = i /\ i <= DepthLimit
      BY <1>0, <3>1
    <3> QED
      BY <1>1, <1>5, <3>1, <3>2
  <2> HIDE DEF S
  <2>3. S = Nat
    <3>1. S \in SUBSET Nat
      BY DEF S
    <3> QED
      BY <2>1, <2>2, <3>1, SetInduction
  <2> QED
    BY <1>0, <2>3 DEF S
<1>7. {i \in 1 .. DepthLimit : u[i] # Null} = {i \in 1 .. DepthLimit : f[i] # Null}
  BY <1>6
<1> QED
  BY <1>1, <1>4, <1>7
LEMMA DepthIsIn == \A n : Depth(n) = DepthIn(parent, n)
BY DEF Depth, DepthIn

LEMMA DepthBound ==
    ASSUME NEW p \in [Node -> Node \cup {Null}], NEW n \in Node
    PROVE  DepthIn(p, n) \in Nat /\ DepthIn(p, n) <= DepthLimit
<1>0. DepthLimit \in Nat
  BY ConstantsAssumption
<1>1. PICK f \in [0 .. DepthLimit -> Node \cup {Null}] :
         DepthIn(p, n) = Cardinality({i \in 1 .. DepthLimit : f[i] # Null})
  BY PathOfDepth
<1> DEFINE I == 1 .. DepthLimit
           A == {i \in I : f[i] # Null}
<1>2. IsFiniteSet(I) /\ Cardinality(I) = DepthLimit
  <2>1. IsFiniteSet(I) /\ Cardinality(I) = IF 1 > DepthLimit THEN 0 ELSE DepthLimit - 1 + 1
    BY <1>0, FS_Interval
  <2> QED
    BY <1>0, <2>1
<1>3. A \in SUBSET I
  OBVIOUS
<1> HIDE DEF I, A
<1>4. IsFiniteSet(A) /\ Cardinality(A) <= DepthLimit
  BY <1>2, <1>3, FS_Subset
<1>5. Cardinality(A) \in Nat
  BY <1>4, FS_CardinalityType
<1> QED
  BY <1>1, <1>4, <1>5 DEF A, I

\* A child is one deeper than its parent, as long as the limit is not reached.
LEMMA DepthOfChild ==
    ASSUME NEW p \in [Node -> Node \cup {Null}], NEW n \in Node, NEW c \in Node, p[c] = n,
           DepthIn(p, n) < DepthLimit
    PROVE  DepthIn(p, c) = DepthIn(p, n) + 1
<1>0. DepthLimit \in Nat /\ Null \notin Node
  BY ConstantsAssumption
<1> DEFINE L == DepthLimit
<1>1. PICK f \in [0 .. L -> Node \cup {Null}] :
         /\ f[0] = n /\ \A i \in 1 .. L : f[i] = Up(p, f[i - 1])
         /\ DepthIn(p, n) = Cardinality({i \in 1 .. L : f[i] # Null})
  BY PathOfDepth
<1>2. PICK g \in [0 .. L -> Node \cup {Null}] :
         /\ g[0] = c /\ \A i \in 1 .. L : g[i] = Up(p, g[i - 1])
         /\ DepthIn(p, c) = Cardinality({i \in 1 .. L : g[i] # Null})
  BY PathOfDepth
<1> DEFINE A == {i \in 1 .. L : f[i] # Null}
           B == {i \in 1 .. L : g[i] # Null}
<1>3. \A i \in 1 .. L : g[i] = f[i - 1]
  <2> DEFINE S == {i \in Nat : i + 1 <= L => g[i + 1] = f[i]}
  <2>1. 0 \in S
    <3>1. 1 <= L => g[1] = Up(p, c)
      BY <1>0, <1>2
    <3>2. Up(p, c) = f[0]
      BY <1>0, <1>1 DEF Up
    <3> QED
      BY <3>1, <3>2
  <2>2. ASSUME NEW i \in S PROVE i + 1 \in S
    <3>1. i \in Nat /\ (i + 1 <= L => g[i + 1] = f[i])
      OBVIOUS
    <3> SUFFICES ASSUME (i + 1) + 1 <= L PROVE g[(i + 1) + 1] = f[i + 1]
      OBVIOUS
    <3>2. /\ (i + 1) + 1 \in 1 .. L /\ ((i + 1) + 1) - 1 = i + 1 /\ i + 1 \in 1 .. L
          /\ i + 1 <= L /\ (i + 1) - 1 = i
      BY <1>0, <3>1
    <3>3. g[(i + 1) + 1] = Up(p, g[i + 1]) /\ f[i + 1] = Up(p, f[i])
      BY <1>1, <1>2, <3>2
    <3> QED
      BY <3>1, <3>2, <3>3
  <2> HIDE DEF S
  <2>3. S = Nat
    <3>1. S \in SUBSET Nat
      BY DEF S
    <3> QED
      BY <2>1, <2>2, <3>1, SetInduction
  <2>4. ASSUME NEW i \in 1 .. L PROVE g[i] = f[i - 1]
    <3>1. i - 1 \in Nat /\ (i - 1) + 1 = i /\ i <= L
      BY <1>0
    <3>2. i - 1 \in S
      BY <2>3, <3>1
    <3> QED
      BY <3>1, <3>2 DEF S
  <2> QED
    BY <2>4
<1>4. f[L] = Null
  <2> SUFFICES ASSUME f[L] # Null PROVE FALSE
    OBVIOUS
  <2> DEFINE S == {i \in Nat : i <= L => f[L - i] # Null}
  <2>1. 0 \in S
    BY <1>0
  <2>2. ASSUME NEW i \in S PROVE i + 1 \in S
    <3>1. i \in Nat /\ (i <= L => f[L - i] # Null)
      OBVIOUS
    <3> SUFFICES ASSUME i + 1 <= L PROVE f[L - (i + 1)] # Null
      OBVIOUS
    <3>2. L - i \in 1 .. L /\ (L - i) - 1 = L - (i + 1) /\ i <= L
      BY <1>0, <3>1
    <3>3. f[L - i] = Up(p, f[L - (i + 1)])
      BY <1>1, <3>2
    <3> QED
      BY <3>1, <3>2, <3>3 DEF Up
  <2> HIDE DEF S
  <2>3. S = Nat
    <3>1. S \in SUBSET Nat
      BY DEF S
    <3> QED
      BY <2>1, <2>2, <3>1, SetInduction
  <2>4. ASSUME NEW i \in 1 .. L PROVE f[i] # Null
    <3>1. L - i \in Nat /\ L - (L - i) = i /\ L - i <= L
      BY <1>0
    <3>2. L - i \in S
      BY <2>3, <3>1
    <3> QED
      BY <3>1, <3>2 DEF S
  <2>5. A = 1 .. L
    BY <2>4
  <2>6. Cardinality(1 .. L) = IF 1 > L THEN 0 ELSE L - 1 + 1
    BY <1>0, FS_Interval
  <2>7. DepthIn(p, n) = Cardinality(A)
    BY <1>1
  <2> HIDE DEF A, L
  <2>8. L \in Nat /\ L = DepthLimit
    BY <1>0 DEF L
  <2>9. DepthIn(p, n) = L
    BY <2>5, <2>6, <2>7, <2>8
  <2> QED
    BY <2>8, <2>9
<1>5. L >= 1 /\ L \in Nat
  BY <1>0, DepthBound
<1>6. \A i \in A : i + 1 \in 1 .. L
  BY <1>4, <1>5
<1> DEFINE T == {i + 1 : i \in A}
<1>7. B = T \cup {1}
  <2>1. ASSUME NEW i \in 1 .. L, g[i] # Null PROVE i = 1 \/ (i - 1 \in A /\ (i - 1) + 1 = i)
    <3>1. i = 1 \/ i - 1 \in 1 .. L
      BY <1>5
    <3> QED
      BY <1>3, <1>5, <2>1, <3>1
  <2>2. ASSUME NEW i \in A PROVE i + 1 \in B
    <3>1. i + 1 \in 1 .. L /\ (i + 1) - 1 = i /\ f[i] # Null
      BY <1>5, <1>6
    <3> QED
      BY <1>3, <3>1
  <2>3. 1 \in B
    BY <1>0, <1>1, <1>3, <1>5
  <2> QED
    BY <2>1, <2>2, <2>3
<1>8. IsFiniteSet(A)
  <2>1. IsFiniteSet(1 .. L)
    BY <1>5, FS_Interval
  <2> QED
    BY <2>1, FS_Subset
<1>9. A \subseteq Nat /\ 1 \notin T
  BY <1>5
<1>10. IsFiniteSet(T) /\ Cardinality(T) = Cardinality(A)
  <2> DEFINE h == [i \in A |-> i + 1]
  <2>1. h \in Surjection(A, T)
    BY DEF Surjection
  <2>2. h \in Injection(A, T)
    BY <1>9 DEF Injection, IsInjective
  <2> HIDE DEF h, A, T
  <2> QED
    BY <1>8, <2>1, <2>2, FS_Surjection
<1> HIDE DEF A, B, T
<1>11. Cardinality(B) = Cardinality(T) + 1
  BY <1>7, <1>9, <1>10, FS_AddElement
<1> QED
  BY <1>1, <1>2, <1>10, <1>11 DEF A, B

\* The depth of an object depends on the parents of Z only, when Z holds the
\* object and the parents of its elements.
LEMMA DepthKept ==
    ASSUME NEW p \in [Node -> Node \cup {Null}], NEW q \in [Node -> Node \cup {Null}],
           NEW Z \in SUBSET Node, NEW n \in Z,
           \A z \in Z : q[z] = p[z] /\ (p[z] # Null => p[z] \in Z)
    PROVE  DepthIn(q, n) = DepthIn(p, n)
<1>0. DepthLimit \in Nat /\ Null \notin Node
  BY ConstantsAssumption
<1> DEFINE L == DepthLimit
<1>1. PICK f \in [0 .. L -> Node \cup {Null}] :
         /\ f[0] = n /\ \A i \in 1 .. L : f[i] = Up(p, f[i - 1])
         /\ DepthIn(p, n) = Cardinality({i \in 1 .. L : f[i] # Null})
  BY PathOfDepth
<1>2. PICK g \in [0 .. L -> Node \cup {Null}] :
         /\ g[0] = n /\ \A i \in 1 .. L : g[i] = Up(q, g[i - 1])
         /\ DepthIn(q, n) = Cardinality({i \in 1 .. L : g[i] # Null})
  BY PathOfDepth
<1>3. \A i \in 0 .. L : g[i] = f[i] /\ (f[i] # Null => f[i] \in Z)
  <2> DEFINE S == {i \in Nat : i <= L => g[i] = f[i] /\ (f[i] # Null => f[i] \in Z)}
  <2>1. 0 \in S
    BY <1>1, <1>2
  <2>2. ASSUME NEW i \in S PROVE i + 1 \in S
    <3>1. i \in Nat /\ (i <= L => g[i] = f[i] /\ (f[i] # Null => f[i] \in Z))
      OBVIOUS
    <3> SUFFICES ASSUME i + 1 <= L
                 PROVE  g[i + 1] = f[i + 1] /\ (f[i + 1] # Null => f[i + 1] \in Z)
      OBVIOUS
    <3>2. i + 1 \in 1 .. L /\ (i + 1) - 1 = i /\ i <= L
      BY <1>0, <3>1
    <3>3. f[i + 1] = Up(p, f[i]) /\ g[i + 1] = Up(q, f[i])
      BY <1>1, <1>2, <3>1, <3>2
    <3> QED
      BY <3>1, <3>2, <3>3 DEF Up
  <2> HIDE DEF S
  <2>3. S = Nat
    <3>1. S \in SUBSET Nat
      BY DEF S
    <3> QED
      BY <2>1, <2>2, <3>1, SetInduction
  <2> QED
    BY <1>0, <2>3 DEF S
<1>4. {i \in 1 .. L : g[i] # Null} = {i \in 1 .. L : f[i] # Null}
  BY <1>0, <1>3
<1> QED
  BY <1>1, <1>2, <1>4
\* Each call is on the child of the object the call before it works on, and so
\* one level deeper.
DepthInv ==
    \A i \in 1 .. Len(calls) :
        /\ i > 1 => parent[calls[i].node] = calls[i - 1].node
        /\ DepthIn(parent, calls[i].node) = DepthIn(parent, calls[1].node) + (i - 1)

\* A step of parse() keeps DepthInv when the objects of the calls keep their
\* parents and depths and a new call is on a child of the last one's object.
LEMMA DepthGoesOn ==
    ASSUME TypeOK, calls # <<>>, DepthInv,
           NEW frame \in Frame, GoesOn(frame), frame.node = Top.node,
           NEW c, Alone \/ Calling(c),
           \A i \in 1 .. Len(calls) :
              /\ parent'[calls[i].node] = parent[calls[i].node]
              /\ DepthIn(parent', calls[i].node) = DepthIn(parent, calls[i].node),
           Calling(c) => /\ parent'[c] = Top.node
                         /\ DepthIn(parent', c) = DepthIn(parent', Top.node) + 1
    PROVE  DepthInv'
<1> DEFINE N == Len(calls)
           p == parent
           q == parent'
<1>1. /\ N \in Nat \ {0} /\ Top = calls[N]
      /\ Len(calls') \in {N, N + 1} /\ (Len(calls') = N + 1 => Calling(c))
  BY DEF TypeOK, Top, Alone, Calling
<1>2. \A i \in 1 .. N : calls'[i].node = calls[i].node
  BY <1>1 DEF GoesOn
<1>3. Calling(c) => calls'[N + 1].node = c
  BY DEF Calling, Call
<1>4. \A i \in 1 .. N : (i > 1 => p[calls[i].node] = calls[i - 1].node)
                        /\ DepthIn(p, calls[i].node) = DepthIn(p, calls[1].node) + (i - 1)
  BY DEF DepthInv
<1>5. DepthIn(p, calls[1].node) \in Nat
  <2>1. p \in [Node -> Node \cup {Null}]
    BY DEF TypeOK
  <2>2. calls[1] \in Frame
    BY <1>1 DEF TypeOK
  <2>3. calls[1].node \in Node
    BY <2>2 DEF Frame
  <2> HIDE DEF p
  <2> QED
    BY <2>1, <2>3, DepthBound
<1>6. ASSUME NEW i \in 1 .. Len(calls')
      PROVE  /\ i > 1 => q[calls'[i].node] = calls'[i - 1].node
             /\ DepthIn(q, calls'[i].node) = DepthIn(q, calls'[1].node) + (i - 1)
  <2>1. 1 \in 1 .. N /\ calls'[1].node = calls[1].node
        /\ DepthIn(q, calls[1].node) = DepthIn(p, calls[1].node)
    BY <1>1, <1>2
  <2>2. CASE i \in 1 .. N
    <3>1. i > 1 => i - 1 \in 1 .. N
      BY <1>1, <2>2
    <3>2. calls'[i].node = calls[i].node /\ (i > 1 => calls'[i - 1].node = calls[i - 1].node)
      BY <1>2, <2>2, <3>1
    <3>3. q[calls[i].node] = p[calls[i].node]
          /\ DepthIn(q, calls[i].node) = DepthIn(p, calls[i].node)
      BY <2>2
    <3> HIDE DEF p, q
    <3> QED
      BY <1>4, <2>1, <2>2, <3>2, <3>3
  <2>3. CASE i = N + 1 /\ Calling(c)
    <3>1. N \in 1 .. N /\ i - 1 = N /\ i > 1
      BY <1>1, <2>3
    <3>2. calls'[i].node = c /\ calls'[i - 1].node = Top.node
      BY <1>1, <1>2, <1>3, <2>3, <3>1
    <3>3. DepthIn(q, Top.node) = DepthIn(p, Top.node)
      BY <1>1, <3>1
    <3>4. DepthIn(p, Top.node) = DepthIn(p, calls[1].node) + (N - 1)
      BY <1>1, <1>4, <3>1
    <3>5. q[c] = Top.node /\ DepthIn(q, c) = DepthIn(q, Top.node) + 1
      BY <2>3
    <3> HIDE DEF p, q
    <3>6. DepthIn(q, c) = DepthIn(p, calls[1].node) + N
      BY <1>1, <1>5, <3>3, <3>4, <3>5
    <3> QED
      BY <1>1, <2>1, <3>1, <3>2, <3>5, <3>6
  <2> QED
    BY <1>1, <2>2, <2>3
<1> QED
  BY <1>6 DEF DepthInv

\* The way to the root stays among the live objects.
LEMMA LiveIsUpClosed ==
    ASSUME OwnInv, OwnInv', NEW Z, Z \subseteq live,
           \A z \in Z : parent'[z] = parent[z] /\ (parent[z] \in live => parent[z] \in Z),
           NEW n \in Z
    PROVE  DepthIn(parent', n) = DepthIn(parent, n)
<1> DEFINE p == parent
           q == parent'
<1>1. p \in [Node -> Node \cup {Null}] /\ q \in [Node -> Node \cup {Null}] /\ Z \in SUBSET Node
  BY DEF OwnInv, TypeOK
<1>2. \A z \in Z : q[z] = p[z] /\ (p[z] # Null => p[z] \in Z)
  BY DEF OwnInv, PointersInv, ParentsAgree
<1> HIDE DEF p, q
<1>3. DepthIn(q, n) = DepthIn(p, n)
  BY <1>1, <1>2, DepthKept
<1> QED
  BY <1>3 DEF p, q
\* The object of a call, and the one of the last call.
LEMMA CallNodes ==
    ASSUME OwnInv, calls # <<>>
    PROVE  /\ \A i \in 1 .. Len(calls) : calls[i].node \in live
           /\ Len(calls) \in 1 .. Len(calls) /\ Top.node = calls[Len(calls)].node
           /\ Top.node \in live /\ Top.node \in Node
BY CallsInv DEF OwnInv, CallsOK, CallOK, TypeOK

LEMMA DepthStep ==
    ASSUME OwnInv, OwnInv', DepthInv, ParseStep
    PROVE  DepthInv'
<1>0. calls # <<>> /\ TypeOK
  BY DEF OwnInv, ParseStep, ParseClear, ParseText, ParseMultipart, ParseOther, ParseMessage,
     ParsePart, AppendPart, ParseReturn
<1> DEFINE N == Len(calls)
<1>1. /\ N \in Nat \ {0} /\ \A i \in 1 .. N : calls[i].node \in live
      /\ N \in 1 .. N /\ Top.node = calls[N].node /\ Top.node \in live /\ Top.node \in Node
  BY <1>0, CallsInv, CallNodes DEF OwnInv
<1>2. ASSUME UNCHANGED parent, NEW frame \in Frame, GoesOn(frame), Alone, frame.node = Top.node
      PROVE  DepthInv'
  <2>1. ~Calling(Null)
    BY <1>1, <1>2 DEF Alone, Calling
  <2> QED
    BY <1>0, <1>2, <2>1, DepthGoesOn
<1>3. ASSUME NEW c \in Node \ live, parent' = [parent EXCEPT ![c] = Top.node],
             DepthIn(parent, Top.node) < DepthLimit,
             NEW frame \in Frame, GoesOn(frame), Calling(c), frame.node = Top.node
      PROVE  DepthInv'
  <2>1. \A z \in live : parent'[z] = parent[z]
    BY <1>0, <1>3 DEF TypeOK
  <2>2. \A z \in live : DepthIn(parent', z) = DepthIn(parent, z)
    BY <2>1, LiveIsUpClosed
  <2> DEFINE q == parent'
  <2>3. q \in [Node -> Node \cup {Null}] /\ q[c] = Top.node
    BY <1>0, <1>1, <1>3 DEF TypeOK
  <2>4. DepthIn(q, Top.node) = DepthIn(parent, Top.node)
    BY <1>1, <2>2
  <2> HIDE DEF q
  <2>5. DepthIn(q, c) = DepthIn(q, Top.node) + 1
    BY <1>1, <1>3, <2>3, <2>4, DepthOfChild
  <2>6. \A i \in 1 .. N : /\ parent'[calls[i].node] = parent[calls[i].node]
                          /\ DepthIn(parent', calls[i].node) = DepthIn(parent, calls[i].node)
    BY <1>1, <2>1, <2>2
  <2>7. parent'[c] = Top.node /\ DepthIn(parent', c) = DepthIn(parent', Top.node) + 1
    BY <2>3, <2>5 DEF q
  <2> QED
    BY <1>0, <1>3, <2>6, <2>7, DepthGoesOn
<1>4. CASE ParseClear
  <2>1. PICK frame \in Frame : GoesOn(frame) /\ Alone /\ frame.node = Top.node
    BY <1>4, ClearFrame
  <2>2. CASE N = 1
    <3>1. Len(calls') = 1 /\ 1 .. 1 = {1}
      BY <2>1, <2>2 DEF Alone
    <3> DEFINE q == parent'
               d == DepthIn(q, calls'[1].node)
    <3>2. d \in Nat
      <4>1. q \in [Node -> Node \cup {Null}] /\ calls'[1].node \in Node
        BY <1>1, <2>1, <2>2 DEF OwnInv, TypeOK, GoesOn
      <4> HIDE DEF q
      <4> QED
        BY <4>1, DepthBound
    <3> HIDE DEF d
    <3>3. d = d + (1 - 1)
      BY <3>2
    <3> QED
      BY <3>1, <3>3 DEF DepthInv, d, q
  <2>3. CASE N > 1
    BY <1>2, <1>4, <2>1, <2>3, NestedClear DEF pointers
  <2>4. N = 1 \/ N > 1
    <3>1. N \in Nat \ {0}
      BY <1>1
    <3> HIDE DEF N
    <3> QED
      BY <3>1
  <2> QED
    BY <2>2, <2>3, <2>4
<1>5. CASE ParseText \/ ParseMultipart \/ ParseOther
  <2>1. PICK frame \in Frame : GoesOn(frame) /\ Alone /\ frame.node = Top.node
    BY <1>5, ReadFrame
  <2>2. UNCHANGED parent
    BY <1>5 DEF ParseText, ParseMultipart, ParseOther, pointers
  <2> QED
    BY <1>2, <2>1, <2>2
<1>6. ASSUME NEW m \in Node, ParseMessage(m) PROVE DepthInv'
  <2>1. PICK frame \in Frame : GoesOn(frame) /\ Calling(m) /\ frame.node = Top.node
    BY <1>6, MessageFrame
  <2>2. m \notin live /\ parent' = [parent EXCEPT ![m] = Top.node] /\ Depth(Top.node) < DepthLimit
    BY <1>6 DEF ParseMessage
  <2>3. DepthIn(parent, Top.node) < DepthLimit
    BY <2>2, DepthIsIn
  <2> QED
    BY <1>3, <2>1, <2>2, <2>3
<1>7. ASSUME NEW c \in Node, ParsePart(c) PROVE DepthInv'
  <2>1. PICK frame \in Frame : /\ GoesOn(frame) /\ frame.node = Top.node
                               /\ (Recurses => Calling(c)) /\ (~Recurses => Alone)
    BY <1>7, PartFrame
  <2>2. CASE Recurses
    <3>1. c \notin live /\ parent' = [parent EXCEPT ![c] = Top.node] /\ Depth(Top.node) < DepthLimit
      BY <1>7, <2>2 DEF ParsePart, Recurses, EarlyParent
    <3>2. DepthIn(parent, Top.node) < DepthLimit
      BY <3>1, DepthIsIn
    <3> QED
      BY <1>3, <2>1, <2>2, <3>1, <3>2
  <2>3. CASE ~Recurses
    <3>1. UNCHANGED parent
      BY <1>7, <2>3 DEF ParsePart, Recurses
    <3> QED
      BY <1>2, <2>1, <2>3, <3>1
  <2> QED
    BY <2>2, <2>3
<1>8. CASE AppendPart
  <2>1. PICK frame \in Frame : GoesOn(frame) /\ Alone /\ frame.node = Top.node
    BY <1>8, AppendFrame
  <2> DEFINE k == Top.kid
  <2>2. k # Null /\ parent' = [parent EXCEPT ![k] = Top.node]
    BY <1>8 DEF AppendPart
  <2>3. /\ k \in live /\ k # Top.node
        /\ parent[k] = Top.node \/ \A d \in live : parent[d] # k
    BY <1>0, <2>2, CallsInv DEF CallOK, OwnInv
  <2> SUFFICES ASSUME NEW c \in live, c = k PROVE DepthInv'
    BY <2>3
  <2>4. CASE parent[c] = Top.node
    <3>1. UNCHANGED parent
      BY <1>0, <2>2, <2>4 DEF TypeOK
    <3> QED
      BY <1>2, <2>1, <3>1
  <2>5. CASE \A d \in live : parent[d] # c
    <3>1. \A i \in 1 .. N : calls[i].node \in live \ {c}
      <4> SUFFICES ASSUME NEW i \in 1 .. N, calls[i].node = c PROVE FALSE
        BY <1>1
      <4>1. i # N
        BY <1>1, <2>3
      <4>2. i + 1 \in 1 .. N /\ i + 1 > 1 /\ (i + 1) - 1 = i
        BY <1>1, <4>1
      <4>3. parent[calls[i + 1].node] = c
        BY <4>2 DEF DepthInv
      <4> QED
        BY <1>1, <2>5, <4>2, <4>3
    <3>2. \A z \in live \ {c} : parent'[z] = parent[z]
      BY <1>0, <2>2 DEF TypeOK
    <3>3. \A z \in live \ {c} : parent[z] \in live => parent[z] \in live \ {c}
      BY <2>5
    <3>4. \A z \in live \ {c} : DepthIn(parent', z) = DepthIn(parent, z)
      BY <3>2, <3>3, LiveIsUpClosed
    <3>5. ~Calling(Null)
      BY <1>1, <2>1 DEF Alone, Calling
    <3> QED
      BY <1>0, <2>1, <3>1, <3>2, <3>4, <3>5, DepthGoesOn
  <2> QED
    BY <2>3, <2>4, <2>5
<1>9. CASE ParseReturn
  <2>1. UNCHANGED parent /\ calls' = SubSeq(calls, 1, N - 1)
    BY <1>9 DEF ParseReturn, pointers
  <2>2. N - 1 \in Nat /\ 1 .. N - 1 \subseteq 1 .. N /\ calls \in Seq(Frame)
    BY <1>0, <1>1 DEF TypeOK
  <2> DEFINE M == N - 1
  <2>3. M \in Nat /\ 1 .. M \subseteq 1 .. Len(calls) /\ calls' = SubSeq(calls, 1, M)
    BY <2>1, <2>2
  <2> HIDE DEF M
  <2>4. Len(calls') = M /\ \A i \in 1 .. M : calls'[i] = calls[i]
    BY <2>3, <2>2
  <2>5. Len(calls') = N - 1 /\ \A i \in 1 .. N - 1 : calls'[i] = calls[i]
    BY <2>4 DEF M
  <2>6. ASSUME NEW i \in 1 .. N - 1
        PROVE  /\ i > 1 => parent'[calls'[i].node] = calls'[i - 1].node
               /\ DepthIn(parent', calls'[i].node) = DepthIn(parent', calls'[1].node) + (i - 1)
    <3>1. i \in 1 .. N /\ 1 \in 1 .. N - 1 /\ (i > 1 => i - 1 \in 1 .. N - 1)
      BY <1>1, <2>2
    <3>2. calls'[i] = calls[i] /\ calls'[1] = calls[1] /\ (i > 1 => calls'[i - 1] = calls[i - 1])
      BY <2>5, <3>1
    <3>3. /\ i > 1 => parent[calls[i].node] = calls[i - 1].node
          /\ DepthIn(parent, calls[i].node) = DepthIn(parent, calls[1].node) + (i - 1)
      BY <3>1 DEF DepthInv
    <3> QED
      BY <2>1, <3>2, <3>3
  <2> QED
    BY <2>5, <2>6 DEF DepthInv
<1> QED
  BY <1>4, <1>5, <1>6, <1>7, <1>8, <1>9 DEF ParseStep

LEMMA DepthNext ==
    ASSUME OwnInv, OwnInv', DepthInv, [Next]_vars
    PROVE  DepthInv'
<1>1. CASE Edit \/ Share
  <2>1. calls' = <<>>
    BY <1>1 DEF Edit, Share, New, Delete, Clear, Assemble, Clone, CloneAs, AppendContent,
       PrependContent, Adopt, TakeContent, SetParent, SetContent, SetMimeType, SetFrozen,
       HoldMessage, DropMessage, May
  <2> QED
    BY <2>1 DEF DepthInv
<1>2. ASSUME NEW n \in Node, Parse(n) PROVE DepthInv'
  <2>1. Len(calls') = 1 /\ 1 .. 1 = {1} /\ calls'[1].node = n
    BY <1>2 DEF Parse, Call
  <2> DEFINE q == parent'
             d == DepthIn(q, n)
  <2>2. d \in Nat
    <3>1. q \in [Node -> Node \cup {Null}]
      BY DEF OwnInv, TypeOK
    <3> HIDE DEF q
    <3> QED
      BY <3>1, DepthBound
  <2> HIDE DEF d
  <2>3. d = d + (1 - 1)
    BY <2>2
  <2> QED
    BY <2>1, <2>3 DEF DepthInv, d, q
<1>3. CASE ParseStep
  BY <1>3, DepthStep
<1>4. CASE UNCHANGED vars
  BY <1>4 DEF vars, pointers, DepthInv
<1> QED
  BY <1>1, <1>2, <1>3, <1>4 DEF Next

\* The nested calls of parse() are as few as the depth limit allows, whatever
\* the text: the call stack cannot overflow.
THEOREM RecursionAlwaysBounded ==
    ASSUME CarefulCaller
    PROVE  Spec => []RecursionBounded
<1>1. Init => DepthInv
  BY DEF Init, DepthInv
<1>2. OwnInv /\ OwnInv' /\ DepthInv /\ [Next]_vars => DepthInv'
  BY DepthNext
<1>3. ASSUME OwnInv, DepthInv PROVE RecursionBounded
  <2> SUFFICES ASSUME calls # <<>>
               PROVE  Len(calls) + Depth(calls[1].node) <= DepthLimit + 1
    BY DEF RecursionBounded
  <2> DEFINE N == Len(calls)
             p == parent
  <2>1. /\ p \in [Node -> Node \cup {Null}] /\ DepthLimit \in Nat /\ N \in Nat \ {0}
        /\ 1 \in 1 .. N /\ N \in 1 .. N
    BY <1>3, CallsInv, ConstantsAssumption DEF OwnInv, TypeOK
  <2>2. calls[1].node \in Node /\ calls[N].node \in Node
    BY <1>3, <2>1, CallNodes DEF OwnInv, TypeOK
  <2>3. DepthIn(p, calls[N].node) = DepthIn(p, calls[1].node) + (N - 1)
    BY <1>3, <2>1 DEF DepthInv
  <2>4. Depth(calls[1].node) = DepthIn(p, calls[1].node)
    BY DepthIsIn
  <2> HIDE DEF p, N
  <2>5. /\ DepthIn(p, calls[1].node) \in Nat
        /\ DepthIn(p, calls[N].node) \in Nat /\ DepthIn(p, calls[N].node) <= DepthLimit
    BY <2>1, <2>2, DepthBound
  <2>6. N + Depth(calls[1].node) <= DepthLimit + 1
    BY <2>1, <2>3, <2>4, <2>5
  <2> QED
    BY <2>6 DEF N
<1> QED
  BY <1>1, <1>2, <1>3, OwnershipInvariant, PTL DEF Spec
===============================================================================
