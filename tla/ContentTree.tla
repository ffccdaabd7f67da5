----------------------------- MODULE ContentTree -----------------------------
(***************************************************************************)
(* The tree of KMime::Content objects (content.cpp): who owns whom, the    *)
(* parent pointers, the list of sub-contents, the encapsulated message and *)
(* the recursive parse() that builds the tree.                             *)
(*                                                                         *)
(* Memory is explicit: a node is a Content object that is allocated while  *)
(* it is in "live", and a pointer to a node that is not live dangles.  The *)
(* caller owns objects through unique_ptr ("owned") or, for encapsulated   *)
(* messages, shares them through shared_ptr ("held").                      *)
(*                                                                         *)
(* Text is abstract.  A head is the media type its Content-Type declares   *)
(* and a body is an element of Body; Parts, Embedded and AsMessage say     *)
(* what the MIME, uuencode/yEnc and message readers find in a body.        *)
(***************************************************************************)
EXTENDS Naturals, Sequences, FiniteSets

CONSTANTS
    Node,        \* addresses of Content objects; a freed one may be reused
    Null,        \* nullptr
    Body,        \* abstract bodies
    NoBody,      \* the empty body
    Leaf,        \* the body of a part that uuencode or yEnc decoding produced
    Inputs,      \* the (head, body) texts the caller passes to setContent()
    MimeTypes,   \* the media types the caller gives to setMimeType()
    Parts,       \* Parts[b]: the texts of the parts of b read as multipart
    Embedded,    \* Embedded[b]: the media types of the parts uuencode or yEnc
                 \* decoding finds in b; empty when b is plain text
    Fragments,   \* bodies that are one piece of a split uuencoded/yEnc post
    AsMessage,   \* AsMessage[b]: the text of the message b holds
    NodesNeeded, \* NodesNeeded[b]: objects that parsing b can allocate
    DepthLimit,  \* PARSING_DEPTH_LIMIT
    Ops,         \* the API operations the caller uses
    MaxOwned,    \* bound for TLC: with that many objects of its own the
                 \* caller creates no further one
    MaxTexts     \* bound for TLC: at most that many objects hold a text
                 \* of the caller's at a time

\* The media types parse() tells apart; "text" includes a missing header.
MediaType == {"text", "multipart", "message", "other"}

\* A text as extractHeaderAndBody() splits it.
Text == [head : MediaType, body : Body]

ASSUME ConstantsAssumption ==
    /\ Null \notin Node
    /\ {NoBody, Leaf} \subseteq Body
    /\ Inputs \subseteq Text
    /\ MimeTypes \subseteq MediaType
    /\ Parts \in [Body -> Seq(Text)]
    /\ Embedded \in [Body -> Seq(MediaType)]
    /\ AsMessage \in [Body -> Text]
    /\ NodesNeeded \in [Body -> Nat]
    /\ Parts[NoBody] = <<>> /\ Embedded[NoBody] = <<>>
    /\ \A b \in Body : \A i \in DOMAIN Parts[b] : Parts[b][i].body # Leaf
    /\ DepthLimit \in Nat

VARIABLES
    live,              \* allocated objects
    owned,             \* objects a caller's unique_ptr owns
    held,              \* encapsulated messages a caller's shared_ptr points to
    parent,            \* ContentPrivate::parent
    multipartContents, \* ContentPrivate::multipartContents
    bodyAsMessage,     \* ContentPrivate::bodyAsMessage
    data,              \* head, body, frozen flag and the type in the headers
    calls              \* the call stack of parse(), outermost call first

pointers == <<parent, multipartContents, bodyAsMessage>>
vars     == <<live, owned, held, pointers, data, calls>>

\* The text an object holds: its head and body, the media type of its
\* Content-Type header object (in step with the head only after parse() or
\* assemble()), and whether it is frozen.
Data == [head : MediaType, body : Body, type : MediaType, frozen : BOOLEAN]

\* Mutant: the frozen flag has no initial value.
UninitializedBlank ==
    [head |-> "text", body |-> NoBody, type |-> "text", frozen |-> Null]

\* A new object.
Blank == [head |-> "text", body |-> NoBody, type |-> "text", frozen |-> FALSE]

\* Items of a list of parts still to be created; "type" as in Data.
Item == [head : MediaType, body : Body, type : MediaType]

\* An active call of parse(): on which object, how far it got ("clear": the
\* old headers and children, "read": dispatch on the type, "parts": create
\* the sub-contents), the parts still to be created, and the sub-content
\* that is created but not yet in the list.
Frame == [node : Node, pc : {"clear", "read", "parts"}, todo : Seq(Item),
          kid : Node \cup {Null}]

-----------------------------------------------------------------------------
(* Reading the tree. *)

Elements(s) == {s[i] : i \in DOMAIN s}

\* ContentPrivate::contents(): the parts, or just the encapsulated message.
Contents(n) == IF bodyAsMessage[n] # Null THEN <<bodyAsMessage[n]>>
               ELSE multipartContents[n]

Children(n) == Elements(Contents(n))

\* The contents whose shared_ptr keeps m alive.
Holders(m) == {n \in live : bodyAsMessage[n] = m}

\* ContentPrivate::depth(): the number of ancestors, counted up to the limit.
Depth(n) ==
    LET up[i \in 0..DepthLimit] ==
            IF i = 0 THEN n
            ELSE IF up[i - 1] = Null THEN Null ELSE parent[up[i - 1]]
    IN  Cardinality({i \in 1..DepthLimit : up[i] # Null})

\* Content::bodyIsMessage().
BodyIsMessage(n) ==
    \/ bodyAsMessage[n] # Null
    \/ data[n].type = "message" /\ Depth(n) < DepthLimit

\* The objects in every one of the sets of live objects in F.
Least(F) == {n \in live : \A X \in F : n \in X}

\* The objects reachable from n through contents(), n included.
Below(n) ==
    Least({X \in SUBSET live :
              n \in X /\ \A m \in X : Children(m) \cap live \subseteq X})

-----------------------------------------------------------------------------
(* Lists and destructors. *)

\* QList::removeAll(); the lists have no duplicates (see ImplementsForest).
RemoveAll(s, n) ==
    IF n \in Elements(s)
    THEN LET i == CHOOSE j \in DOMAIN s : s[j] = n
         IN  SubSeq(s, 1, i - 1) \o SubSeq(s, i + 1, Len(s))
    ELSE s

\* Mutant: an encapsulated message dies with its container.
UnsharedClosed(X, C) ==
    /\ \A n \in X \cup C : Elements(multipartContents[n]) \subseteq X
    /\ \A m \in live \ X : Holders(m) \cap (X \cup C) = {}

\* X is closed under the destructors: the objects of X are destroyed, the
\* objects of C only run clearContents().  Parts go with their container, a
\* message when no shared_ptr to it is left.
Closed(X, C) ==
    /\ \A n \in X \cup C : Elements(multipartContents[n]) \subseteq X
    /\ \A m \in live \ (X \cup held) :
          ~ (Holders(m) # {} /\ Holders(m) \subseteq X \cup C)

\* Mutant: clearContents() forgets the children without deleting them.
LeakingDoomed(S, C) == S

\* What is destroyed when the objects of S are and those of C are cleared.
Doomed(S, C) == Least({X \in SUBSET live : S \subseteq X /\ Closed(X, C)})

\* The parents when the objects of "emptied" have let go of their children.
ParentsAfter(dead, emptied) ==
    LET orphans == UNION {Children(n) : n \in emptied}
    IN  [n \in Node |-> IF n \in dead \cup orphans THEN Null ELSE parent[n]]

\* Mutant: the destructor does not take the object off its parent's list.
StaleLists(S, emptied) ==
    [n \in Node |-> IF n \in emptied THEN <<>> ELSE multipartContents[n]]

\* The lists then: a deleted object takes itself off the list of a parent
\* that survives.
ListsAfter(S, emptied) ==
    [n \in Node |->
        IF n \in emptied THEN <<>>
        ELSE IF n \in {parent[m] : m \in S}
        THEN RemoveAll(multipartContents[n], CHOOSE m \in S : parent[m] = n)
        ELSE multipartContents[n]]

\* Deletion of the objects of S (at most one) and clearContents() of those of
\* C, with all that they entail.
ReleasePointers(S, C) ==
    LET dead    == Doomed(S, C)
        emptied == dead \cup C
    IN  /\ live' = live \ dead
        /\ owned' = owned \ dead
        /\ parent' = ParentsAfter(dead, emptied)
        /\ multipartContents' = ListsAfter(S, emptied)
        /\ bodyAsMessage' = [n \in Node |-> IF n \in emptied THEN Null
                                            ELSE bodyAsMessage[n]]

Release(S, C) == ReleasePointers(S, C) /\ UNCHANGED held

Forget(dead) == [n \in Node |-> IF n \in dead THEN Blank ELSE data[n]]

-----------------------------------------------------------------------------
(* The caller's operations.  KMime is single-threaded: none of them runs   *)
(* while a parse() is active.                                              *)

May(op) == op \in Ops /\ calls = <<>>

Init ==
    /\ live = {} /\ owned = {} /\ held = {} /\ calls = <<>>
    /\ parent = [n \in Node |-> Null]
    /\ multipartContents = [n \in Node |-> <<>>]
    /\ bodyAsMessage = [n \in Node |-> Null]
    /\ data = [n \in Node |-> Blank]

\* make_unique<Content>()
New(n) ==
    /\ May("new") /\ n \notin live /\ Cardinality(owned) < MaxOwned
    /\ live' = live \cup {n} /\ owned' = owned \cup {n}
    /\ UNCHANGED <<held, pointers, data, calls>>

\* ~Content(), from a unique_ptr or a plain "delete" of a listed sub-content.
Delete(n) ==
    /\ May("delete")
    /\ n \in owned \/ \E p \in live : n \in Elements(multipartContents[p])
    /\ Release({n}, {})
    /\ data' = Forget(Doomed({n}, {}))
    /\ UNCHANGED calls

\* Content::clear(): the headers, the sub-contents, head and body.
Clear(n) ==
    /\ May("clear") /\ n \in live
    /\ Release({}, {n})
    /\ data' = [Forget(Doomed({}, {n})) EXCEPT
                    ![n] = [Blank EXCEPT !.frozen = data[n].frozen]]
    /\ UNCHANGED calls

\* Mutant: setParent() leaves the content in the list of its old parent.
DoublyRelisted(lists, c, p) ==
    IF /\ p # Null
       /\ bodyAsMessage[p] # Null \/ lists[p] # <<>>
       /\ c \notin Elements(lists[p]) \cup {bodyAsMessage[p]}
    THEN [lists EXCEPT ![p] = Append(@, c)] ELSE lists

\* The lists after c->setParent(p), from the lists "lists".
Relisted(lists, c, p) ==
    LET old  == parent[c]
        taken == IF old # Null /\ c \in Children(old)
                 THEN [lists EXCEPT ![old] = RemoveAll(@, c)] ELSE lists
    IN  IF /\ p # Null
           /\ bodyAsMessage[p] # Null \/ taken[p] # <<>>
           /\ c \notin Elements(taken[p]) \cup {bodyAsMessage[p]}
        THEN [taken EXCEPT ![p] = Append(@, c)]
        ELSE taken

\* appendContent(c) or prependContent(c) of p, "lists" with c already added.
\* The caller does not put an object below itself.
Adopt(p, c, lists) ==
    /\ p \in live /\ c \in owned /\ p \notin Below(c)
    /\ ~BodyIsMessage(p)
    /\ multipartContents' = IF parent[c] # p THEN Relisted(lists, c, p) ELSE lists
    /\ parent' = [parent EXCEPT ![c] = p]
    /\ owned' = owned \ {c}
    /\ UNCHANGED <<live, held, bodyAsMessage, data, calls>>

AppendContent(p, c) ==
    /\ May("append")
    /\ Adopt(p, c, [multipartContents EXCEPT ![p] = Append(@, c)])

PrependContent(p, c) ==
    /\ May("prepend")
    /\ Adopt(p, c, [multipartContents EXCEPT ![p] = <<c>> \o @])

\* Mutant: the content that was taken keeps its parent.
TakeContentOnly(p, c) ==
    /\ May("take") /\ p \in live /\ ~BodyIsMessage(p)
    /\ c \in Elements(multipartContents[p])
    /\ multipartContents' = [multipartContents EXCEPT ![p] = RemoveAll(@, c)]
    /\ owned' = owned \cup {c}
    /\ UNCHANGED <<live, held, parent, bodyAsMessage, data, calls>>

\* takeContent(c) of p, when p lists c; otherwise it returns null.
TakeContent(p, c) ==
    /\ May("take") /\ p \in live /\ ~BodyIsMessage(p)
    /\ c \in Elements(multipartContents[p])
    /\ multipartContents' = [multipartContents EXCEPT ![p] = RemoveAll(@, c)]
    /\ parent' = [parent EXCEPT ![c] = Null]
    /\ owned' = owned \cup {c}
    /\ UNCHANGED <<live, held, bodyAsMessage, data, calls>>

\* setParent(p) on an object the caller owns or finds in a list (not on an
\* encapsulated message, whose owner is a shared_ptr), not below itself.  The
\* caller only names a parent that already has other parts: any other would
\* not list the object, and the parent pointer would lead to an object that
\* does not know its child.  An object in no list is the caller's to delete.
SetParent(c, p) ==
    LET lists == Relisted(multipartContents, c, p)
        listed == p # Null /\ c \in Elements(lists[p])
    IN  /\ May("setParent")
        /\ c \in owned \/ \E q \in live : c \in Elements(multipartContents[q])
        /\ p \in live \cup {Null}
        /\ p # Null => p \notin Below(c) /\ listed /\ bodyAsMessage[p] = Null
        /\ multipartContents' = lists
        /\ parent' = [parent EXCEPT ![c] = p]
        /\ owned' = IF listed THEN owned \ {c} ELSE owned \cup {c}
        /\ UNCHANGED <<live, held, bodyAsMessage, data, calls>>

\* Copying bodyAsMessage(), and dropping such a shared_ptr.
HoldMessage(n) ==
    /\ May("hold") /\ n \in live /\ bodyAsMessage[n] # Null
    /\ held' = held \cup {bodyAsMessage[n]}
    /\ UNCHANGED <<live, owned, pointers, data, calls>>

DropMessage(m) ==
    /\ May("drop") /\ m \in held
    /\ held' = held \ {m}
    /\ IF Holders(m) # {}
       THEN UNCHANGED <<live, owned, pointers, data>>
       ELSE /\ ReleasePointers({m}, {})
            /\ data' = Forget(Doomed({m}, {}))
    /\ UNCHANGED calls

\* Content::setContent(): replaces head and body, nothing else.
SetContent(n, t) ==
    /\ May("setContent") /\ n \in live
    /\ Cardinality({m \in live \ {n} : [head |-> data[m].head, body |-> data[m].body]
                                          \in Inputs}) < MaxTexts
    /\ data' = [data EXCEPT ![n].head = t.head, ![n].body = t.body]
    /\ UNCHANGED <<live, owned, held, pointers, calls>>

\* contentType()->setMimeType()
SetMimeType(n, type) ==
    /\ May("setMimeType") /\ n \in live
    /\ data' = [data EXCEPT ![n].type = type]
    /\ UNCHANGED <<live, owned, held, pointers, calls>>

SetFrozen(n, f) ==
    /\ May("setFrozen") /\ n \in live
    /\ data' = [data EXCEPT ![n].frozen = f]
    /\ UNCHANGED <<live, owned, held, pointers, calls>>

\* Mutant: assemble() looks at the frozen flag of the first object only.
AssembledBelow(n) == IF data[n].frozen THEN {} ELSE Below(n)

\* The objects whose head n->assemble() rewrites: it does nothing on a frozen
\* object, and so never gets below one.
Assembled(n) ==
    LET thawed == {m \in live : ~data[m].frozen}
    IN  IF n \notin thawed THEN {}
        ELSE Least({X \in SUBSET thawed :
                        n \in X /\ \A m \in X : Children(m) \cap thawed \subseteq X})

\* Content::assemble()
Assemble(n) ==
    /\ May("assemble") /\ n \in live
    /\ data' = [m \in Node |-> IF m \in Assembled(n)
                               THEN [data[m] EXCEPT !.head = data[m].type]
                               ELSE data[m]]
    /\ UNCHANGED <<live, owned, held, pointers, calls>>

\* The objects clone() copies: those reachable through multipartContents.
Copied(n) ==
    LET closed == {X \in SUBSET Node : n \in X /\
                      \A m \in X : Elements(multipartContents[m]) \subseteq X}
    IN  {k \in Node : \A X \in closed : k \in X}

\* One free object for each object that is copied.
Copies(n) == {new \in [Copied(n) -> Node \ live] :
                 \A m, k \in Copied(n) : new[m] = new[k] => m = k}

\* The result of Content::clone() of n, "new" giving the copy of each object.
\* The copy of the private data includes the shared_ptr bodyAsMessage: an
\* encapsulated message is shared, not copied.
CloneAs(n, new) ==
    LET image == {new[m] : m \in Copied(n)}
        Of(k) == CHOOSE m \in Copied(n) : new[m] = k
    IN  /\ live' = live \cup image
        /\ owned' = owned \cup {new[n]}
        /\ multipartContents' =
              [k \in Node |-> IF k \notin image THEN multipartContents[k]
                  ELSE [i \in DOMAIN multipartContents[Of(k)] |->
                            new[multipartContents[Of(k)][i]]]]
        /\ parent' =
              [k \in Node |-> IF k \notin image THEN parent[k]
                  ELSE IF k = new[n] THEN Null
                  ELSE new[CHOOSE m \in Copied(n) :
                              Of(k) \in Elements(multipartContents[m])]]
        /\ bodyAsMessage' = [k \in Node |-> IF k \notin image THEN bodyAsMessage[k]
                                            ELSE bodyAsMessage[Of(k)]]
        /\ data' = [k \in Node |-> IF k \notin image THEN data[k] ELSE data[Of(k)]]
        /\ UNCHANGED <<held, calls>>

\* Content::clone().  The careful caller clones no encapsulated message.
Clone(n) ==
    /\ May("clone") /\ n \in live
    /\ "cloneMessage" \notin Ops => \A m \in Copied(n) : bodyAsMessage[m] = Null
    /\ \E new \in Copies(n) : CloneAs(n, new)

-----------------------------------------------------------------------------
(* Content::parse(), one call at a time on the stack "calls". *)

Top == calls[Len(calls)]

Call(n) == [node |-> n, pc |-> "clear", todo |-> <<>>, kid |-> Null]

\* The call on top of the stack goes on as "frame".
Continue(frame) == calls' = [calls EXCEPT ![Len(calls)] = frame]

\* The caller parses n, with memory for the objects its body needs.
Parse(n) ==
    /\ May("parse") /\ n \in live
    /\ NodesNeeded[data[n].body] <= Cardinality((Node \ live) \cup Doomed({}, {n}))
    /\ calls' = <<Call(n)>>
    /\ UNCHANGED <<live, owned, held, pointers, data>>

\* Mutant: the old sub-contents stay.
ParseKeep ==
    /\ calls # <<>> /\ Top.pc = "clear"
    /\ data' = [data EXCEPT ![Top.node].type = data[Top.node].head]
    /\ Continue([Top EXCEPT !.pc = "read"])
    /\ UNCHANGED <<live, owned, held, pointers>>

\* The headers are read from the head and the old sub-contents deleted.
ParseClear ==
    LET n == Top.node
    IN  /\ calls # <<>> /\ Top.pc = "clear"
        /\ Release({}, {n})
        /\ data' = [Forget(Doomed({}, {n})) EXCEPT
                        ![n] = [data[n] EXCEPT !.type = data[n].head]]
        /\ Continue([Top EXCEPT !.pc = "read"])

\* The parts made up from the attachments in a text.
AsItems(types) == [i \in DOMAIN types |->
                      [head |-> "text", body |-> Leaf, type |-> types[i]]]

\* The parts of a multipart text: their own headers are not read yet.
AsParts(parts) == [i \in DOMAIN parts |->
    [head |-> parts[i].head, body |-> parts[i].body, type |-> "text"]]

\* parseUuencoded() or parseYenc() turns the text into a multipart/mixed that is
\* built from scratch and not parsed; one piece of a split post becomes a
\* message/partial; other text stays.
ParseText ==
    LET n == Top.node
        b == data[n].body
    IN  /\ calls # <<>> /\ Top.pc = "read" /\ data[n].type = "text"
        /\ IF Embedded[b] = <<>>
           THEN data' = IF b \in Fragments
                        THEN [data EXCEPT ![n].type = "other"] ELSE data
           ELSE data' = [data EXCEPT ![n].type = "multipart", ![n].body = NoBody]
        /\ Continue([Top EXCEPT !.pc = "parts", !.todo = AsItems(Embedded[b])])
        /\ UNCHANGED <<live, owned, held, pointers>>

\* Mutant: a multipart without parts marks its container as text.
ParseMultipartOutside ==
    LET n == Top.node
        b == data[n].body
    IN  /\ calls # <<>> /\ Top.pc = "read" /\ data[n].type = "multipart"
        /\ data' = IF Parts[b] = <<>>
                   THEN [k \in Node |-> IF k = parent[n]
                            THEN [data[k] EXCEPT !.type = "text"] ELSE data[k]]
                   ELSE [data EXCEPT ![n].body = NoBody]
        /\ Continue([Top EXCEPT !.pc = "parts", !.todo = AsParts(Parts[b])])
        /\ UNCHANGED <<live, owned, held, pointers>>

\* Mutant: a multipart without parts is tried again.
ParseMultipartAgain ==
    LET n == Top.node
        b == data[n].body
    IN  /\ calls # <<>> /\ Top.pc = "read" /\ data[n].type = "multipart"
        /\ data' = IF Parts[b] = <<>> THEN data ELSE [data EXCEPT ![n].body = NoBody]
        /\ IF Parts[b] = <<>> THEN UNCHANGED calls
           ELSE Continue([Top EXCEPT !.pc = "parts", !.todo = AsParts(Parts[b])])
        /\ UNCHANGED <<live, owned, held, pointers>>

\* parseMultipart(): the text of each part is still to be parsed; when the
\* body holds no part the content is treated as plain text.
ParseMultipart ==
    LET n == Top.node
        b == data[n].body
    IN  /\ calls # <<>> /\ Top.pc = "read" /\ data[n].type = "multipart"
        /\ data' = IF Parts[b] = <<>> THEN [data EXCEPT ![n].type = "text"]
                   ELSE [data EXCEPT ![n].body = NoBody]
        /\ Continue([Top EXCEPT !.pc = "parts", !.todo = AsParts(Parts[b])])
        /\ UNCHANGED <<live, owned, held, pointers>>

\* An encapsulated message: its parent is set before it is parsed so that the
\* depth limit works.
ParseMessage(m) ==
    LET n == Top.node
        t == AsMessage[data[n].body]
    IN  /\ calls # <<>> /\ Top.pc = "read" /\ data[n].type = "message"
        /\ Depth(n) < DepthLimit
        /\ m \notin live /\ live' = live \cup {m}
        /\ bodyAsMessage' = [bodyAsMessage EXCEPT ![n] = m]
        /\ parent' = [parent EXCEPT ![m] = n]
        /\ data' = [data EXCEPT ![n].body = NoBody,
                                ![m] = [head |-> t.head, body |-> t.body,
                                        type |-> "text", frozen |-> data[n].frozen]]
        /\ calls' = Append([calls EXCEPT ![Len(calls)].pc = "parts"], Call(m))
        /\ UNCHANGED <<owned, held, multipartContents>>

\* Anything else has no parts.
ParseOther ==
    /\ calls # <<>> /\ Top.pc = "read"
    /\ \/ data[Top.node].type = "other"
       \/ data[Top.node].type = "message" /\ Depth(Top.node) >= DepthLimit
    /\ Continue([Top EXCEPT !.pc = "parts"])
    /\ UNCHANGED <<live, owned, held, pointers, data>>

\* A part of n as it is created; a converted text is not frozen.
NewPart(n, item) == [head |-> item.head, body |-> item.body, type |-> item.type,
                     frozen |-> item.body # Leaf /\ data[n].frozen]

\* Mutant: the parent is only set when the part is appended.
LateParent(c, n) == parent

\* The parent is set before the recursion, "for the depth limit to work".
EarlyParent(c, n) == [parent EXCEPT ![c] = n]

\* One turn of the loop of parseMultipart() up to the recursive call, if the
\* depth limit allows one; the parts of a converted text are never parsed.
ParsePart(c) ==
    LET n == Top.node
        item == Head(Top.todo)
        recurse == item.body # Leaf /\ Depth(n) < DepthLimit
        rest == [Top EXCEPT !.todo = Tail(@), !.kid = c]
    IN  /\ calls # <<>> /\ Top.pc = "parts" /\ Top.kid = Null /\ Top.todo # <<>>
        /\ c \notin live /\ live' = live \cup {c}
        /\ data' = [data EXCEPT ![c] = NewPart(n, item)]
        /\ parent' = IF recurse THEN EarlyParent(c, n) ELSE parent
        /\ calls' = [calls EXCEPT ![Len(calls)] = rest]
                    \o (IF recurse THEN <<Call(c)>> ELSE <<>>)
        /\ UNCHANGED <<owned, held, multipartContents, bodyAsMessage>>

\* The rest of the turn, once the call has returned: q->appendContent(c).
AppendPart ==
    LET n == Top.node
        c == Top.kid
        lists == [multipartContents EXCEPT ![n] = Append(@, c)]
    IN  /\ calls # <<>> /\ Top.pc = "parts" /\ c # Null
        /\ multipartContents' = IF parent[c] # n THEN Relisted(lists, c, n) ELSE lists
        /\ parent' = [parent EXCEPT ![c] = n]
        /\ Continue([Top EXCEPT !.kid = Null])
        /\ UNCHANGED <<live, owned, held, bodyAsMessage, data>>

ParseReturn ==
    /\ calls # <<>> /\ Top.pc = "parts" /\ Top.kid = Null /\ Top.todo = <<>>
    /\ calls' = SubSeq(calls, 1, Len(calls) - 1)
    /\ UNCHANGED <<live, owned, held, pointers, data>>

ParseStep ==
    \/ ParseClear \/ ParseText \/ ParseMultipart \/ ParseOther
    \/ \E m \in Node : ParseMessage(m)
    \/ \E c \in Node : ParsePart(c)
    \/ AppendPart \/ ParseReturn

-----------------------------------------------------------------------------
Edit ==
    \/ \E n \in Node : New(n) \/ Delete(n) \/ Clear(n) \/ Assemble(n) \/ Clone(n)
    \/ \E p, c \in Node : AppendContent(p, c) \/ PrependContent(p, c)
                          \/ TakeContent(p, c)
    \/ \E c \in Node, p \in Node \cup {Null} : SetParent(c, p)
    \/ \E n \in Node, t \in Inputs : SetContent(n, t)
    \/ \E n \in Node, type \in MimeTypes : SetMimeType(n, type)
    \/ \E n \in Node, f \in BOOLEAN : SetFrozen(n, f)

Share == \E n \in Node : HoldMessage(n) \/ DropMessage(n)

Next == Edit \/ Share \/ (\E n \in Node : Parse(n)) \/ ParseStep

Spec == Init /\ [][Next]_vars

\* parse() is a plain call: once started, it runs.
FairSpec == Spec /\ WF_vars(ParseStep)

-----------------------------------------------------------------------------
(* What must hold. *)

TypeOK ==
    /\ live \subseteq Node
    /\ owned \subseteq Node
    /\ held \subseteq Node
    /\ parent \in [Node -> Node \cup {Null}]
    /\ multipartContents \in [Node -> Seq(Node)]
    /\ bodyAsMessage \in [Node -> Node \cup {Null}]
    /\ data \in [Node -> Data]
    /\ calls \in Seq(Frame)

\* The sub-contents parse() has created but not yet put in a list.
Pending == {calls[i].kid : i \in DOMAIN calls} \ {Null}

\* Parents and children agree.  No child pointer dangles, and a child knows
\* the object that contains it; no parent pointer dangles, and a parent knows
\* its child, but for the part parse() is working on.
PointersAgree ==
    /\ \A n \in live : \A c \in Children(n) : c \in live /\ parent[c] = n
    /\ \A c \in live : parent[c] # Null =>
          /\ parent[c] \in live
          /\ c \in Children(parent[c]) \cup Pending

\* Every object has one owner: the caller, a list, the shared_ptrs to an
\* encapsulated message or the unique_ptr inside parse().  Nothing leaks and
\* nothing is deleted twice.
OneOwner ==
    \A n \in live :
        LET owners == {<<"unique", p>> : p \in {q \in {n} : q \in owned}}
                  \cup {<<"list", p>> : p \in {q \in live :
                                      n \in Elements(multipartContents[q])}}
                  \cup {<<"shared", p>> : p \in {q \in {n} :
                                      Holders(q) # {} \/ q \in held}}
                  \cup {<<"parse", p>> : p \in {q \in {n} : q \in Pending}}
        IN  Cardinality(owners) = 1

\* A message the caller holds outlives the content it was found in, whether
\* that is deleted, cleared or parsed again; then it is a top-level message.
HeldStaysAlive ==
    /\ owned \cup held \subseteq live
    /\ \A m \in held : Holders(m) = {} => parent[m] = Null

\* The assertion of ContentPrivate::contents(): no object has both parts and
\* an encapsulated message.
ContentsExclusive ==
    \A n \in live : multipartContents[n] = <<>> \/ bodyAsMessage[n] = Null

\* Nested parse() calls are as few as the depth limit allows, whatever the
\* text: the call stack cannot overflow.
RecursionBounded ==
    calls # <<>> => Len(calls) + Depth(calls[1].node) <= DepthLimit + 1

\* parse() changes nothing but what is below the object it was called on:
\* every other object keeps its text, its children and its parent, unless its
\* parent was below and let go of it.
ParseIsLocal ==
    [][calls # <<>> =>
        \A n \in live \ (Pending \cup UNION {Below(calls[i].node) : i \in DOMAIN calls}) :
            /\ n \in live'
            /\ data'[n] = data[n]
            /\ multipartContents'[n] = multipartContents[n]
            /\ bodyAsMessage'[n] = bodyAsMessage[n]
            /\ parent'[n] = parent[n]]_vars

\* A frozen object seals what is below it, so a signed part stays as it was
\* received.  assemble() from outside rewrites no head there; and when parse()
\* of a frozen object returns, everything it built is frozen as well, but for
\* the parts made up from uuencoded or yEnc text.
FrozenSeals ==
    [][/\ \A r \in live : UNCHANGED pointers /\ Assemble(r) =>
              \A f \in {m \in live : data[m].frozen} :
                  r \notin Below(f) \ {f} => \A n \in Below(f) : data'[n] = data[n]
       /\ calls # <<>> /\ calls' = <<>> /\ data[calls[1].node].frozen =>
              \A n \in Below(calls[1].node) : data[n].frozen \/ data[n].body = Leaf]_vars

\* clone() is recursive: no part of a content is part of its copy as well,
\* and neither is the encapsulated message.  The code shares the message.
CloneIsDeep == \A m \in live : Cardinality(Holders(m)) <= 1

\* The contents seen as ordered trees: an encapsulated message is the only
\* child, and it is a message for as long as a shared_ptr points to it.
F == INSTANCE Forest WITH
        nodes <- live,
        kids <- [n \in Node |-> Contents(n)],
        messages <- held \cup ({bodyAsMessage[n] : n \in live} \ {Null})

\* Whatever the caller does, also while parse() is working, the objects form
\* ordered trees that change by whole subtrees: an operation grafts, moves,
\* takes out, copies or deletes one and leaves all others as they were, and a
\* deletion spares nothing but the messages that somebody shares.
ImplementsForest == F!FSpec

\* A parse() that was called returns.
ParseReturns == calls # <<>> ~> calls = <<>>
=============================================================================
