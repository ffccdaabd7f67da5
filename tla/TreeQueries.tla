----------------------------- MODULE TreeQueries -----------------------------
(***************************************************************************)
(* What a mail program asks about a message: its text, its attachments,    *)
(* whether it is signed, encrypted or an invitation (util.cpp, content.cpp *)
(* and message.cpp).  Each question is answered by a walk of its own over  *)
(* the tree of contents, and the walks follow different rules.             *)
(*                                                                         *)
(* The trees are those of Forest.  A content has the few headers that the  *)
(* questions look at; they are set when it is created.                     *)
(***************************************************************************)
EXTENDS Forest, SequencesExt

CONSTANTS
    Null,     \* nullptr
    Kinds,    \* the headers a content can have
    MaxTrees  \* bound for TLC: with that many trees no further one is begun

VARIABLE kind \* the headers of each content

vars == <<forest, kind>>

\* The media type of Content-Type (media "none": there is no such header), the
\* name in it, the file name in Content-Disposition and the disposition.
Headers == [media : STRING, sub : STRING, name : STRING, filename : STRING,
            disposition : {"none", "inline", "attachment"}]

ASSUME KindsAssumption == Kinds \subseteq Headers /\ Null \notin Node

-----------------------------------------------------------------------------
(* ContentType and the tree (headers.cpp, content.cpp). *)

IsMimeType(n, media, sub) == kind[n].media = media /\ kind[n].sub = sub

\* Whatever the media type is.
IsSubtype(n, sub) == kind[n].sub = sub

IsMultipart(n) == kind[n].media = "multipart"

\* "that's also true for an empty header"
IsText(n) == kind[n].media \in {"text", "none"}

Parent(n) == IF ParentsOf(n) = {} THEN Null ELSE CHOOSE p \in ParentsOf(n) : TRUE

\* Content::topLevel()
TopLevel(n) ==
    LET up[m \in Node] == IF Parent(m) = Null THEN m ELSE up[Parent(m)]
    IN  up[n]

\* Content::textContent(): the first text in depth-first order, also inside
\* encapsulated messages.
TextContent(n) ==
    LET text[m \in Node] ==
            LET found == {i \in DOMAIN kids[m] : text[kids[m][i]] # Null}
            IN  IF IsText(m) THEN m
                ELSE IF found = {} THEN Null
                ELSE text[kids[m][Min(found)]]
    IN  text[n]

-----------------------------------------------------------------------------
(* Attachments (util.cpp, content.cpp). *)

\* KMime::isCryptoPart()
IsCryptoPart(n) ==
    /\ kind[n].media = "application"
    /\ \/ kind[n].sub \in {"pgp-encrypted", "pgp-signature", "pkcs7-mime",
                           "x-pkcs7-mime", "pkcs7-signature", "x-pkcs7-signature"}
       \/ kind[n].sub = "octet-stream" /\ kind[n].filename \in {"msg.asc", "encrypted.asc"}

\* A file name in Content-Disposition or Content-Type, or the disposition.
LooksAttached(n) ==
    kind[n].filename # "" \/ kind[n].name # "" \/ kind[n].disposition = "attachment"

\* KMime::isAttachment(): the text of the top-level content is none, unless it
\* is the top-level content itself.
IsAttachment(n) ==
    /\ ~IsMultipart(n)
    /\ \/ IsMimeType(n, "message", "rfc822")
       \/ /\ ~IsCryptoPart(n) /\ LooksAttached(n)
          /\ Parent(n) # Null => n # TextContent(TopLevel(n))

\* Mutant: hasAttachment() looks into multipart/related, too.
HasAttachmentAnywhere(n) ==
    LET has[m \in Node] ==
            IsAttachment(m) \/ (IsMultipart(m) /\ \E c \in Members(kids[m]) : has[c])
    IN  has[n]

\* KMime::hasAttachment()
HasAttachment(n) ==
    LET has[m \in Node] ==
            \/ IsAttachment(m)
            \/ /\ IsMultipart(m) /\ ~IsSubtype(m, "related")
               /\ \E c \in Members(kids[m]) : has[c]
    IN  has[n]

\* Content::attachments(), in depth-first order.
Attachments(n) ==
    LET all[m \in Node] ==
            IF IsMultipart(m) /\ ~IsSubtype(m, "related")
            THEN FlattenSeq([i \in DOMAIN kids[m] |->
                                IF IsAttachment(kids[m][i]) THEN <<kids[m][i]>>
                                ELSE all[kids[m][i]]])
            ELSE <<>>
    IN  all[n]

-----------------------------------------------------------------------------
(* Invitations, the main body part, signatures and encryption. *)

\* KMime::isInvitation()
IsInvitation(n) == IsMimeType(n, "text", "calendar")

\* KMime::hasInvitation()
HasInvitation(n) ==
    LET has[m \in Node] ==
            IsInvitation(m) \/ (IsMultipart(m) /\ \E c \in Members(kids[m]) : has[c])
    IN  has[n]

\* The empty type that mainBodyPart() is called with by default.
AnyType == <<"", "">>

\* Mutant: the first part of a type, wherever it is.
FirstBodyPart(n, type) ==
    LET part[m \in Node] ==
            LET found == {i \in DOMAIN kids[m] : part[kids[m][i]] # Null}
            IN  IF ~IsMultipart(m)
                THEN IF type = AnyType \/ IsMimeType(m, type[1], type[2]) THEN m ELSE Null
                ELSE IF found = {} THEN Null
                ELSE part[kids[m][Min(found)]]
    IN  part[n]

\* Message::mainBodyPart(): the first part of every multipart, or the part of
\* that type in a multipart/alternative.  (There the code dereferences null
\* when a part without Content-Type comes first; here such a part is none of
\* that type.)
MainBodyPart(n, type) ==
    LET part[m \in Node] ==
            LET ofType == {i \in DOMAIN kids[m] : IsMimeType(kids[m][i], type[1], type[2])}
            IN  IF ~IsMultipart(m)
                THEN IF type = AnyType \/ IsMimeType(m, type[1], type[2]) THEN m ELSE Null
                ELSE IF kids[m] = <<>> THEN Null
                ELSE IF ~IsSubtype(m, "alternative") THEN part[kids[m][1]]
                ELSE IF type = AnyType THEN kids[m][1]
                ELSE IF ofType = {} THEN Null
                ELSE kids[m][Min(ofType)]
    IN  part[n]

\* The types that isSigned() and isEncrypted() look for, in the message itself
\* by subtype and in its main body part.
Signatures  == {<<"multipart", "signed">>, <<"application", "pgp-signature">>,
                <<"application", "pkcs7-signature">>, <<"application", "x-pkcs7-signature">>}
Encryptions == {<<"multipart", "encrypted">>, <<"application", "pgp-encrypted">>,
                <<"application", "pkcs7-mime">>, <<"application", "x-pkcs7-mime">>}

IsOneOf(m, types) ==
    /\ kind[m].media # "none"
    /\ \E type \in types : IsSubtype(m, type[2]) \/ MainBodyPart(m, type) # Null

\* KMime::isSigned(), KMime::isEncrypted()
IsSigned(m)    == IsOneOf(m, Signatures)
IsEncrypted(m) == IsOneOf(m, Encryptions)

-----------------------------------------------------------------------------
(* The trees. *)

NoHeaders == [media |-> "none", sub |-> "", name |-> "", filename |-> "",
              disposition |-> "none"]

Init == FInit /\ kind = [n \in Node |-> NoHeaders]

\* The headers go with their contents.
KeepKinds == kind' = [n \in Node |-> IF n \in nodes' THEN kind[n] ELSE NoHeaders]

\* A content is created with its headers.
Begin(n, k) ==
    /\ Cardinality(Roots) < MaxTrees /\ Create(n)
    /\ kind' = [kind EXCEPT ![n] = k]

\* Only a multipart has parts and only a message/rfc822 a message: so the
\* trees are that parse() makes.
AddPart(p, c) == IsMultipart(p) /\ Graft(p, c) /\ KeepKinds

AddMessage(p, m, k) ==
    /\ IsMimeType(p, "message", "rfc822") /\ Enclose(p, m)
    /\ kind' = [kind EXCEPT ![m] = k]

RemovePart(c) == (TakeOut(c) \/ Delete(c)) /\ KeepKinds

Next ==
    \/ \E n \in Node, k \in Kinds : Begin(n, k)
    \/ \E p, c \in Node : AddPart(p, c)
    \/ \E p, m \in Node, k \in Kinds : AddMessage(p, m, k)
    \/ \E c \in Node : RemovePart(c)

Spec == Init /\ [][Next]_vars

-----------------------------------------------------------------------------
(* What must hold. *)

\* The contents a walk from n can come to through multiparts, of which it leaves
\* out those with a subtype in "skipped": nothing inside encapsulated messages.
Reached(n, skipped) ==
    {m \in Tree(n) : \A p \in Tree(n) \ {m} :
        m \in Tree(p) => IsMultipart(p) /\ kind[p].sub \notin skipped}

\* isAttachment(), hasAttachment() and attachments() agree: attachments()
\* lists, once each, only contents that look like attachments and are not in a
\* multipart/related nor in an attachment, and it misses none of them outside
\* multipart/alternative; hasAttachment() says whether there is any; and the
\* text of a message is not among them ("or the primary body part").  What is in
\* a multipart/alternative may be listed or not: content.h:618 excludes it, and
\* the code has that condition commented out.
AttachmentsAgree ==
    \A n \in nodes :
        LET list == Attachments(n)
            all  == {m \in Reached(n, {"related"}) \ {n} : IsAttachment(m)}
        IN  /\ Members(list) \subseteq all /\ Len(list) = Cardinality(Members(list))
            /\ \A m \in all \ Members(list) :
                  \E p \in Tree(n) \ {m} : IsSubtype(p, "alternative") /\ m \in Tree(p)
            /\ HasAttachment(n) <=> list # <<>> \/ IsAttachment(n)
            /\ n \in Roots => TextContent(n) \notin Members(list)

\* mainBodyPart() and textContent() agree on what the text of a message is, or
\* name two parts of one multipart/alternative; and a message is an invitation,
\* signed or encrypted by what is in it, not in a message it forwards.
BodyAgrees ==
    \A m \in Roots \cup messages :
        LET own == Reached(m, {})
            text == TextContent(m)
            Own(types) == \E c \in own : \E type \in types : IsSubtype(c, type[2])
        IN  /\ \A type \in {AnyType, <<"text", "plain">>, <<"text", "calendar">>} :
                  LET b == MainBodyPart(m, type)
                  IN  b # Null /\ IsText(b) =>
                        \/ b = text
                        \/ IsSubtype(Parent(b), "alternative") /\ text \in Tree(Parent(b))
            /\ HasInvitation(m) <=> \E c \in own : IsInvitation(c)
            /\ IsSigned(m) => Own(Signatures)
            /\ IsEncrypted(m) => Own(Encryptions)

\* The contents that are part of another.
Parts == UNION {Members(kids[n]) : n \in nodes}

\* To delete or take out one attachment changes no other: the message keeps its
\* text, unless that was inside, and the other attachments, in their order.
AttachmentsStay ==
    [][\A c \in Parts \ Parts' : RemovePart(c) =>
        \A r \in {TopLevel(c)} :
            c \in Members(Attachments(r)) /\ TextContent(r) \notin Tree(c) =>
                /\ Attachments(r)' = Without(Attachments(r), c)
                /\ TextContent(r)' = TextContent(r)]_vars
=============================================================================
