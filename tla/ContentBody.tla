----------------------------- MODULE ContentBody -----------------------------
(***************************************************************************)
(* The two representations of one KMime::Content (content.cpp): the text   *)
(* (head and body) and the objects (headers, sub-contents), with the flags *)
(* that relate them: m_decoded tells whether the content transfer encoding *)
(* has been removed from the body, frozen and frozenBody keep the body as  *)
(* it was received.                                                        *)
(*                                                                         *)
(* A body is its data and the transfer encodings applied to it, outermost  *)
(* first.  Decoding what is not encoded yields Garbled data.  A newline at *)
(* the end of the body is layout and left out.  The sub-contents of a      *)
(* multipart are one piece of data ("parts"); ContentTree has their tree   *)
(* and MultiPart their text.                                               *)
(***************************************************************************)
EXTENDS Sequences

CONSTANTS
    Data,      \* what a body can say
    NoData,    \* the data of an empty body
    Garbled,   \* the result of decoding what was not encoded
    Received,  \* the texts given to setContent()
    Encodings, \* the transfer encodings the caller asks for
    Ops        \* the API operations the caller uses

\* The values of a Content-Transfer-Encoding; "7bit" stands for 8bit and for
\* unknown ones too, "none" for a missing header.
Cte == {"none", "7bit", "qp", "base64", "uuencode", "binary"}

\* The types encodedBody() and decodeText() tell apart.
Type == {"text", "blob", "multi"}

Header == [cte : Cte, type : Type]

Transforming == {"qp", "base64", "uuencode"}

BodyText == [data : Data \cup {NoData, Garbled}, enc : Seq(Transforming)]

Plain(d) == [data |-> d, enc |-> <<>>]

Empty == Plain(NoData)

Encode(cte, b) ==
    IF cte \in Transforming /\ b # Empty THEN [b EXCEPT !.enc = <<cte>> \o @] ELSE b

Decode(cte, b) ==
    IF cte \notin Transforming \/ b = Empty THEN b
    ELSE IF b.enc # <<>> /\ Head(b.enc) = cte THEN [b EXCEPT !.enc = Tail(@)]
    ELSE Plain(Garbled)

\* A text as it is sent: its header and the body encoded accordingly.
HeaderOfText == {h \in Header : h.type = "multi" => h.cte \in {"none", "7bit"}}

Sent == {[head |-> h, body |-> Encode(h.cte, Plain(d))] : h \in HeaderOfText, d \in Data}

ASSUME ConstantsAssumption ==
    /\ NoData \notin Data /\ Garbled \notin Data /\ NoData # Garbled
    /\ Received \subseteq Sent
    /\ Encodings \subseteq Cte \ {"none"}

VARIABLES
    head,       \* ContentPrivate::head, as the header it declares
    headers,    \* ContentPrivate::headers
    body,       \* ContentPrivate::body
    parts,      \* the data of ContentPrivate::multipartContents
    frozen,     \* ContentPrivate::frozen
    frozenBody, \* ContentPrivate::frozenBody
    decoded,    \* ContentPrivate::m_decoded
    current,    \* the headers are those of the head (history)
    content     \* what the caller last put into the content (history)

vars == <<head, headers, body, parts, frozen, frozenBody, decoded, current, content>>

NoHeader == [cte |-> "none", type |-> "text"]

-----------------------------------------------------------------------------
(* Reading the content. *)

\* Mutant: a text that is already encoded is encoded again.
AlwaysNeedToEncode == headers.cte \in {"qp", "base64"}

\* ContentPrivate::needToEncode()
NeedToEncode == decoded /\ headers.cte \in {"qp", "base64"}

\* Content::encodedBody()
EncodedBody ==
    IF frozen THEN IF frozenBody = Empty THEN body ELSE frozenBody
    ELSE IF body # Empty THEN IF NeedToEncode THEN Encode(headers.cte, body) ELSE body
    ELSE Plain(parts)

\* Content::encodedContent()
EncodedContent == [head |-> head, body |-> EncodedBody]

\* Mutant: the flag is not looked at.
AlwaysDecodedBody == Decode(headers.cte, body)

\* Content::decodedBody()
DecodedBody == IF decoded THEN body ELSE Decode(headers.cte, body)

\* ContentPrivate::decodeText() on a text: it is stored decoded.
DecodedInPlace == /\ body' = DecodedBody
                  /\ decoded' = TRUE

-----------------------------------------------------------------------------
(* The operations. *)

\* Mutant: the flag has no initial value.
UninitializedInit ==
    /\ head = NoHeader /\ headers = NoHeader
    /\ body = Empty /\ parts = NoData
    /\ frozen = FALSE /\ frozenBody = Empty /\ decoded = NoData
    /\ current = TRUE /\ content = NoData

\* A new Content.
Init ==
    /\ head = NoHeader /\ headers = NoHeader
    /\ body = Empty /\ parts = NoData
    /\ frozen = FALSE /\ frozenBody = Empty /\ decoded = TRUE
    /\ current = TRUE /\ content = NoData

\* The careful caller gives a text to an object that was never used, another
\* one also to an object that clear() has emptied.
Cleared == head = NoHeader /\ headers = NoHeader /\ body = Empty /\ parts = NoData

Unused == Cleared /\ frozenBody = Empty /\ decoded

\* Content::setContent()
SetContent(text) ==
    /\ "setContent" \in Ops
    /\ Unused \/ (Cleared /\ "reuse" \in Ops)
    /\ head' = text.head /\ body' = text.body
    /\ current' = FALSE /\ content' = text.body.data
    /\ UNCHANGED <<headers, parts, frozen, frozenBody, decoded>>

\* A caller changes the content only when its objects are up to date and it
\* is not frozen.
Modifiable == current /\ ~frozen

\* Mutant: the flag keeps its value.
UndecidedFlag == decoded

\* m_decoded after the headers were read; without a header it stays.
ParsedFlag == IF head.cte = "none" THEN decoded ELSE head.cte = "7bit"

\* Mutant: the body is not saved.
UnsavedBody == frozenBody

\* frozenBody after parse().
SavedBody == IF frozen THEN body ELSE frozenBody

\* Content::parse().  A multipart's body goes to the sub-contents; one without
\* a part is treated as text.
Parse ==
    LET multi == head.type = "multi" /\ body # Empty
    IN  /\ "parse" \in Ops
        /\ ~current \/ "reparse" \in Ops
        /\ headers' = [head EXCEPT !.type = IF @ = "multi" /\ ~multi THEN "text" ELSE @]
        /\ decoded' = ParsedFlag
        /\ frozenBody' = SavedBody
        /\ parts' = IF multi THEN body.data ELSE NoData
        /\ body' = IF multi THEN Empty ELSE body
        /\ current' = TRUE
        /\ UNCHANGED <<head, frozen, content>>

\* Content::assemble()
Assemble ==
    /\ "assemble" \in Ops /\ current
    /\ head' = IF frozen THEN head ELSE headers
    /\ UNCHANGED <<headers, body, parts, frozen, frozenBody, decoded, current, content>>

\* Content::setBody() and fromUnicodeString() on a leaf.
SetBody(d) ==
    /\ "setBody" \in Ops /\ Modifiable /\ headers.type # "multi"
    /\ body' = Plain(d)
    /\ decoded' = TRUE /\ content' = d
    /\ UNCHANGED <<head, headers, parts, frozen, frozenBody, current>>

\* Content::setEncodedBody() with a body encoded as the header says, which
\* therefore is there.
SetEncodedBody(d) ==
    /\ "setBody" \in Ops /\ Modifiable /\ headers.type # "multi" /\ headers.cte # "none"
    /\ body' = Encode(headers.cte, Plain(d))
    /\ decoded' = FALSE /\ content' = d
    /\ UNCHANGED <<head, headers, parts, frozen, frozenBody, current>>

\* contentType()->setMimeType() before there is a body.
SetType(t) ==
    /\ "setType" \in Ops /\ Modifiable /\ body = Empty /\ parts = NoData
    /\ headers' = [headers EXCEPT !.type = t]
    /\ UNCHANGED <<head, body, parts, frozen, frozenBody, decoded, current, content>>

\* contentTransferEncoding()->setEncoding(), which leaves the body alone, on
\* a leaf whose body is stored decoded or that has no such header yet.
SetEncoding(e) ==
    /\ "setEncoding" \in Ops /\ Modifiable /\ e \in Encodings
    /\ headers.type # "multi" /\ (decoded \/ headers.cte = "none")
    /\ headers' = [headers EXCEPT !.cte = e]
    /\ UNCHANGED <<head, body, parts, frozen, frozenBody, decoded, current, content>>

\* Content::changeEncoding().  A missing header is created as 7bit; only base64
\* makes sense for binary data.
ChangeEncoding(e) ==
    /\ "changeEncoding" \in Ops /\ Modifiable /\ e \in Encodings
    /\ headers.type = "text" \/ (headers.type = "blob" /\ e = "base64")
    /\ headers' = [headers EXCEPT !.cte = e]
    /\ IF headers.cte = e \/ (headers.cte = "none" /\ e = "7bit")
       THEN UNCHANGED <<body, decoded>>
       ELSE IF headers.type = "text" THEN DecodedInPlace
       ELSE body' = Encode("base64", DecodedBody) /\ decoded' = FALSE
    /\ UNCHANGED <<head, parts, frozen, frozenBody, current, content>>

\* Content::decodedText() of a text.
DecodedText ==
    /\ "decodedText" \in Ops /\ current /\ headers.type = "text"
    /\ DecodedInPlace
    /\ UNCHANGED <<head, headers, parts, frozen, frozenBody, current, content>>

\* Content::setFrozen().  The careful caller freezes before parse().
SetFrozen(f) ==
    /\ "setFrozen" \in Ops
    /\ f => (frozenBody = Empty /\ ~current) \/ "freezeLate" \in Ops
    /\ frozen' = f
    /\ UNCHANGED <<head, headers, body, parts, frozenBody, decoded, current, content>>

\* Content::clear()
Clear ==
    /\ "clear" \in Ops /\ ~frozen
    /\ head' = NoHeader /\ headers' = NoHeader
    /\ body' = Empty /\ parts' = NoData
    /\ current' = TRUE /\ content' = NoData
    /\ UNCHANGED <<frozen, frozenBody, decoded>>

Next ==
    \/ \E text \in Received : SetContent(text)
    \/ \E d \in Data : SetBody(d) \/ SetEncodedBody(d)
    \/ \E t \in Type \ {"multi"} : SetType(t)
    \/ \E e \in Encodings : SetEncoding(e) \/ ChangeEncoding(e)
    \/ \E f \in BOOLEAN : SetFrozen(f)
    \/ Parse \/ Assemble \/ DecodedText \/ Clear

Spec == Init /\ [][Next]_vars

-----------------------------------------------------------------------------
(* What must hold. *)

TypeOK ==
    /\ head \in Header /\ headers \in Header
    /\ body \in BodyText /\ frozenBody \in BodyText
    /\ parts \in Data \cup {NoData, Garbled}
    /\ content \in Data \cup {NoData}
    /\ frozen \in BOOLEAN /\ decoded \in BOOLEAN /\ current \in BOOLEAN

\* m_decoded tells whether the body has the transfer encoding of the header
\* applied ("Indicates whether body has content transfer encoding applied or
\* not"): exactly that encoding, once.
FlagIsRight ==
    current => IF decoded THEN body.enc = <<>>
               ELSE body = Encode(headers.cte, [body EXCEPT !.enc = <<>>])

\* What the caller reads is what was received or what the caller put in.
ReadBack ==
    current /\ body # Empty => DecodedBody = Plain(content)

\* What is sent says what was put in: once the head is assembled, whoever
\* decodes encodedBody() as the head says gets the content.
SentIsReadable ==
    current /\ ~frozen /\ head.cte = headers.cte =>
        Decode(head.cte, EncodedBody) = Plain(content)

\* A frozen content stays as it was received: parse(), assemble() and reading
\* the text do not change what encodedContent() returns.
FrozenIsImmutable ==
    [][frozen /\ (Parse \/ Assemble \/ DecodedText)
        => EncodedContent' = EncodedContent]_vars
==============================================================================
